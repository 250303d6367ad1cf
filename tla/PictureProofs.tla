--------------------------- MODULE PictureProofs ---------------------------
(***************************************************************************)
(* Proofs about OperationalPicture, for every set of cases.  Every answer  *)
(* of the adapter and of the dashboard is computed from the official files *)
(* or from nothing: the STOP gate lets no other content through.  What the *)
(* rules conclude from those files is proved for files of any length: the  *)
(* evacuation crosses the place upstream, the clearance time is of one     *)
(* instant, nothing later than the event counts, and the dashboard agrees. *)
(***************************************************************************)
EXTENDS OperationalPicture, Induction

-----------------------------------------------------------------------------
(* What the helpers on sequences return *)

\* AtPositions takes the places of I one after the other, leaving none out.
Takes(h, s, I) ==
    /\ h \in [1..Len(AtPositions(s, I)) -> I \cap (1..Len(s))]
    /\ \A k \in 1..Len(AtPositions(s, I)) : AtPositions(s, I)[k] = s[h[k]]
    /\ \A j, k \in 1..Len(AtPositions(s, I)) : j < k => h[j] < h[k]
    /\ \A i \in I \cap (1..Len(s)) : \E k \in 1..Len(AtPositions(s, I)) : h[k] = i

LEMMA TakenInOrder ==
    ASSUME NEW X, NEW s \in Seq(X), NEW I
    PROVE  AtPositions(s, I) \in Seq(X) /\ \E h : Takes(h, s, I)
<1> DEFINE N == Len(s)
           V == Seq(X)
           Step(before, n) == IF n \in I THEN Append(before, s[n]) ELSE before
           step == [p \in V \X (1..N) |-> Step(p[1], p[2])]
<1>1. N \in Nat /\ \A i \in 1..N : s[i] \in X
  OBVIOUS
<1>2. ASSUME NEW before \in V, NEW n \in 1..N PROVE Step(before, n) \in V
  BY <1>1
<1>3. step \in [V \X (1..N) -> V]
  <2> HIDE DEF Step, V
  <2>1. QED
    BY <1>2
<1>4. PICK g : Along(g, N, V, <<>>, step)
  <2>1. <<>> \in V
    OBVIOUS
  <2> HIDE DEF N, V, step
  <2>2. QED
    BY <1>1, <1>3, <2>1, DefinedAlong
<1>5. g = [n \in 0..N |-> IF n = 0 THEN <<>> ELSE Step(g[n - 1], n)]
  <2> HIDE DEF N, V, Step
  <2>1. ASSUME NEW n \in 1..N PROVE g[n] = Step(g[n - 1], n)
    <3>1. g \in [0..N -> V] /\ n - 1 \in 0..N
      BY <1>1, <1>4 DEF Along
    <3>2. <<g[n - 1], n>> \in V \X (1..N)
      BY <3>1
    <3>3. QED
      BY <1>4, <3>2 DEF Along
  <2>2. ASSUME NEW n \in 0..N PROVE g[n] = IF n = 0 THEN <<>> ELSE Step(g[n - 1], n)
    BY <1>1, <1>4, <2>1 DEF Along
  <2>3. QED
    BY <1>4, <2>2 DEF Along
<1> DEFINE upTo == CHOOSE f : f = [n \in 0..N |-> IF n = 0 THEN <<>> ELSE Step(f[n - 1], n)]
<1>6. upTo = [n \in 0..N |-> IF n = 0 THEN <<>> ELSE Step(upTo[n - 1], n)]
  BY <1>5
<1>7. AtPositions(s, I) = upTo[N]
  BY DEF AtPositions
<1> HIDE DEF upTo
<1> DEFINE Taken(h, n) ==
               /\ h \in [1..Len(upTo[n]) -> I \cap (1..n)]
               /\ \A k \in 1..Len(upTo[n]) : upTo[n][k] = s[h[k]]
               /\ \A j, k \in 1..Len(upTo[n]) : j < k => h[j] < h[k]
               /\ \A i \in I \cap (1..n) : \E k \in 1..Len(upTo[n]) : h[k] = i
           Good(n) == upTo[n] \in V /\ \E h : Taken(h, n)
           S == {n \in Nat : n <= N => Good(n)}
<1>8. 0 \in S
  <2>1. upTo[0] = <<>>
    BY <1>1, <1>6
  <2>2. Len(upTo[0]) = 0 /\ 1..0 = {} /\ upTo[0] \in V
    BY <2>1
  <2>3. Taken([k \in 1..0 |-> 0], 0)
    BY <2>2
  <2>4. QED
    BY <2>2, <2>3
<1>9. ASSUME NEW n \in S PROVE n + 1 \in S
  <2>1. SUFFICES ASSUME n + 1 <= N PROVE Good(n + 1)
    BY <1>9
  <2>2. n \in Nat /\ n + 1 \in 1..N /\ n \in 0..N /\ n + 1 \in 0..N /\ (n + 1) - 1 = n
        /\ Good(n)
    BY <1>1, <1>9, <2>1
  <2>3. upTo[n + 1] = Step(upTo[n], n + 1)
    <3> HIDE DEF Step, Good
    <3>1. n + 1 # 0
      BY <2>2
    <3>2. QED
      BY <1>6, <2>2, <3>1
  <2>4. PICK h : Taken(h, n)
    BY <2>2
  <2>5. CASE n + 1 \notin I
    <3>1. upTo[n + 1] = upTo[n]
      BY <2>3, <2>5
    <3>2. I \cap (1..(n + 1)) = I \cap (1..n)
      BY <2>2, <2>5
    <3>3. Taken(h, n + 1)
      BY <2>4, <3>1, <3>2
    <3>4. QED
      BY <2>2, <3>1, <3>3
  <2>6. CASE n + 1 \in I
    <3> DEFINE t == upTo[n]
               m == Len(t)
               h2 == [k \in 1..(m + 1) |-> IF k = m + 1 THEN n + 1 ELSE h[k]]
    <3>1. t \in Seq(X) /\ s[n + 1] \in X /\ m \in Nat
      BY <1>1, <2>2
    <3>2. upTo[n + 1] = Append(t, s[n + 1])
      BY <2>3, <2>6
    <3>3. /\ upTo[n + 1] \in V /\ Len(upTo[n + 1]) = m + 1
          /\ upTo[n + 1][m + 1] = s[n + 1]
          /\ \A k \in 1..m : upTo[n + 1][k] = t[k]
      <4> HIDE DEF t
      <4>1. QED
        BY <3>1, <3>2
    <3>4. /\ h \in [1..m -> I \cap (1..n)]
          /\ \A k \in 1..m : t[k] = s[h[k]]
          /\ \A j, k \in 1..m : j < k => h[j] < h[k]
          /\ \A i \in I \cap (1..n) : \E k \in 1..m : h[k] = i
      BY <2>4
    <3> HIDE DEF t, m
    <3>5. h2 \in [1..(m + 1) -> I \cap (1..(n + 1))]
      <4>1. ASSUME NEW k \in 1..(m + 1)
            PROVE  (IF k = m + 1 THEN n + 1 ELSE h[k]) \in I \cap (1..(n + 1))
        <5>1. CASE k = m + 1
          BY <2>2, <2>6, <5>1
        <5>2. CASE k \in 1..m
          <6>1. h[k] \in I \cap (1..n) /\ k # m + 1
            BY <3>1, <3>4, <5>2
          <6>2. QED
            BY <2>2, <6>1
        <5>3. QED
          BY <3>1, <5>1, <5>2
      <4>2. QED
        BY <4>1
    <3>6. ASSUME NEW k \in 1..(m + 1) PROVE upTo[n + 1][k] = s[h2[k]]
      <4>1. CASE k = m + 1
        BY <3>1, <3>3, <4>1
      <4>2. CASE k \in 1..m
        BY <3>1, <3>3, <3>4, <4>2
      <4>3. QED
        BY <3>1, <4>1, <4>2
    <3>7. ASSUME NEW j \in 1..(m + 1), NEW k \in 1..(m + 1), j < k PROVE h2[j] < h2[k]
      <4>1. j \in 1..m /\ h2[j] = h[j] /\ h[j] \in 1..n
        BY <3>1, <3>4, <3>7
      <4>2. CASE k = m + 1
        BY <2>2, <4>1, <4>2
      <4>3. CASE k \in 1..m
        BY <3>1, <3>4, <3>7, <4>1, <4>3
      <4>4. QED
        BY <3>1, <4>2, <4>3
    <3>8. ASSUME NEW i \in I \cap (1..(n + 1)) PROVE \E k \in 1..(m + 1) : h2[k] = i
      <4>1. CASE i = n + 1
        BY <3>1, <4>1, m + 1 \in 1..(m + 1)
      <4>2. CASE i \in 1..n
        <5>1. PICK k \in 1..m : h[k] = i
          BY <3>4, <4>2
        <5>2. QED
          BY <3>1, <5>1
      <4>3. QED
        BY <2>2, <4>1, <4>2
    <3>9. Taken(h2, n + 1)
      <4> HIDE DEF h2
      <4>1. QED
        BY <3>3, <3>5, <3>6, <3>7, <3>8
    <3>10. QED
      <4> HIDE DEF V, h2, Taken
      <4>1. QED
        BY <3>3, <3>9
  <2>7. QED
    BY <2>5, <2>6
<1>10. Good(N)
  <2> HIDE DEF Good, N
  <2>1. N \in S
    BY <1>1, <1>8, <1>9, EveryNumber
  <2>2. QED
    BY <1>1, <2>1
<1>11. QED
  BY <1>7, <1>10 DEF Takes

\* The sum of numbers is a number.
LEMMA SumIsANumber ==
    ASSUME NEW n \in Nat, NEW readings, Len(readings) = n,
           \A i \in 1..n : readings[i].saturation \in Int
    PROVE  SumOf(readings) \in Int
<1> DEFINE step == [p \in Int \X (1..n) |-> p[1] + readings[p[2]].saturation]
<1>1. step \in [Int \X (1..n) -> Int]
  OBVIOUS
<1>2. PICK g : Along(g, n, Int, 0, step)
  <2>1. 0 \in Int
    OBVIOUS
  <2> HIDE DEF step
  <2>2. QED
    BY <1>1, <2>1, DefinedAlong
<1>3. g = [i \in 0..n |-> IF i = 0 THEN 0 ELSE g[i - 1] + readings[i].saturation]
  <2>1. ASSUME NEW i \in 1..n PROVE g[i] = g[i - 1] + readings[i].saturation
    <3>1. g \in [0..n -> Int] /\ i - 1 \in 0..n
      BY <1>2 DEF Along
    <3>2. <<g[i - 1], i>> \in Int \X (1..n)
      BY <3>1
    <3>3. QED
      BY <1>2, <3>2 DEF Along
  <2>2. QED
    BY <1>2, <2>1 DEF Along
<1> DEFINE upTo == CHOOSE f : f = [i \in 0..n |-> IF i = 0 THEN 0
                                                  ELSE f[i - 1] + readings[i].saturation]
<1>4. upTo = [i \in 0..n |-> IF i = 0 THEN 0 ELSE upTo[i - 1] + readings[i].saturation]
  BY <1>3
<1>5. SumOf(readings) = upTo[n]
  BY DEF SumOf
<1> HIDE DEF upTo
<1> DEFINE S == {i \in Nat : i <= n => upTo[i] \in Int}
<1>6. 0 \in S
  BY <1>4
<1>7. ASSUME NEW i \in S PROVE i + 1 \in S
  <2>1. SUFFICES ASSUME i + 1 <= n PROVE upTo[i + 1] \in Int
    BY <1>7
  <2>2. i \in Nat /\ upTo[i] \in Int /\ i + 1 \in 0..n /\ i + 1 # 0 /\ (i + 1) - 1 = i
    BY <1>7, <2>1
  <2>3. QED
    BY <1>4, <2>2
<1>8. n \in S
  BY <1>6, <1>7, EveryNumber
<1>9. QED
  BY <1>5, <1>8

-----------------------------------------------------------------------------
(* Every answer comes from the official files or from nothing *)

Stop == Insufficient("source_verification")

\* A file is the official one, cut off, or not there.
FilesAreKnown ==
    /\ files = [f \in Names |-> files[f]]
    /\ \A f \in Names : files[f] \in {case.files[f], Truncated(case.files[f]), Missing}

Queries(data) ==
    {queryTimeline(data), queryRoads(Selector, data), queryCrowd(Selector, data),
     queryIncidents(data)}

PictureInv ==
    /\ case \in Cases
    /\ FilesAreKnown
    /\ decision # None =>
          decision.result \in {execute(Config, data, decision.event_id) : data \in {Official, Stop}}
    /\ board # None => \E data \in {Official, Stop} : board \in Queries(data)

\* A number of the accepted configuration is a number wherever it came from:
\* the file, an override or a parameter.
LEMMA NumbersAreIntegers ==
    ASSUME case \in Cases, validateConfig(Config)
    PROVE  Config.max_staleness.value \in Int
<1> DEFINE d == case.deployment
<1>1. /\ "max_staleness" \in DOMAIN Config
      /\ Config["max_staleness"].type = "number"
  BY DEF validateConfig, CONFIG_SCHEMA
<1>2. DOMAIN Fault = {"thrown"}
  BY DEF Fault
<1>3. Config # Fault
  BY <1>1, <1>2
<1>4. CASE d.profile = "LOCAL_MOCK"
  <2>1. /\ d.file # Missing
        /\ Config = [key \in DOMAIN d.file |->
                        IF key \in DOMAIN d.env THEN coerceEnvValue(d.env[key], d.file[key])
                        ELSE d.file[key]]
    BY <1>3, <1>4 DEF Config, createConfigProvider, LocalFileConfigProvider
  <2>2. AreSettings(d.file) /\ AreSettings(d.env)
    BY <2>1, CasesAssumption DEF CasesAssumption
  <2>3. ASSUME NEW key \in DOMAIN d.file, Config[key].type = "number"
        PROVE  Config[key].value \in Int
    BY <2>1, <2>2, <2>3 DEF AreSettings, coerceEnvValue, Text, Setting
  <2> QED
    BY <1>1, <2>1, <2>3
<1>5. CASE d.profile # "LOCAL_MOCK"
  <2>1. d.parameters # Missing /\ Config = d.parameters
    BY <1>3, <1>5 DEF Config, createConfigProvider, SsmConfigProvider
  <2>2. AreSettings(d.parameters)
    BY <2>1, CasesAssumption DEF CasesAssumption
  <2> QED
    BY <1>1, <2>1, <2>2 DEF AreSettings
<1> QED
  BY <1>4, <1>5

(* What the gate lets through is what the official files say: a damaged or  *)
(* lost file is never read by a parser (runManifestGateSync, ingestData).   *)
LEMMA GateIsSound ==
    ASSUME case \in Cases, FilesAreKnown
    PROVE  Ingested \in {Official, Stop}
<1>1. CASE ~runManifestGateSync(case.expected, files)
  BY <1>1 DEF Ingested, ingestData, Stop
<1>2. CASE runManifestGateSync(case.expected, files)
  <2>1. ASSUME NEW f \in Names
        PROVE  files[f] = case.files[f]
    <3>1. verifySourceBuffer(case.expected[f], files[f]) = "verified"
      BY <1>2, <2>1 DEF runManifestGateSync, evaluateGate, Names
    <3>2. files[f] # Missing /\ files[f].sha = case.expected[f]
      BY <3>1 DEF verifySourceBuffer
    <3>3. case.expected[f] # "truncated"
      BY <2>1, CasesAssumption DEF CasesAssumption
    <3>4. files[f] # Truncated(case.files[f])
      BY <3>2, <3>3 DEF Truncated
    <3> QED
      BY <2>1, <3>2, <3>4 DEF FilesAreKnown
  <2>2. files = case.files
    BY <2>1, CasesAssumption DEF FilesAreKnown, CasesAssumption
  <2> QED
    BY <2>2 DEF Ingested, Official
<1> QED
  BY <1>1, <1>2

LEMMA InitPictureInv == Init => PictureInv
BY CasesAssumption DEF Init, PictureInv, FilesAreKnown, CasesAssumption

LEMMA NextPictureInv == PictureInv /\ [Next]_vars => PictureInv'
<1> SUFFICES ASSUME PictureInv, [Next]_vars
             PROVE  PictureInv'
  OBVIOUS
<1>1. Ingested \in {Official, Stop}
  BY GateIsSound DEF PictureInv
<1>2. ASSUME NEW f \in Names, SourceDamaged(f)
      PROVE  PictureInv'
  <2>1. FilesAreKnown'
    BY <1>2 DEF SourceDamaged, PictureInv, FilesAreKnown
  <2> QED
    BY <1>2, <2>1 DEF SourceDamaged, PictureInv, Official, Config, Selector, Queries
<1>3. ASSUME NEW f \in Names, SourceRestored(f)
      PROVE  PictureInv'
  <2>1. FilesAreKnown'
    BY <1>3 DEF SourceRestored, PictureInv, FilesAreKnown
  <2> QED
    BY <1>3, <2>1 DEF SourceRestored, PictureInv, Official, Config, Selector, Queries
<1>4. ASSUME NEW eventId \in case.events, Decide(eventId)
      PROVE  PictureInv'
  BY <1>1, <1>4 DEF Decide, PictureInv, FilesAreKnown, Official, Config, Selector, Queries
<1>5. ASSUME NEW answer \in Queries(Ingested), Get(answer)
      PROVE  PictureInv'
  BY <1>1, <1>5 DEF Get, PictureInv, FilesAreKnown, Official, Config, Selector, Queries
<1>6. CASE UNCHANGED vars
  BY <1>6 DEF vars, PictureInv, FilesAreKnown, Official, Config, Selector, Queries
<1> QED
  BY <1>2, <1>3, <1>4, <1>5, <1>6
  DEF Next, GetTimeline, GetRoads, GetCrowd, GetIncidents, Queries

\* Nothing is ready that comes from nothing.
LEMMA StopIsNotReady ==
    /\ Official.data_status # "error" /\ Stop.data_status = "insufficient_data"
    /\ \A id : execute(Config, Stop, id).data_status = "insufficient_data"
    /\ \A answer \in Queries(Stop) : answer.data_status = "insufficient_data"
    /\ \A answer \in Queries(Official) :
          answer.data_status = "ready" => Official.data_status = "ready"
<1>1. Stop.data_status = "insufficient_data"
  BY DEF Stop, Insufficient
<1>2. Official.data_status \in {"insufficient_data", "ready"}
  BY DEF Official, ingestData, Insufficient
<1>3. ASSUME NEW id
      PROVE  execute(Config, Stop, id).data_status = "insufficient_data"
  BY <1>1 DEF execute, Stopped
<1>4. ASSUME NEW data, data.data_status \in {"insufficient_data", "ready"},
             NEW answer \in Queries(data)
      PROVE  /\ data.data_status = "insufficient_data" =>
                    answer.data_status = "insufficient_data"
             /\ answer.data_status = "ready" => data.data_status = "ready"
  <2>1. ASSUME NEW route, NEW body, answer = Answer(route, data, body)
        PROVE  answer.data_status = data.data_status
    BY <2>1 DEF Answer
  <2>2. ASSUME NEW route, NEW body, answer = SelectedAnswer(route, Selector, data, body)
        PROVE  /\ data.data_status = "insufficient_data" =>
                    answer.data_status = "insufficient_data"
               /\ answer.data_status = "ready" => data.data_status = "ready"
    BY <1>4, <2>2 DEF SelectedAnswer, Answer
  <2> QED
    BY <1>4, <2>1, <2>2
    DEF Queries, queryTimeline, queryRoads, queryCrowd, queryIncidents
<1> QED
  BY <1>1, <1>2, <1>3, <1>4

\* A configuration the schema accepts, with a limit and a set the strategies
\* know, is a policy.
LEMMA AcceptedIsAPolicy ==
    ASSUME validateConfig(Config), Config.max_staleness.value >= 0,
           Config.ete.value \in ImplementedEteSets
    PROVE  createPolicyStrategyBundle(Config) # Fault
<1>1. ASSUME NEW key \in DOMAIN CONFIG_SCHEMA
      PROVE  /\ key \in DOMAIN Config
             /\ Config[key].type = CONFIG_SCHEMA[key].type
             /\ CONFIG_SCHEMA[key].allowed # {} => Config[key].value \in CONFIG_SCHEMA[key].allowed
  BY DEF validateConfig
<1>2. /\ readEnum(Config, "time_alignment", TimeAlignmentModes)
      /\ readEnum(Config, "affected_road", AffectedRoadRoles)
  BY <1>1 DEF CONFIG_SCHEMA, readEnum, TimeAlignmentModes, AffectedRoadRoles
<1>3. /\ readEnum(Config, "incident_anchor", IncidentAnchorModes)
      /\ readEnum(Config, "affected_intersection_scope", AffectedIntersectionScopeModes)
  BY <1>1 DEF CONFIG_SCHEMA, readEnum, IncidentAnchorModes, AffectedIntersectionScopeModes
<1>4. readEnum(Config, "multilingual_scope", MultilingualScopeModes)
  BY <1>1 DEF CONFIG_SCHEMA, readEnum, MultilingualScopeModes
<1>5. /\ readEnum(Config, "ete", ImplementedEteSets)
      /\ "max_staleness" \in DOMAIN Config /\ Config.max_staleness.type = "number"
  BY <1>1 DEF CONFIG_SCHEMA, readEnum
<1>6. createPolicyStrategyBundle(Config) = [key \in DOMAIN Config |-> Config[key].value]
  BY <1>2, <1>3, <1>4, <1>5 DEF createPolicyStrategyBundle
<1>7. DOMAIN Fault = {"thrown"}
  BY DEF Fault
<1>8. "ete" \in DOMAIN Config
  BY <1>5 DEF readEnum
<1> QED
  BY <1>6, <1>7, <1>8

\* Every evaluation is of one of the seven articles.
OfTheSop(evaluations) == \A e \in evaluations : e.article \in 1..7

\* Articles 1 and 2 are evaluated for a road, 3 and 4 for their stations.
LEMMA PartsAreOfTheSop ==
    ASSUME NEW policy, NEW data, NEW incident
    PROVE  /\ OfTheSop(RoadFacts(policy, data, incident).evaluations)
           /\ OfTheSop(NoRoadFacts.evaluations)
           /\ OfTheSop(StationEvaluations(policy, data, incident))
<1>1. \A grades : evaluateArticle1(grades).evaluation.article = 1
  BY DEF evaluateArticle1, Evaluation
<1>2. OfTheSop(RoadFacts(policy, data, incident).evaluations)
  <2>1. ASSUME NEW grades, NEW anchor, NEW routes
        PROVE  OfTheSop(roadConclusions(policy, data, incident, grades, anchor, routes).evaluations)
    BY <1>1 DEF OfTheSop, roadConclusions, Evaluation
  <2> QED
    BY <2>1 DEF RoadFacts
<1>3. OfTheSop(NoRoadFacts.evaluations)
  BY DEF OfTheSop, NoRoadFacts
<1>4. OfTheSop(StationEvaluations(policy, data, incident))
  <2>1. \A reading : evaluateArticle3(reading).article = 3
    BY DEF evaluateArticle3, Evaluation
  <2>2. \A reading, rows, observations, event :
            evaluateArticle4(reading, rows, observations, event).article = 4
    BY DEF evaluateArticle4, Evaluation
  <2> QED
    BY <2>1, <2>2 DEF OfTheSop, StationEvaluations
<1> QED
  BY <1>2, <1>3, <1>4

\* With the seven articles loaded, no citation lacks its chunk.
LEMMA FactsOfTheSop ==
    ASSUME NEW policy, NEW data, NEW incident, NEW road, NEW network, NEW scope,
           data.articles = 1..7, OfTheSop(road.evaluations)
    PROVE  decisionFacts(policy, data, incident, road, evaluateArticle5(incident, network), scope)
              # Fault
<1> DEFINE failure == evaluateArticle5(incident, network)
           all == road.evaluations \cup {failure.evaluation, evaluateArticle6(scope)}
                     \cup StationEvaluations(policy, data, incident)
           formula == IF road.ete = None THEN {} ELSE {7}
           articles == aggregateArticles(all, formula)
<1> SUFFICES decisionFacts(policy, data, incident, road, failure, scope) # Fault
  OBVIOUS
<1>1. failure.evaluation.article = 5
  BY DEF evaluateArticle5, Evaluation
<1>2. evaluateArticle6(scope).article = 6
  BY DEF evaluateArticle6, Evaluation
<1>3. OfTheSop(all)
  <2> HIDE DEF failure
  <2> QED
    BY <1>1, <1>2, PartsAreOfTheSop DEF OfTheSop
<1>4. articles.cited \subseteq 1..7
  <2> HIDE DEF all
  <2> QED
    BY <1>3 DEF OfTheSop, aggregateArticles
<1>5. evidenceIsComplete(articles, data.articles)
  BY <1>4 DEF evidenceIsComplete
<1>6. DOMAIN Fault = {"thrown"}
  BY DEF Fault
<1>7. decisionFacts(policy, data, incident, road, failure, scope) =
          [articles |-> articles,
           classifications |-> road.classifications,
           anchor |-> road.anchor,
           routes |-> road.routes,
           ete |-> road.ete,
           intersections |-> IF failure.evaluation.triggered
                             THEN affectedIntersections(policy, data.network,
                                                        incident.affected_segment)
                             ELSE None,
           multilingual_required |-> evaluateArticle6(scope).triggered,
           stations_in_scope |-> {s.station : s \in scope},
           cms_core_text |-> failure.cms_core_text]
  BY <1>5 DEF decisionFacts
<1> HIDE DEF failure, articles
<1> QED
  BY <1>6, <1>7

(* The deterministic half throws only for what the configuration or the     *)
(* report brings along (decideWith, buildEvidenceTrace).                    *)
LEMMA ErrorsHaveACause ==
    ASSUME validateConfig(Config), Config.max_staleness.value >= 0,
           Config.ete.value \in ImplementedEteSets, NEW id,
           execute(Config, Official, id).data_status = "error"
    PROVE  resolveIncident(Official.incidents, id).at = None
<1> DEFINE incident == resolveIncident(Official.incidents, id)
           policy == createPolicyStrategyBundle(Config)
           facts == runDeterministicDecision(Config, Official, incident)
<1>1. Official.data_status = "ready" /\ facts = Fault
  <2> HIDE DEF facts
  <2>1. Stopped(Official.stop_reason, Official.source_manifest_hash).data_status # "error"
        /\ Stopped("unknown_event", Official.source_manifest_hash).data_status # "error"
    BY DEF Stopped
  <2>2. Official.data_status = "ready" /\ outcomeOf(Official, facts).data_status = "error"
    BY <2>1 DEF execute, facts
  <2> QED
    BY <2>2 DEF outcomeOf, Outcome
<1>2. Official.articles = 1..7
  <2>1. sopParses(case.files["sop"].rows) /\ Official.articles = ToSet(case.files["sop"].rows)
    BY <1>1 DEF Official, ingestData, Insufficient
  <2> QED
    BY <2>1 DEF sopParses, ToSet
<1>3. policy # Fault
  BY AcceptedIsAPolicy
<1>4. ASSUME NEW road, OfTheSop(road.evaluations), NEW scope
      PROVE  decisionFacts(policy, Official, incident, road,
                           evaluateArticle5(incident, Official.network), scope) # Fault
  <2> HIDE DEF policy, incident
  <2> QED
    BY <1>2, <1>4, FactsOfTheSop
<1> QED
  <2> HIDE DEF policy, incident
  <2> SUFFICES ASSUME incident.at # None
               PROVE  FALSE
    BY DEF incident
  <2>1. facts = decideWith(policy, Official, incident)
    BY DEF runDeterministicDecision, policy
  <2> QED
    BY <1>1, <1>3, <1>4, <2>1, PartsAreOfTheSop DEF decideWith

LEMMA PictureInvariant == Spec => []PictureInv
BY InitPictureInv, NextPictureInv, PTL DEF Spec

(* No answer comes from a file that is not the official one, whatever was   *)
(* damaged, restored or asked before, and under an accepted configuration   *)
(* an error has one of three causes (ingestData, the adapter, the queries). *)
THEOREM AnswersAreVerified == Spec => []VerifiedOrNothing
<1>1. ASSUME PictureInv
      PROVE  VerifiedOrNothing
  <2>1. ASSUME decision # None, decision.result.data_status = "error", validateConfig(Config)
        PROVE  \/ Event.at = None
               \/ Config.max_staleness.value < 0
               \/ Config.ete.value \notin ImplementedEteSets
    <3>1. decision.result = execute(Config, Official, decision.event_id)
      BY <1>1, <2>1, StopIsNotReady DEF PictureInv
    <3>2. ASSUME Config.max_staleness.value >= 0, Config.ete.value \in ImplementedEteSets
          PROVE  Event.at = None
      BY <2>1, <3>1, <3>2, ErrorsHaveACause DEF Event
    <3>3. Config.max_staleness.value \in Int
      BY <1>1, <2>1, NumbersAreIntegers DEF PictureInv
    <3> QED
      BY <3>2, <3>3
  <2>2. ASSUME Decided
        PROVE  decision.result = execute(Config, Official, decision.event_id)
    BY <1>1, <2>2, StopIsNotReady DEF PictureInv, Decided
  <2>3. ASSUME board # None, board.data_status = "ready"
        PROVE  Official.data_status = "ready" /\ board \in Queries(Official)
    BY <1>1, <2>3, StopIsNotReady DEF PictureInv
  <2> QED
    BY <2>1, <2>2, <2>3 DEF VerifiedOrNothing, Queries
<1> QED
  BY <1>1, PictureInvariant, PTL

-----------------------------------------------------------------------------
(* What a decision concludes *)

policy == createPolicyStrategyBundle(Config)

\* What the parsers let through is what the columns should hold.
IsTraffic(rows) ==
    /\ rows \in Seq(ToSet(rows))
    /\ \A i \in 1..Len(rows) : /\ rows[i].at \in Int /\ rows[i].saturation \in 0..100
                              /\ rows[i] # None

IsCrowd(rows) ==
    /\ rows \in Seq(ToSet(rows))
    /\ \A i \in 1..Len(rows) : /\ rows[i].at \in Int /\ rows[i].users \in Int
                              /\ rows[i].growth \in Int /\ rows[i].roaming \in Int
                              /\ rows[i] # None

IsRoad(road) ==
    /\ road.capacity_vph \in Nat
    /\ road.intersections \in Seq(ToSet(road.intersections))
    /\ road.alternatives \in Seq(ToSet(road.alternatives))
    /\ None \notin ToSet(road.intersections)

IsData(data) ==
    /\ IsTraffic(data.traffic) /\ IsCrowd(data.crowd)
    /\ \A id \in DOMAIN data.network : IsRoad(data.network[id])

\* The least of the numbers.
LEMMA LeastOf ==
    ASSUME NEW S \in SUBSET Nat, S # {}
    PROVE  Min(S) \in S /\ \A y \in S : Min(S) <= y
BY LeastExists DEF Min

\* The first place of a sequence that passes a test, given as the set of places.
LEMMA FirstPlace ==
    ASSUME NEW n \in Nat, NEW I \in SUBSET (1..n), I # {}
    PROVE  Min(I) \in I /\ \A i \in I : Min(I) <= i
BY LeastOf, I \in SUBSET Nat

LEMMA OfficialIsTyped ==
    ASSUME case \in Cases, Official.data_status = "ready"
    PROVE  /\ IsData(Official)
           /\ \A i \in 1..Len(Official.incidents) : IsNumber(Official.incidents[i].at)
           /\ Len(Official.incidents) \in Nat
           /\ Official.articles = 1..7
<1> DEFINE f == case.files
<1>1. /\ runManifestGateSync(case.expected, f)
      /\ trafficParses(f["traffic"].rows) /\ crowdParses(f["crowd"].rows)
      /\ roadsParse(f["roads"].rows) /\ sopParses(f["sop"].rows)
      /\ Official.traffic = f["traffic"].rows /\ Official.crowd = f["crowd"].rows
      /\ Official.network = load(f["roads"].rows) /\ Official.incidents = f["incidents"].rows
      /\ Official.articles = ToSet(f["sop"].rows)
  BY DEF Official, ingestData, Insufficient
<1>2. {"traffic", "crowd", "roads", "incidents"} \subseteq Names
  <2>1. /\ DOMAIN RUNTIME_SOURCE_FILES = 1..5
        /\ RUNTIME_SOURCE_FILES[1] = "traffic" /\ RUNTIME_SOURCE_FILES[2] = "crowd"
        /\ RUNTIME_SOURCE_FILES[3] = "roads" /\ RUNTIME_SOURCE_FILES[5] = "incidents"
    BY DEF RUNTIME_SOURCE_FILES
  <2> QED
    BY <2>1 DEF Names, ToSet
<1>3. ASSUME NEW x \in Names PROVE AreRows(x, f[x].rows)
  <2>1. f[x] # Missing
    BY <1>1, <1>3 DEF runManifestGateSync, evaluateGate, verifySourceBuffer, Names
  <2> QED
    BY <1>3, <2>1, CasesAssumption DEF CasesAssumption
<1> HIDE DEF f
<1>4. IsTraffic(Official.traffic)
  <2>1. AreRows("traffic", Official.traffic)
    BY <1>1, <1>2, <1>3
  <2> DEFINE rows == Official.traffic
  <2>2. rows \in Seq(ToSet(rows)) /\ \A i \in DOMAIN rows : rows[i] # None /\ IsNumber(rows[i].at)
    BY <2>1 DEF AreRows, IsSequence
  <2>3. \A i \in DOMAIN rows : rows[i].at # None /\ rows[i].saturation \in 0..100
    BY <1>1 DEF trafficParses
  <2> HIDE DEF rows
  <2>4. DOMAIN rows = 1..Len(rows)
    BY <2>2
  <2> QED
    BY <2>2, <2>3, <2>4 DEF IsNumber, IsTraffic, rows
<1>5. IsCrowd(Official.crowd)
  <2>1. AreRows("crowd", Official.crowd)
    BY <1>1, <1>2, <1>3
  <2> QED
    BY <1>1, <2>1 DEF AreRows, IsSequence, IsNumber, IsCrowd, crowdParses
<1>6. ASSUME NEW id \in DOMAIN Official.network PROVE IsRoad(Official.network[id])
  <2> DEFINE rows == f["roads"].rows
  <2>1. AreRows("roads", rows) /\ roadsParse(rows)
    BY <1>1, <1>2, <1>3
  <2> HIDE DEF rows
  <2>2. ASSUME NEW i \in DOMAIN rows PROVE IsRoad(rows[i])
    BY <2>1, <2>2 DEF AreRows, IsSequence, IsNumber, IsRoad, roadsParse
  <2>3. Official.network = load(rows)
    BY <1>1 DEF rows
  <2> DEFINE I == {i \in 1..Len(rows) : rows[i].segment_id = id}
  <2>4. rows \in Seq(ToSet(rows))
    BY <2>1 DEF AreRows, IsSequence
  <2>5. I # {} /\ Len(rows) \in Nat /\ DOMAIN rows = 1..Len(rows)
    BY <1>6, <2>3, <2>4 DEF load
  <2>6. Official.network[id] = rows[Min(I)]
    BY <1>6, <2>3, <2>5 DEF load, SelectInSeq
  <2>7. Min(I) \in I
    BY <2>5, FirstPlace
  <2> QED
    BY <2>2, <2>5, <2>6, <2>7
<1>7. AreRows("incidents", Official.incidents)
  BY <1>1, <1>2, <1>3
<1>8. Official.articles = 1..7
  BY <1>1 DEF sopParses, ToSet
<1> QED
  BY <1>4, <1>5, <1>6, <1>7, <1>8 DEF AreRows, IsSequence, IsData

\* The facts of a decision are those of the rules over the official data.
road == IF IsRoadEvent(Event) THEN RoadFacts(policy, Official, Event) ELSE NoRoadFacts
scope == stationsInScope(policy, currentStations(policy, Official, Event))

LEMMA DecidedByTheRules ==
    ASSUME PictureInv, Decided
    PROVE  /\ Official.data_status = "ready"
           /\ Config # Fault /\ policy # Fault
           /\ Event.at \in Int
           /\ Facts = runDeterministicDecision(Config, Official, Event)
           /\ Facts = decisionFacts(policy, Official, Event, road,
                                    evaluateArticle5(Event, Official.network), scope)
           /\ Facts # Fault
<1> DEFINE facts == runDeterministicDecision(Config, Official, Event)
<1>1. decision.result = execute(Config, Official, decision.event_id)
      /\ decision.result.data_status = "ready"
  BY StopIsNotReady DEF PictureInv, Decided
<1>2. /\ Official.data_status = "ready" /\ Event # None /\ facts # Fault /\ Facts = facts
  <2> HIDE DEF facts
  <2>1. /\ Stopped(Official.stop_reason, Official.source_manifest_hash).data_status # "ready"
        /\ Stopped("unknown_event", Official.source_manifest_hash).data_status # "ready"
    BY DEF Stopped
  <2>2. /\ Official.data_status = "ready" /\ Event # None
        /\ decision.result = outcomeOf(Official, facts)
    BY <1>1, <2>1 DEF execute, Event, facts
  <2>3. facts # Fault
    BY <1>1, <2>2 DEF outcomeOf, Outcome
  <2> QED
    BY <2>2, <2>3 DEF outcomeOf, Outcome, Facts
<1>3. /\ facts = decideWith(policy, Official, Event)
  BY DEF runDeterministicDecision, policy
<1>4. policy # Fault /\ Event.at # None
      /\ facts = decisionFacts(policy, Official, Event, road,
                               evaluateArticle5(Event, Official.network), scope)
  <2> HIDE DEF facts
  <2> QED
    BY <1>2, <1>3 DEF decideWith, road, scope
<1>5. Event.at \in Int
  <2> DEFINE I == {i \in 1..Len(Official.incidents) :
                      Official.incidents[i].event_id = decision.event_id}
  <2>1. I # {} /\ Event = Official.incidents[Min(I)]
    BY <1>2 DEF Event, resolveIncident, SelectInSeq
  <2>2. Min(I) \in I
    BY <1>2, <2>1, FirstPlace, OfficialIsTyped DEF PictureInv
  <2> QED
    BY <1>2, <1>4, <2>1, <2>2, OfficialIsTyped DEF PictureInv, IsNumber
<1>6. Config # Fault
  <2>1. DOMAIN Fault = {"thrown"}
    BY DEF Fault
  <2> QED
    BY <1>4, <2>1 DEF policy, createPolicyStrategyBundle, readEnum
<1> HIDE DEF facts
<1> QED
  BY <1>2, <1>4, <1>5, <1>6 DEF facts

\* ... part by part.
LEMMA PartsOfTheFacts ==
    ASSUME PictureInv, Decided
    PROVE  /\ Facts.classifications = road.classifications
           /\ Facts.routes = road.routes
           /\ Facts.ete = road.ete
           /\ Facts.multilingual_required = evaluateArticle6(scope).triggered
           /\ Facts.articles = aggregateArticles(
                  road.evaluations \cup {evaluateArticle5(Event, Official.network).evaluation,
                                         evaluateArticle6(scope)}
                     \cup StationEvaluations(policy, Official, Event),
                  IF road.ete = None THEN {} ELSE {7})
<1> DEFINE failure == evaluateArticle5(Event, Official.network)
           articles == aggregateArticles(
                  road.evaluations \cup {failure.evaluation, evaluateArticle6(scope)}
                     \cup StationEvaluations(policy, Official, Event),
                  IF road.ete = None THEN {} ELSE {7})
<1>1. Facts # Fault /\ Facts = decisionFacts(policy, Official, Event, road, failure, scope)
  BY DecidedByTheRules
<1>2. evidenceIsComplete(articles, Official.articles)
  <2> HIDE DEF failure
  <2> QED
    BY <1>1 DEF decisionFacts
<1> HIDE DEF failure
<1>3. Facts = [articles |-> articles,
              classifications |-> road.classifications,
              anchor |-> road.anchor,
              routes |-> road.routes,
              ete |-> road.ete,
              intersections |-> IF failure.evaluation.triggered
                                THEN affectedIntersections(policy, Official.network,
                                                           Event.affected_segment)
                                ELSE None,
              multilingual_required |-> evaluateArticle6(scope).triggered,
              stations_in_scope |-> {s.station : s \in scope},
              cms_core_text |-> failure.cms_core_text]
  BY <1>1, <1>2 DEF decisionFacts
<1> HIDE DEF articles
<1>4. /\ Facts.classifications = road.classifications
      /\ Facts.routes = road.routes
      /\ Facts.ete = road.ete
      /\ Facts.multilingual_required = evaluateArticle6(scope).triggered
      /\ Facts.articles = articles
  BY <1>3
<1> QED
  BY <1>4 DEF articles, failure

-----------------------------------------------------------------------------
(* The clearance time *)

\* The roads of a clearance time are a sequence, the closed road among them.
LEMMA EteRoads ==
    ASSUME NEW p, NEW incident, NEW about, NEW primary, NEW secondary, NEW X,
           secondary \in Seq(X), IsRoadEvent(incident)
    PROVE  LET roads == eteAffectedSet(p, incident, about, primary, secondary) IN
           /\ roads \in Seq(ToSet(roads))
           /\ Len(roads) \in Nat \ {0}
<1> DEFINE id == incident.affected_segment
           ids == <<id, primary>> \o secondary
           I == {i \in DOMAIN ids : ids[i] # None /\ \A j \in 1..(i - 1) : ids[j] # ids[i]}
           Y == X \cup {id, primary}
           kept == AtPositions(ids, I)
           roads == eteAffectedSet(p, incident, about, primary, secondary)
<1> SUFFICES roads \in Seq(ToSet(roads)) /\ Len(roads) \in Nat \ {0}
  OBVIOUS
<1> HIDE DEF roads
<1>1. ids \in Seq(Y) /\ ids[1] = id /\ Len(ids) \in Nat /\ Len(ids) >= 1
  <2>1. <<id, primary>> \in Seq(Y) /\ secondary \in Seq(Y)
    OBVIOUS
  <2> QED
    BY <2>1
<1>2. id # None
  BY NoneAssumption DEF IsRoadEvent, NoneAssumption
<1>3. 1 \in I \cap (1..Len(ids))
  <2> HIDE DEF ids
  <2>1. DOMAIN ids = 1..Len(ids) /\ 1..(1 - 1) = {}
    BY <1>1
  <2> QED
    BY <1>1, <1>2, <2>1
<1>4. kept \in Seq(Y) /\ Len(kept) \in Nat \ {0}
  <2> HIDE DEF ids, I
  <2>1. PICK h : Takes(h, ids, I)
    BY <1>1, TakenInOrder
  <2>2. kept \in Seq(Y)
    BY <1>1, TakenInOrder
  <2>3. PICK k \in 1..Len(kept) : h[k] = 1
    BY <1>3, <2>1 DEF Takes
  <2> QED
    BY <2>2, <2>3
<1>5. stableUniqueRoadIds(ids) = kept
  BY DEF stableUniqueRoadIds
<1> HIDE DEF kept, ids
<1>6. kept \in Seq(ToSet(kept))
  BY <1>4 DEF ToSet
<1> DEFINE alone == <<id>>
<1>7. alone \in Seq(ToSet(alone)) /\ Len(alone) = 1 /\ 1 \in Nat \ {0}
  BY DEF ToSet
<1>8. roads = kept \/ roads = alone
  BY <1>5 DEF eteAffectedSet, ids, roads
<1> HIDE DEF alone
<1> QED
  BY <1>4, <1>6, <1>7, <1>8

\* The candidates of the closed road, in the order of the map.
LEMMA CandidatesOfTheMap ==
    ASSUME NEW network, NEW id, NEW anchor, NEW sat,
           id \in DOMAIN network => IsRoad(network[id])
    PROVE  LET alternatives == alternativesOf(network, id)
               candidates == qualifyCandidates(id, anchor, network, sat)
           IN  /\ alternatives \in Seq(ToSet(alternatives))
               /\ Len(alternatives) \in Nat
               /\ DOMAIN candidates = 1..Len(alternatives)
               /\ \A role : IdsAt(candidates, InRole(candidates, role)) =
                     AtPositions(alternatives, InRole(candidates, role))
<1> DEFINE alternatives == alternativesOf(network, id)
           candidates == qualifyCandidates(id, anchor, network, sat)
<1>1. alternatives \in Seq(ToSet(alternatives)) /\ Len(alternatives) \in Nat
      /\ DOMAIN alternatives = 1..Len(alternatives)
  <2>1. CASE id \in DOMAIN network
    BY <2>1 DEF alternativesOf, IsRoad
  <2>2. CASE id \notin DOMAIN network
    <3>1. <<>> \in Seq(ToSet(<<>>)) /\ Len(<<>>) = 0 /\ DOMAIN <<>> = 1..0
      OBVIOUS
    <3>2. alternatives = <<>>
      BY <2>2 DEF alternativesOf
    <3> HIDE DEF alternatives
    <3> QED
      BY <3>1, <3>2
  <2> QED
    BY <2>1, <2>2
<1> HIDE DEF alternatives
<1>2. candidates = [i \in DOMAIN alternatives |->
          evaluateSingleCandidate(alternatives[i], id, anchor, network, sat[alternatives[i]])]
  BY DEF qualifyCandidates, alternatives
<1>3. [i \in DOMAIN candidates |-> candidates[i].segment_id] = alternatives
  <2>1. ASSUME NEW i \in DOMAIN alternatives
        PROVE  candidates[i].segment_id = alternatives[i]
    BY <1>2 DEF evaluateSingleCandidate
  <2> HIDE DEF candidates
  <2> QED
    BY <1>1, <1>2, <2>1
<1> HIDE DEF candidates
<1>4. \A role : IdsAt(candidates, InRole(candidates, role)) =
                     AtPositions(alternatives, InRole(candidates, role))
  BY <1>3 DEF IdsAt
<1> QED
  BY <1>1, <1>2, <1>4 DEF alternatives, candidates

\* The intersection a decision ranks the candidates around.
Anchor == resolveIncidentAnchor(policy, Official, Event)

\* A computed clearance time is that of the roads of its set.
LEMMA EteOfTheRules ==
    ASSUME PictureInv, Decided, Facts.ete # None
    PROVE  \E roads : /\ roads \in Seq(ToSet(roads)) /\ Len(roads) \in Nat \ {0}
                      /\ Facts.ete = clearanceOf(Official, Event, roads)
<1> DEFINE id == Event.affected_segment
           routes == evacuationFrom(policy, Official, Event, Anchor)
           about == affectedRoad(policy, Event)
           roads == eteAffectedSet(policy, Event, about, routes.primary, routes.secondary)
<1>1. IsRoadEvent(Event) /\ Facts.ete = RoadFacts(policy, Official, Event).ete
  BY PartsOfTheFacts DEF road, NoRoadFacts
<1>2. Facts.ete = clearanceOf(Official, Event, roads)
  <2> HIDE DEF roads
  <2>1. \A grades, anchor, r :
            roadConclusions(policy, Official, Event, grades, anchor, r).ete =
                clearanceOf(Official, Event,
                    eteAffectedSet(policy, Event, about, r.primary, r.secondary))
    BY DEF roadConclusions
  <2> QED
    BY <1>1, <2>1 DEF RoadFacts, Anchor, roads
<1>3. \E X : routes.secondary \in Seq(X)
  <2> DEFINE sat == saturationMap(policy, Official, Event)
             candidates == qualifyCandidates(id, Anchor.anchor_intersection, Official.network, sat)
             alternatives == alternativesOf(Official.network, id)
  <2>1. routes.secondary = IdsAt(candidates, InRole(candidates, "secondary"))
    BY DEF evacuationFrom, selectEvacuation
  <2>2. id \in DOMAIN Official.network => IsRoad(Official.network[id])
    BY DecidedByTheRules, OfficialIsTyped DEF PictureInv, IsData
  <2> HIDE DEF sat
  <2>3. /\ alternatives \in Seq(ToSet(alternatives))
        /\ IdsAt(candidates, InRole(candidates, "secondary"))
              = AtPositions(alternatives, InRole(candidates, "secondary"))
    BY <2>2, CandidatesOfTheMap
  <2> HIDE DEF alternatives, candidates, routes
  <2> QED
    BY <2>1, <2>3, TakenInOrder
<1>4. roads \in Seq(ToSet(roads)) /\ Len(roads) \in Nat \ {0}
  <2> HIDE DEF routes, about
  <2> QED
    BY <1>1, <1>3, EteRoads
<1> QED
  BY <1>2, <1>4

\* The greatest of some numbers that belong to places of a sequence.
LEMMA GreatestOf ==
    ASSUME NEW n \in Nat, NEW v \in [1..n -> Int], NEW S, S # {},
           \A x \in S : \E i \in 1..n : v[i] = x
    PROVE  Max(S) \in S /\ Max(S) \in Int /\ \A x \in S : x <= Max(S)
<1> DEFINE I == {i \in 1..n : v[i] \in S}
           w == [i \in I |-> -v[i]]
<1>1. I \in SUBSET (1..n) /\ I # {} /\ w \in [I -> Int]
  OBVIOUS
<1>2. PICK i \in I : \A j \in I : w[i] <= w[j]
  <2> HIDE DEF w, I
  <2> QED
    BY <1>1, LowestExists
<1>3. v[i] \in S /\ \A x \in S : x \in Int /\ v[i] >= x
  BY <1>2
<1>4. Max(S) \in S /\ \A y \in S : Max(S) >= y
  BY <1>3 DEF Max
<1> QED
  BY <1>3, <1>4

\* The rows of a road at an instant, and the first of them.
ReadAt(traffic, id, at) ==
    {i \in DOMAIN traffic : traffic[i].road = id /\ traffic[i].at = at}

LEMMA FirstReading ==
    ASSUME NEW traffic, IsTraffic(traffic), NEW id, NEW at
    PROVE  /\ ReadingAt(traffic, id, at) # None <=> ReadAt(traffic, id, at) # {}
           /\ ReadAt(traffic, id, at) # {} =>
                 /\ ReadingAt(traffic, id, at) = traffic[Min(ReadAt(traffic, id, at))]
                 /\ Min(ReadAt(traffic, id, at)) \in ReadAt(traffic, id, at)
<1> DEFINE I == ReadAt(traffic, id, at)
<1>1. Len(traffic) \in Nat /\ DOMAIN traffic = 1..Len(traffic) /\ I \in SUBSET (1..Len(traffic))
  BY DEF IsTraffic, ReadAt
<1>2. I # {} => Min(I) \in I /\ Min(I) # 0
  <2> HIDE DEF I
  <2>1. I # {} => Min(I) \in I
    BY <1>1, FirstPlace
  <2>2. \A i \in I : i # 0
    BY <1>1
  <2> QED
    BY <2>1, <2>2
<1>3. ReadingAt(traffic, id, at) = IF I # {} THEN traffic[Min(I)] ELSE None
  BY <1>1, <1>2 DEF ReadingAt, SelectInSeq, ReadAt
<1>4. I # {} => traffic[Min(I)] # None
  BY <1>1, <1>2 DEF IsTraffic
<1> QED
  BY <1>2, <1>3, <1>4

\* The instants at which every road was read, and what was read at one.
Common(traffic, event, roads) ==
    {at \in Instants(traffic) :
        at <= event /\ \A k \in DOMAIN roads : ReadAt(traffic, roads[k], at) # {}}

FirstReadings(traffic, roads, at) ==
    [k \in DOMAIN roads |-> traffic[Min(ReadAt(traffic, roads[k], at))]]

LEMMA CommonInstants ==
    ASSUME NEW traffic, IsTraffic(traffic), NEW event \in Int,
           NEW roads, roads \in Seq(ToSet(roads)), Len(roads) \in Nat \ {0}
    PROVE  {at \in ReadInstants(roads, event, traffic) :
               \A k \in DOMAIN roads : ReadingAt(traffic, roads[k], at) # None}
         = Common(traffic, event, roads)
<1>1. DOMAIN traffic = 1..Len(traffic) /\ DOMAIN roads = 1..Len(roads) /\ 1 \in 1..Len(roads)
  BY DEF IsTraffic
<1>2. ReadInstants(roads, event, traffic) \subseteq {at \in Instants(traffic) : at <= event}
  BY DEF ReadInstants, Instants
<1>3. ASSUME NEW at \in Instants(traffic), at <= event, ReadAt(traffic, roads[1], at) # {}
      PROVE  at \in ReadInstants(roads, event, traffic)
  BY <1>1, <1>3 DEF ReadInstants, Contains, ReadAt
<1> QED
  BY <1>1, <1>2, <1>3, FirstReading DEF Common

\* A penalty that is there is over every road, read at the one instant.
IsOfOneInstant(ete, traffic, event) ==
    LET common == Common(traffic, event, ete.roads) IN
    IF common = {} THEN ete.penalty = None
    ELSE /\ ete.at = Max(common)
         /\ ete.penalty.per = Len(ete.roads)
         /\ ete.penalty.fifths =
               3 * Max({0, SumOf(FirstReadings(traffic, ete.roads, ete.at)) - 50 * Len(ete.roads)})

LEMMA CommonSnapshot ==
    ASSUME NEW traffic, IsTraffic(traffic), NEW event \in Int, NEW severity,
           NEW roads, roads \in Seq(ToSet(roads)), Len(roads) \in Nat \ {0}
    PROVE  IsOfOneInstant(calculateEte(severity, roads,
                              selectLatestCommonExactSnapshot(roads, event, traffic)),
                          traffic, event)
<1> DEFINE common == Common(traffic, event, roads)
           at == Max(common)
           readings == FirstReadings(traffic, roads, at)
           snapshot == selectLatestCommonExactSnapshot(roads, event, traffic)
           ete == calculateEte(severity, roads, snapshot)
<1>0. ete.roads = roads
  BY DEF calculateEte
<1> SUFFICES IF common = {} THEN ete.penalty = None
             ELSE /\ ete.at = at
                  /\ ete.penalty.per = Len(roads)
                  /\ ete.penalty.fifths = 3 * Max({0, SumOf(readings) - 50 * Len(roads)})
  BY <1>0 DEF IsOfOneInstant
<1>1. DOMAIN traffic = 1..Len(traffic) /\ DOMAIN roads = 1..Len(roads) /\ Len(traffic) \in Nat
      /\ roads # <<>>
  BY DEF IsTraffic
<1>3. CASE common = {}
  <2>1. snapshot = NoCommonSnapshot
    <3> HIDE DEF common
    <3> QED
      BY <1>1, <1>3, CommonInstants DEF selectLatestCommonExactSnapshot, common
  <2>2. ~hasCompleteCommonSnapshot(roads, snapshot)
    BY <2>1 DEF hasCompleteCommonSnapshot, NoCommonSnapshot
  <2> HIDE DEF snapshot
  <2>3. ete.penalty = None
    BY <2>2 DEF calculateEte
  <2> QED
    BY <1>3, <2>3
<1>4. CASE common # {}
  <2>1. at \in common /\ at \in Int
    <3> DEFINE v == [i \in 1..Len(traffic) |-> traffic[i].at]
    <3>1. v \in [1..Len(traffic) -> Int] /\ \A x \in common : \E i \in 1..Len(traffic) : v[i] = x
      BY <1>1 DEF IsTraffic, Instants, Common
    <3> HIDE DEF common, v
    <3> QED
      BY <1>1, <1>4, <3>1, GreatestOf
  <2>2. snapshot = [at |-> at, readings |-> [k \in DOMAIN roads |-> ReadingAt(traffic, roads[k], at)]]
    BY <1>1, <1>4, CommonInstants DEF selectLatestCommonExactSnapshot
  <2>3. ASSUME NEW k \in 1..Len(roads)
        PROVE  /\ ReadingAt(traffic, roads[k], at) = readings[k]
               /\ readings[k].road = roads[k] /\ readings[k].at = at
               /\ readings[k].saturation \in Int
    <3> DEFINE I == ReadAt(traffic, roads[k], at)
    <3>1. I # {}
      BY <1>1, <2>1 DEF Common
    <3>2. ReadingAt(traffic, roads[k], at) = traffic[Min(I)] /\ Min(I) \in I
      BY <3>1, FirstReading
    <3>3. traffic[Min(I)].road = roads[k] /\ traffic[Min(I)].at = at /\ Min(I) \in 1..Len(traffic)
      BY <3>2 DEF ReadAt
    <3>4. readings[k] = traffic[Min(I)]
      BY <1>1 DEF FirstReadings
    <3> HIDE DEF readings, I, at
    <3>5. traffic[Min(I)].saturation \in 0..100
      BY <3>3 DEF IsTraffic
    <3> HIDE DEF IsTraffic
    <3>6. \A x \in 0..100 : x \in Int
      OBVIOUS
    <3>7. traffic[Min(I)].saturation \in Int
      BY ONLY <3>5, <3>6
    <3> QED
      BY <3>2, <3>3, <3>4, <3>7
  <2> HIDE DEF at
  <2>4. DOMAIN readings = 1..Len(roads) /\ Len(readings) = Len(roads)
    BY <1>1 DEF FirstReadings
  <2>5. snapshot = [at |-> at, readings |-> readings]
    <3>1. [k \in DOMAIN roads |-> ReadingAt(traffic, roads[k], at)] = readings
      <4>1. readings = [k \in DOMAIN roads |-> readings[k]]
        BY DEF FirstReadings
      <4> HIDE DEF readings
      <4> QED
        BY <1>1, <2>3, <4>1
    <3> HIDE DEF readings, snapshot
    <3> QED
      BY <2>2, <3>1
  <2> HIDE DEF readings, snapshot, common
  <2>6. hasCompleteCommonSnapshot(roads, snapshot)
    BY <1>1, <2>1, <2>3, <2>4, <2>5, NoneAssumption DEF hasCompleteCommonSnapshot, NoneAssumption
  <2>7. SumOf(readings) \in Int
    BY <2>3, <2>4, SumIsANumber
  <2> DEFINE excess == SumOf(readings) - 50 * Len(roads)
  <2>8. ete = [base |-> baseClearanceFor(severity), roads |-> roads, at |-> at,
              penalty |-> [fifths |-> 3 * (IF excess > 0 THEN excess ELSE 0), per |-> Len(roads)]]
    BY <2>5, <2>6 DEF calculateEte
  <2>9. excess \in Int
    BY <2>7
  <2> HIDE DEF excess
  <2>10. Max({0, excess}) = IF excess > 0 THEN excess ELSE 0
    BY <2>9 DEF Max
  <2> HIDE DEF ete
  <2>11. /\ ete.at = at /\ ete.penalty.per = Len(roads)
        /\ ete.penalty.fifths = 3 * (IF excess > 0 THEN excess ELSE 0)
    BY <2>8
  <2> QED
    BY <1>4, <2>10, <2>11 DEF excess
<1> QED
  BY <1>3, <1>4

(* The clearance time of any decision is that of its roads at one instant:  *)
(* the latest at which all of them were read (SOP-7).                       *)
THEOREM ClearanceIsOfOneInstant == Spec => []EteIsOfOneInstant
<1>1. ASSUME PictureInv
      PROVE  EteIsOfOneInstant
  <2> SUFFICES ASSUME Decided, Facts.ete # None
               PROVE  EteIsOfOneInstant
    BY DEF EteIsOfOneInstant
  <2>1. PICK roads : /\ roads \in Seq(ToSet(roads)) /\ Len(roads) \in Nat \ {0}
                     /\ Facts.ete = clearanceOf(Official, Event, roads)
    BY <1>1, EteOfTheRules
  <2>2. IsTraffic(Official.traffic) /\ Event.at \in Int
    BY <1>1, DecidedByTheRules, OfficialIsTyped DEF PictureInv, IsData
  <2>3. IsOfOneInstant(Facts.ete, Official.traffic, Event.at)
    <3>1. Facts.ete = calculateEte(Event.severity, roads,
                          selectLatestCommonExactSnapshot(roads, Event.at, Official.traffic))
      BY <2>1 DEF clearanceOf
    <3> QED
      BY <2>1, <2>2, <3>1, CommonSnapshot
  <2> QED
    BY <2>3 DEF EteIsOfOneInstant, IsOfOneInstant, Common, FirstReadings, ReadAt
<1> QED
  BY <1>1, PictureInvariant, PTL

-----------------------------------------------------------------------------
(* The evacuation *)

\* A set of places holds one place, or another number of them.
LEMMA OnePlace ==
    ASSUME NEW n \in Nat, NEW S \in SUBSET (1..n)
    PROVE  Cardinality(S) = 1 <=> \E m \in S : S = {m}
<1>1. IsFiniteSet(1..n)
  BY FS_Interval
<1>2. IsFiniteSet(S)
  BY <1>1, FS_Subset
<1> QED
  BY <1>2, FS_Singleton

\* The place of a value is the first at which it stands.
LEMMA PlaceOf ==
    ASSUME NEW s, Len(s) \in Nat, NEW x
    PROVE  /\ indexOf(s, x) \in Nat
           /\ indexOf(s, x) # 0 <=> \E i \in 1..Len(s) : s[i] = x
           /\ \A i \in 1..Len(s) : s[i] = x => indexOf(s, x) \in 1..i
           /\ indexOf(s, x) # 0 => indexOf(s, x) \in 1..Len(s) /\ s[indexOf(s, x)] = x
<1> DEFINE I == {i \in 1..Len(s) : s[i] = x}
<1>1. indexOf(s, x) = IF I # {} THEN Min(I) ELSE 0
  BY DEF indexOf, SelectInSeq
<1>2. I # {} => Min(I) \in I /\ \A i \in I : Min(I) <= i
  <2>1. I \in SUBSET (1..Len(s))
    OBVIOUS
  <2> HIDE DEF I
  <2> QED
    BY <2>1, FirstPlace
<1>4. CASE I = {}
  BY <1>1, <1>4
<1>5. CASE I # {}
  <2> DEFINE p == indexOf(s, x)
  <2>1. p \in 1..Len(s) /\ s[p] = x /\ \A i \in 1..Len(s) : s[i] = x => p <= i
    BY <1>1, <1>2, <1>5
  <2> HIDE DEF p
  <2>2. p \in Nat /\ p >= 1 /\ \A i \in 1..Len(s) : i \in Nat
    BY <2>1
  <2> QED
    BY <2>1, <2>2 DEF p
<1> QED
  BY <1>4, <1>5

\* The role of a candidate around the one place m of the closed road is read
\* off the map: primary when it is wide and crosses before m.
Before(network, id, x, m) ==
    /\ x \in DOMAIN network /\ network[x].capacity_vph >= CAPACITY_THRESHOLD
    /\ \E j \in 1..(m - 1) : network[id].intersections[j] = network[x].name

RoleOf(network, id, x, anchor) ==
    evaluateSingleCandidate(x, id, anchor, network, 0).role

LEMMA RoleIgnoresReadings ==
    ASSUME NEW network, NEW id, NEW x, NEW anchor, NEW saturation
    PROVE  LET c == evaluateSingleCandidate(x, id, anchor, network, saturation) IN
           /\ c.role = RoleOf(network, id, x, anchor)
           /\ c.segment_id = x /\ c.saturation = saturation
BY DEF RoleOf, evaluateSingleCandidate

LEMMA PrimaryIsBefore ==
    ASSUME NEW network, NEW id \in DOMAIN network, IsRoad(network[id]),
           NEW m \in 1..Len(network[id].intersections),
           \A j \in 1..Len(network[id].intersections) :
               network[id].intersections[j] = network[id].intersections[m] => j = m,
           NEW x, x \in DOMAIN network => IsRoad(network[x])
    PROVE  RoleOf(network, id, x, network[id].intersections[m]) = "primary"
               <=> Before(network, id, x, m)
<1> DEFINE C == network[id].intersections
           anchor == C[m]
           name == network[x].name
           c == indexOf(C, name)
<1>1. Len(C) \in Nat /\ DOMAIN C = 1..Len(C) /\ m \in Nat /\ m >= 1 /\ m <= Len(C)
  BY DEF IsRoad
<1>2. \A j \in 1..Len(C) : C[j] # None
  BY <1>1 DEF IsRoad, ToSet
<1> HIDE DEF C
<1>3. indexOf(C, anchor) = m
  BY <1>1, PlaceOf DEF C
<1>4. CASE x \notin DOMAIN network
  BY <1>4 DEF RoleOf, evaluateSingleCandidate, determineRole, CAPACITY_THRESHOLD, Before
<1>5. CASE x \in DOMAIN network
  <2>1. c \in Nat /\ (c # 0 => C[c] = name /\ c \in 1..Len(C))
        /\ \A j \in 1..Len(C) : C[j] = name => c \in 1..j
    BY <1>1, PlaceOf
  <2>2. (c # 0 /\ c < m) <=> \E j \in 1..(m - 1) : C[j] = name
    <3> HIDE DEF c, name
    <3>1. ASSUME c # 0, c < m PROVE \E j \in 1..(m - 1) : C[j] = name
      BY <1>1, <2>1, <3>1
    <3>2. ASSUME NEW j \in 1..(m - 1), C[j] = name PROVE c # 0 /\ c < m
      BY <1>1, <2>1, <3>2
    <3> QED
      BY <3>1, <3>2
  <2>3. isDirectIntersection(network, id, name) <=> c # 0
    BY DEF isDirectIntersection, C
  <2>4. positionRelativeToAnchor(network, id, name, anchor) =
            IF c = 0 \/ c = m THEN None ELSE IF c < m THEN "upstream" ELSE "downstream"
    BY <1>1, <1>3 DEF positionRelativeToAnchor, C
  <2>5. anchor # None
    BY <1>1, <1>2
  <2>6. None \notin {"upstream", "downstream"}
    BY NoneAssumption DEF NoneAssumption
  <2>7. network[x].capacity_vph \in Nat
    BY <1>5 DEF IsRoad
  <2> HIDE DEF c, name, anchor
  <2>8. RoleOf(network, id, x, anchor) =
            determineRole(network[x].capacity_vph, isDirectIntersection(network, id, name),
                          positionRelativeToAnchor(network, id, name, anchor), anchor)
    BY <1>5, <2>5 DEF RoleOf, evaluateSingleCandidate, name
  <2>9. RoleOf(network, id, x, anchor) = "primary" <=>
            network[x].capacity_vph >= CAPACITY_THRESHOLD /\ c # 0 /\ c < m
    BY <1>1, <2>1, <2>3, <2>4, <2>5, <2>6, <2>7, <2>8 DEF determineRole, CAPACITY_THRESHOLD
  <2> QED
    BY <1>5, <2>2, <2>9 DEF Before, anchor, C, name
<1> QED
  BY <1>4, <1>5

\* Without a place nothing is ranked.
LEMMA NothingIsRanked ==
    ASSUME NEW network, NEW id, NEW x
    PROVE  RoleOf(network, id, x, None) \notin {"primary", "secondary"}
BY DEF RoleOf, evaluateSingleCandidate, determineRole

\* The row that counts is one of the entity's rows, and not after the event.
LEMMA RowSelected ==
    ASSUME NEW p, NEW event \in Int, NEW rows, Len(rows) \in Nat,
           \A i \in 1..Len(rows) : rows[i].at \in Int, NEW records \in SUBSET (1..Len(rows)),
           select(p, event, rows, records) # None
    PROVE  \E i \in records : rows[i].at <= event /\ select(p, event, rows, records) = rows[i]
<1> DEFINE prior == {i \in records : rows[i].at <= event}
           latest == {i \in prior : \A j \in prior : rows[j].at <= rows[i].at}
<1>1. select(p, event, rows, records) = latestPrior(event, rows, records)
      /\ latestPrior(event, rows, records) # None
  BY DEF select
<1>2. latest # {} /\ latestPrior(event, rows, records) = rows[Min(latest)]
  BY <1>1 DEF latestPrior
<1>3. Min(latest) \in latest
  <2>1. latest \in SUBSET (1..Len(rows))
    OBVIOUS
  <2> HIDE DEF latest
  <2> QED
    BY <1>2, <2>1, FirstPlace
<1> QED
  BY <1>1, <1>2, <1>3

\* What selectEvacuation makes of the alternatives of a road.
Routes(network, id, anchor, sat) ==
    selectEvacuation(qualifyCandidates(id, anchor, network, sat))

Primaries(network, id, anchor) ==
    {x \in ToSet(alternativesOf(network, id)) : RoleOf(network, id, x, anchor) = "primary"}

LEMMA RoutesByRole ==
    ASSUME NEW network, NEW id, id \in DOMAIN network => IsRoad(network[id]),
           NEW anchor, NEW sat,
           \A x \in ToSet(alternativesOf(network, id)) : sat[x] \in Int
    PROVE  /\ Primaries(network, id, anchor) = {} => Routes(network, id, anchor, sat).primary = None
           /\ Primaries(network, id, anchor) # {} =>
                 /\ Routes(network, id, anchor, sat).primary \in Primaries(network, id, anchor)
                 /\ \A x \in Primaries(network, id, anchor) :
                       sat[Routes(network, id, anchor, sat).primary] <= sat[x]
           /\ \A x \in ToSet(Routes(network, id, anchor, sat).secondary) :
                 RoleOf(network, id, x, anchor) = "secondary"
           /\ (\A x : RoleOf(network, id, x, anchor) # "secondary") =>
                 Routes(network, id, anchor, sat).secondary = <<>>
<1> DEFINE alternatives == alternativesOf(network, id)
           candidates == qualifyCandidates(id, anchor, network, sat)
           n == Len(alternatives)
           role(x) == RoleOf(network, id, x, anchor)
           Q == InRole(candidates, "primary")
           S == InRole(candidates, "secondary")
           v == [i \in Q |-> sat[alternatives[i]]]
           lowest == {i \in Q : \A j \in Q : candidates[i].saturation <= candidates[j].saturation}
           routes == Routes(network, id, anchor, sat)
           primaries == Primaries(network, id, anchor)
<1>1. /\ alternatives \in Seq(ToSet(alternatives)) /\ n \in Nat
      /\ DOMAIN alternatives = 1..n /\ DOMAIN candidates = 1..n
      /\ IdsAt(candidates, S) = AtPositions(alternatives, S)
  BY CandidatesOfTheMap
<1>2. ASSUME NEW i \in 1..n
      PROVE  /\ candidates[i].role = role(alternatives[i])
             /\ candidates[i].segment_id = alternatives[i]
             /\ candidates[i].saturation = sat[alternatives[i]]
             /\ sat[alternatives[i]] \in Int
  <2>1. candidates[i] = evaluateSingleCandidate(alternatives[i], id, anchor, network,
                                                sat[alternatives[i]])
    BY <1>1 DEF qualifyCandidates
  <2> HIDE DEF candidates
  <2>2. sat[alternatives[i]] \in Int
    BY <1>1 DEF ToSet
  <2> HIDE DEF alternatives
  <2> QED
    BY <2>1, <2>2, RoleIgnoresReadings
<1>3. /\ routes.primary = IF lowest = {} THEN None ELSE candidates[Min(lowest)].segment_id
      /\ routes.secondary = AtPositions(alternatives, S)
  BY <1>1 DEF Routes, selectEvacuation
<1>4. primaries = {x \in ToSet(alternatives) : role(x) = "primary"}
  BY DEF Primaries
<1> HIDE DEF routes, primaries, candidates, alternatives, n, role
<1>5. Q \in SUBSET (1..n) /\ S \in SUBSET (1..n) /\ v \in [Q -> Int]
      /\ Q = {i \in 1..n : role(alternatives[i]) = "primary"}
      /\ S = {i \in 1..n : role(alternatives[i]) = "secondary"}
  BY <1>1, <1>2 DEF InRole
<1>6. primaries = {alternatives[i] : i \in Q}
  BY <1>1, <1>4, <1>5 DEF ToSet
<1> HIDE DEF Q, S
<1>7. ASSUME Q # {}
      PROVE  routes.primary \in primaries /\ \A x \in primaries : sat[routes.primary] <= sat[x]
  <2>1. PICK i \in Q : \A j \in Q : v[i] <= v[j]
    <3> HIDE DEF v
    <3> QED
      BY <1>1, <1>5, <1>7, LowestExists
  <2>2. lowest # {} /\ lowest \in SUBSET (1..n)
    BY <1>2, <1>5, <2>1
  <2>3. Min(lowest) \in lowest
    <3> HIDE DEF lowest
    <3> QED
      BY <1>1, <2>2, FirstPlace
  <2>4. routes.primary = alternatives[Min(lowest)]
    BY <1>2, <1>3, <2>2, <2>3
  <2>5. Min(lowest) \in Q /\ \A j \in Q : candidates[Min(lowest)].saturation <= candidates[j].saturation
    BY <2>3
  <2> HIDE DEF lowest
  <2> QED
    BY <1>2, <1>5, <1>6, <2>4, <2>5
<1>8. Q = {} => routes.primary = None
  BY <1>3
<1>9. PICK h : Takes(h, alternatives, S)
  BY <1>1, TakenInOrder
<1>10. routes.secondary \in Seq(ToSet(alternatives))
  BY <1>1, <1>3, TakenInOrder
<1>11. ASSUME NEW k \in 1..Len(routes.secondary)
       PROVE  h[k] \in S /\ role(routes.secondary[k]) = "secondary"
  BY <1>3, <1>5, <1>9, <1>11 DEF Takes
<1>12. DOMAIN routes.secondary = 1..Len(routes.secondary) /\ Len(routes.secondary) \in Nat
  BY <1>10
<1>13. ASSUME \A x : role(x) # "secondary"
       PROVE  routes.secondary = <<>>
  <2>1. 1 \notin 1..Len(routes.secondary)
    BY <1>11, <1>13
  <2> QED
    BY <1>10, <1>12, <2>1
<1>14. \A x \in ToSet(routes.secondary) : role(x) = "secondary"
  BY <1>11, <1>12 DEF ToSet
<1> QED
  BY <1>6, <1>7, <1>8, <1>13, <1>14 DEF routes, primaries, role

(* For any map, text and readings, the primary evacuation is a wide enough  *)
(* alternative that crosses the closed road before the one place the report *)
(* can mean, the least saturated of those with a reading; when the place is *)
(* ambiguous nothing is ranked (incidentAnchorFromLocationText,             *)
(* qualifyCandidates, selectEvacuation).                                    *)
THEOREM EvacuationsAreQualified == Spec => []EvacuationIsQualified
<1>1. ASSUME PictureInv
      PROVE  EvacuationIsQualified
  <2> DEFINE net == Official.network
             id == Event.affected_segment
             C == net[id].intersections
             sat == saturationMap(policy, Official, Event)
             anchor == Anchor.anchor_intersection
             routes == Routes(net, id, anchor, sat)
             alternatives == alternativesOf(net, id)
  <2> SUFFICES ASSUME Decided, IsRoadEvent(Event), id \in DOMAIN net
               PROVE  EvacuationIsQualified
    BY DEF EvacuationIsQualified
  <2>1. IsData(Official)
    BY <1>1, DecidedByTheRules, OfficialIsTyped DEF PictureInv
  <2>2. Facts.routes = routes
    <3>1. Facts.routes = RoadFacts(policy, Official, Event).routes
      BY <1>1, PartsOfTheFacts DEF road
    <3>2. RoadFacts(policy, Official, Event).routes = evacuationFrom(policy, Official, Event, Anchor)
      BY DEF RoadFacts, roadConclusions, Anchor
    <3> QED
      BY <3>1, <3>2 DEF evacuationFrom, Routes
  <2>3. IsRoad(net[id]) /\ alternatives = net[id].alternatives
    BY <2>1 DEF IsData, alternativesOf
  <2>0. Event.at \in Int
    BY <1>1, DecidedByTheRules
  <2>4. ASSUME NEW x
        PROVE  Measured(x) = None \/ Measured(x) \in Int
    <3> DEFINE e == Event.at
               traffic == Official.traffic
               records == groupBy(traffic, "road", x)
               row == select(policy, e, traffic, records)
    <3>1. Measured(x) = IF row = None THEN None ELSE row.saturation
      BY DEF Measured, selectSaturation, policy
    <3>2. row # None => \E i \in 1..Len(traffic) : row = traffic[i]
      <4>1. /\ Len(traffic) \in Nat /\ DOMAIN traffic = 1..Len(traffic)
            /\ \A i \in 1..Len(traffic) : traffic[i].at \in Int
        BY <2>1 DEF IsData, IsTraffic
      <4> HIDE DEF traffic, e
      <4>2. records \in SUBSET (1..Len(traffic))
        BY <4>1 DEF groupBy
      <4> HIDE DEF records
      <4>3. e \in Int
        BY <2>0 DEF e
      <4> QED
        BY <4>1, <4>2, <4>3, RowSelected
    <3> HIDE DEF row, traffic
    <3>3. row # None => row.saturation \in 0..100
      BY <2>1, <3>2 DEF IsData, IsTraffic, traffic
    <3>4. \A y \in 0..100 : y \in Int
      OBVIOUS
    <3> QED
      BY <3>1, <3>3, <3>4
  <2>5. ASSUME NEW x \in ToSet(alternatives)
        PROVE  /\ sat[x] \in Int
               /\ Measured(x) # None => sat[x] = Measured(x)
    <3>1. sat[x] = IF Measured(x) = None THEN 0 ELSE Measured(x)
      BY DEF saturationMap, Measured, policy
    <3> HIDE DEF sat
    <3> QED
      BY <2>4, <3>1
  <2>6. Meant = LocationMatches(Event, C) /\ Meant \in SUBSET (1..Len(C)) /\ Len(C) \in Nat
    <3>1. DOMAIN C = 1..Len(C) /\ Len(C) \in Nat
      BY <2>3 DEF IsRoad
    <3> QED
      BY <3>1 DEF Meant, Crossings, LocationMatches, intersectionAppearsInLocation
  <2>7. anchor = IF Cardinality(Meant) = 1 THEN C[Min(Meant)] ELSE None
    <3>1. Anchor = incidentAnchorFromLocationText(Event, net)
      <4>1. DOMAIN <<>> = {}
        OBVIOUS
      <4> QED
        BY <4>1 DEF Anchor, resolveIncidentAnchor, explicitHostMapping
    <3>2. Meant = {} => Cardinality(Meant) # 1
      BY <2>6, OnePlace
    <3>3. Anchor = IF Meant = {} THEN Unresolved(C)
                   ELSE IF Cardinality(Meant) = 1 THEN Resolved(C[Min(Meant)])
                   ELSE Unresolved(AtPositions(C, Meant))
      BY <2>6, <3>1 DEF incidentAnchorFromLocationText
    <3> HIDE DEF C
    <3> QED
      BY <3>2, <3>3 DEF Unresolved, Resolved
  <2>8. /\ Primaries(net, id, anchor) = {} => routes.primary = None
        /\ Primaries(net, id, anchor) # {} =>
              /\ routes.primary \in Primaries(net, id, anchor)
              /\ \A x \in Primaries(net, id, anchor) : sat[routes.primary] <= sat[x]
        /\ \A x \in ToSet(routes.secondary) : RoleOf(net, id, x, anchor) = "secondary"
        /\ (\A x : RoleOf(net, id, x, anchor) # "secondary") => routes.secondary = <<>>
    <3> HIDE DEF net, id, anchor, sat
    <3> QED
      BY <2>3, <2>5, RoutesByRole
  <2>9. CASE Cardinality(Meant) # 1
    <3>1. anchor = None
      BY <2>7, <2>9
    <3>2. Primaries(net, id, anchor) = {}
      BY <3>1, NothingIsRanked DEF Primaries
    <3>3. \A x : RoleOf(net, id, x, anchor) # "secondary"
      BY <3>1, NothingIsRanked
    <3>4. routes.primary = None /\ routes.secondary = <<>>
      BY <2>8, <3>2, <3>3
    <3> QED
      BY <2>2, <2>9, <3>4 DEF EvacuationIsQualified
  <2>10. CASE Cardinality(Meant) = 1
    <3>1. PICK m \in Meant : Meant = {m}
      <4> HIDE DEF C
      <4> QED
        BY <2>6, <2>10, OnePlace
    <3>2. m \in 1..Len(C) /\ anchor = C[m]
      <4>1. Min({m}) = m
        BY <2>6 DEF Min
      <4> QED
        BY <2>6, <2>7, <2>10, <3>1, <4>1
    <3>3. \A j \in 1..Len(C) : C[j] = C[m] => j = m
      BY <2>6, <3>1 DEF LocationMatches, intersectionAppearsInLocation
    <3>4. \A x : RoleOf(net, id, x, anchor) = "primary" <=> Before(net, id, x, m)
      <4>1. \A x \in DOMAIN net : IsRoad(net[x])
        BY <2>1 DEF IsData
      <4> HIDE DEF net, anchor, id
      <4> QED
        BY <2>3, <3>2, <3>3, <4>1, PrimaryIsBefore
    <3>5. Upstream = Primaries(net, id, anchor)
      <4>1. \A x : CrossesBefore(x, m) <=> Before(net, id, x, m)
        BY DEF CrossesBefore, Wide, Before, Crossings, CAPACITY_THRESHOLD
      <4>2. Upstream = {x \in ToSet(alternatives) : CrossesBefore(x, m)}
        BY <2>3, <3>1 DEF Upstream
      <4> QED
        BY <3>4, <4>1, <4>2 DEF Primaries
    <3>6. ASSUME Upstream # {}
          PROVE  /\ routes.primary \in Upstream \ ToSet(routes.secondary)
                 /\ Measured(routes.primary) # None =>
                       \A x \in Upstream :
                          Measured(x) # None => Measured(routes.primary) <= Measured(x)
      <4>1. /\ routes.primary \in Upstream
            /\ \A x \in Upstream : sat[routes.primary] <= sat[x]
        BY <2>8, <3>5, <3>6
      <4>2. routes.primary \notin ToSet(routes.secondary)
        <5>1. RoleOf(net, id, routes.primary, anchor) = "primary"
          BY <3>5, <4>1 DEF Primaries
        <5> QED
          BY <2>8, <5>1
      <4>3. Upstream \subseteq ToSet(alternatives)
        BY <3>5 DEF Primaries
      <4> HIDE DEF routes, sat, alternatives
      <4> QED
        BY <2>5, <4>1, <4>2, <4>3
    <3>7. Upstream = {} => routes.primary = None
      BY <2>8, <3>5
    <3> QED
      BY <2>2, <2>10, <3>6, <3>7 DEF EvacuationIsQualified
  <2> QED
    BY <2>9, <2>10
<1> QED
  BY <1>1, PictureInvariant, PTL

-----------------------------------------------------------------------------
(* Rows later than the event *)

Past(rows, event) == AtPositions(rows, {i \in DOMAIN rows : rows[i].at <= event})

\* h puts each row of the past at its place in the file.
Embeds(h, rows, event) ==
    /\ h \in [1..Len(Past(rows, event)) -> 1..Len(rows)]
    /\ \A k \in 1..Len(Past(rows, event)) :
          Past(rows, event)[k] = rows[h[k]] /\ rows[h[k]].at <= event
    /\ \A j, k \in 1..Len(Past(rows, event)) : j < k => h[j] < h[k]
    /\ \A i \in 1..Len(rows) :
          rows[i].at <= event => \E k \in 1..Len(Past(rows, event)) : h[k] = i

LEMMA PastIsEmbedded ==
    ASSUME NEW X, NEW rows \in Seq(X), NEW event
    PROVE  Past(rows, event) \in Seq(X) /\ \E h : Embeds(h, rows, event)
<1> DEFINE I == {i \in DOMAIN rows : rows[i].at <= event}
<1>1. Past(rows, event) = AtPositions(rows, I) /\ DOMAIN rows = 1..Len(rows)
  BY DEF Past
<1>2. Past(rows, event) \in Seq(X)
  <2> HIDE DEF I
  <2> QED
    BY <1>1, TakenInOrder
<1>3. PICK h : Takes(h, rows, I)
  <2> HIDE DEF I
  <2> QED
    BY TakenInOrder
<1>4. I \cap (1..Len(rows)) = I /\ \A i \in I : i \in 1..Len(rows) /\ rows[i].at <= event
  BY <1>1
<1>5. \A i \in 1..Len(rows) : rows[i].at <= event => i \in I
  BY <1>1
<1> HIDE DEF I
<1>6. Embeds(h, rows, event)
  BY <1>1, <1>3, <1>4, <1>5 DEF Takes, Embeds
<1> QED
  BY <1>2, <1>6

Image(h, J) == {h[k] : k \in J}

\* The first of some rows of the past is the first of them in the file.
LEMMA FirstOfThePast ==
    ASSUME NEW rows, Len(rows) \in Nat, NEW event, Len(Past(rows, event)) \in Nat,
           NEW h, Embeds(h, rows, event),
           NEW J \in SUBSET (1..Len(Past(rows, event))), J # {}
    PROVE  rows[Min(Image(h, J))] = Past(rows, event)[Min(J)]
<1> DEFINE H == Image(h, J)
           n == Len(Past(rows, event))
<1>1. H \in SUBSET (1..Len(rows)) /\ H # {}
  <2>1. \A k \in J : h[k] \in 1..Len(rows)
    BY DEF Embeds
  <2> QED
    BY <2>1 DEF Image
<1>2. Min(J) \in J /\ \A k \in J : Min(J) <= k
  BY FirstPlace
<1>3. Min(H) \in H /\ \A i \in H : Min(H) <= i
  <2> HIDE DEF H
  <2> QED
    BY <1>1, FirstPlace
<1>4. PICK k \in J : Min(H) = h[k]
  BY <1>3 DEF Image
<1>5. h[Min(J)] \in H /\ Min(H) <= h[Min(J)]
  BY <1>2, <1>3 DEF Image
<1>6. h[Min(J)] <= h[k]
  <2>1. Min(J) <= k /\ Min(J) \in 1..n /\ k \in 1..n
    BY <1>2, <1>4
  <2>2. h[Min(J)] \in 1..Len(rows) /\ h[k] \in 1..Len(rows)
    BY <2>1 DEF Embeds
  <2>3. Min(J) < k => h[Min(J)] < h[k]
    BY <2>1 DEF Embeds
  <2> HIDE DEF n
  <2> QED
    BY <2>1, <2>2, <2>3
<1>7. h[Min(J)] \in 1..Len(rows) /\ h[k] \in 1..Len(rows)
  BY <1>2, <1>4 DEF Embeds
<1>8. Min(H) = h[Min(J)]
  <2> HIDE DEF H
  <2> QED
    BY <1>4, <1>5, <1>6, <1>7
<1> QED
  BY <1>2, <1>8 DEF Embeds

\* The selected row of an entity is the same in the past.
LEMMA SelectedInThePast ==
    ASSUME NEW X, NEW rows \in Seq(X), NEW event \in Int,
           \A i \in 1..Len(rows) : rows[i].at \in Int, NEW key, NEW value, NEW p
    PROVE  select(p, event, rows, groupBy(rows, key, value))
         = select(p, event, Past(rows, event), groupBy(Past(rows, event), key, value))
<1> DEFINE past == Past(rows, event)
           prior == {i \in groupBy(rows, key, value) : rows[i].at <= event}
           latest == {i \in prior : \A j \in prior : rows[j].at <= rows[i].at}
           priorThen == {i \in groupBy(past, key, value) : past[i].at <= event}
           latestThen == {i \in priorThen : \A j \in priorThen : past[j].at <= past[i].at}
<1>1. past \in Seq(X) /\ \E h : Embeds(h, rows, event)
  BY PastIsEmbedded
<1>2. PICK h : Embeds(h, rows, event)
  BY <1>1
<1>3. /\ DOMAIN rows = 1..Len(rows) /\ DOMAIN past = 1..Len(past)
      /\ Len(rows) \in Nat /\ Len(past) \in Nat
  BY <1>1
<1> HIDE DEF past
<1>4. /\ prior = Image(h, priorThen) /\ priorThen \in SUBSET (1..Len(past))
      /\ \A k \in priorThen : past[k] = rows[h[k]]
  <2>1. \A k \in 1..Len(past) : past[k] = rows[h[k]] /\ rows[h[k]].at <= event /\ h[k] \in 1..Len(rows)
    BY <1>2 DEF Embeds, past
  <2>2. \A i \in 1..Len(rows) : rows[i].at <= event => \E k \in 1..Len(past) : h[k] = i
    BY <1>2 DEF Embeds, past
  <2>3. prior = {i \in 1..Len(rows) : rows[i][key] = value /\ rows[i].at <= event}
    BY <1>3 DEF groupBy
  <2>4. priorThen = {k \in 1..Len(past) : past[k][key] = value /\ past[k].at <= event}
    BY <1>3 DEF groupBy
  <2> HIDE DEF prior, priorThen
  <2>5. ASSUME NEW i \in prior PROVE i \in Image(h, priorThen)
    <3>1. PICK k \in 1..Len(past) : h[k] = i
      BY <2>2, <2>3
    <3>2. k \in priorThen
      BY <2>1, <2>3, <2>4, <3>1
    <3> QED
      BY <3>1, <3>2 DEF Image
  <2>6. ASSUME NEW i \in Image(h, priorThen) PROVE i \in prior
    BY <2>1, <2>3, <2>4 DEF Image
  <2> QED
    BY <2>1, <2>4, <2>5, <2>6
<1> HIDE DEF prior, priorThen
<1>5. latest = Image(h, latestThen)
  <2>1. ASSUME NEW i \in latest PROVE i \in Image(h, latestThen)
    <3>1. PICK k \in priorThen : i = h[k]
      BY <1>4 DEF Image
    <3>2. \A j \in priorThen : h[j] \in prior /\ past[j].at <= past[k].at
      BY <1>4, <3>1 DEF Image
    <3> QED
      BY <3>1, <3>2 DEF Image
  <2>2. ASSUME NEW k \in latestThen PROVE h[k] \in latest
    <3>1. \A i \in prior : \E j \in priorThen : i = h[j]
      BY <1>4 DEF Image
    <3>2. k \in priorThen /\ \A j \in priorThen : past[j].at <= past[k].at
      OBVIOUS
    <3>3. h[k] \in prior
      BY <1>4, <3>2 DEF Image
    <3>4. \A j \in priorThen : rows[h[j]].at <= rows[h[k]].at
      BY <1>4, <3>2
    <3> QED
      BY <3>1, <3>3, <3>4
  <2> QED
    BY <2>1, <2>2 DEF Image
<1>6. latestThen \in SUBSET (1..Len(past))
  BY <1>4
<1> HIDE DEF latest, latestThen
<1>7. latestThen # {} => rows[Min(latest)] = past[Min(latestThen)]
  BY <1>2, <1>3, <1>5, <1>6, FirstOfThePast DEF past
<1>8. latest = {} <=> latestThen = {}
  BY <1>5 DEF Image
<1>9. latestPrior(event, rows, groupBy(rows, key, value))
        = latestPrior(event, past, groupBy(past, key, value))
  BY <1>7, <1>8 DEF latestPrior, prior, latest, priorThen, latestThen
<1> QED
  BY <1>9 DEF select, past

\* A station of the file is one of the past if a row of it counts.
LEMMA KnownInThePast ==
    ASSUME NEW X, NEW rows \in Seq(X), NEW event \in Int,
           \A i \in 1..Len(rows) : rows[i].at \in Int, NEW key, NEW value, NEW p
    PROVE  LET past == Past(rows, event) IN
           /\ (\E i \in DOMAIN past : past[i][key] = value) =>
                 \E i \in DOMAIN rows : rows[i][key] = value
           /\ select(p, event, rows, groupBy(rows, key, value)) # None =>
                 \E i \in DOMAIN past : past[i][key] = value
<1> DEFINE past == Past(rows, event)
<1>1. past \in Seq(X) /\ \E h : Embeds(h, rows, event)
  BY PastIsEmbedded
<1>2. PICK h : Embeds(h, rows, event)
  BY <1>1
<1>3. DOMAIN rows = 1..Len(rows) /\ DOMAIN past = 1..Len(past) /\ Len(rows) \in Nat
  BY <1>1
<1>4. ASSUME NEW i \in DOMAIN past, past[i][key] = value
      PROVE  \E j \in DOMAIN rows : rows[j][key] = value
  BY <1>2, <1>3, <1>4 DEF Embeds
<1>5. ASSUME select(p, event, rows, groupBy(rows, key, value)) # None
      PROVE  \E i \in DOMAIN past : past[i][key] = value
  <2>1. groupBy(rows, key, value) \in SUBSET (1..Len(rows))
    BY <1>3 DEF groupBy
  <2>2. PICK i \in groupBy(rows, key, value) : rows[i].at <= event
    BY <1>3, <1>5, <2>1, RowSelected
  <2>3. i \in 1..Len(rows) /\ rows[i][key] = value
    BY <1>3 DEF groupBy
  <2>4. PICK k \in 1..Len(past) : h[k] = i
    BY <1>2, <2>2, <2>3 DEF Embeds
  <2>5. past[k] = rows[i]
    BY <1>2, <2>4 DEF Embeds
  <2> HIDE DEF past
  <2> QED
    BY <1>3, <2>3, <2>5
<1> QED
  BY <1>4, <1>5

LEMMA TrafficOfThePast ==
    ASSUME NEW traffic, IsTraffic(traffic), NEW event
    PROVE  IsTraffic(Past(traffic, event))
<1> DEFINE past == Past(traffic, event)
           X == ToSet(traffic)
<1>1. traffic \in Seq(X) /\ DOMAIN traffic = 1..Len(traffic)
  BY DEF IsTraffic
<1>2. past \in Seq(X) /\ \E h : Embeds(h, traffic, event)
  <2> HIDE DEF X
  <2> QED
    BY <1>1, PastIsEmbedded
<1>3. PICK h : Embeds(h, traffic, event)
  BY <1>2
<1>4. past \in Seq(ToSet(past))
  <2>1. \A i \in 1..Len(past) : past[i] \in ToSet(past)
    BY <1>2 DEF ToSet
  <2> HIDE DEF past
  <2> QED
    BY <1>2, <2>1
<1>5. ASSUME NEW i \in 1..Len(past)
      PROVE  past[i].at \in Int /\ past[i].saturation \in 0..100 /\ past[i] # None
  BY <1>3, <1>5 DEF Embeds, IsTraffic
<1> QED
  BY <1>4, <1>5 DEF IsTraffic

\* What was read of a road at an instant by the event is the same in the past.
LEMMA ReadInThePast ==
    ASSUME NEW traffic, IsTraffic(traffic), NEW event \in Int, NEW id, NEW at \in Int, at <= event
    PROVE  ReadingAt(traffic, id, at) = ReadingAt(Past(traffic, event), id, at)
<1> DEFINE past == Past(traffic, event)
           R == ReadAt(traffic, id, at)
           J == ReadAt(past, id, at)
<1>1. traffic \in Seq(ToSet(traffic)) /\ IsTraffic(past)
  BY TrafficOfThePast DEF IsTraffic
<1>2. PICK h : Embeds(h, traffic, event)
  BY <1>1, PastIsEmbedded
<1>3. /\ DOMAIN traffic = 1..Len(traffic) /\ DOMAIN past = 1..Len(past)
      /\ Len(traffic) \in Nat /\ Len(past) \in Nat
  BY <1>1 DEF IsTraffic
<1>4. R = Image(h, J) /\ J \in SUBSET (1..Len(past))
  <2>1. \A k \in 1..Len(past) : past[k] = traffic[h[k]] /\ h[k] \in 1..Len(traffic)
    BY <1>2 DEF Embeds
  <2>2. \A i \in 1..Len(traffic) : traffic[i].at <= event => \E k \in 1..Len(past) : h[k] = i
    BY <1>2 DEF Embeds
  <2>3. R = {i \in 1..Len(traffic) : traffic[i].road = id /\ traffic[i].at = at}
    BY <1>3 DEF ReadAt
  <2> HIDE DEF past, R
  <2>4. J = {k \in 1..Len(past) : past[k].road = id /\ past[k].at = at}
    BY <1>3 DEF ReadAt
  <2> HIDE DEF J
  <2>5. ASSUME NEW i \in R PROVE i \in Image(h, J)
    <3>1. PICK k \in 1..Len(past) : h[k] = i
      BY <2>2, <2>3
    <3>2. k \in J
      BY <2>1, <2>3, <2>4, <3>1
    <3> QED
      BY <3>1, <3>2 DEF Image
  <2>6. ASSUME NEW i \in Image(h, J) PROVE i \in R
    BY <2>1, <2>3, <2>4 DEF Image
  <2> QED
    BY <2>4, <2>5, <2>6
<1> HIDE DEF R, J
<1>5. J # {} => traffic[Min(R)] = past[Min(J)]
  BY <1>2, <1>3, <1>4, FirstOfThePast
<1>6. ReadingAt(traffic, id, at) = IF R = {} THEN None ELSE traffic[Min(R)]
  BY FirstReading DEF R
<1>7. ReadingAt(past, id, at) = IF J = {} THEN None ELSE past[Min(J)]
  <2> HIDE DEF past
  <2> QED
    BY <1>1, FirstReading DEF J
<1>8. R = {} <=> J = {}
  BY <1>4 DEF Image
<1> QED
  BY <1>5, <1>6, <1>7, <1>8

LEMMA SnapshotInThePast ==
    ASSUME NEW traffic, IsTraffic(traffic), NEW event \in Int, NEW roads
    PROVE  selectLatestCommonExactSnapshot(roads, event, traffic)
         = selectLatestCommonExactSnapshot(roads, event, Past(traffic, event))
<1> DEFINE past == Past(traffic, event)
           instants == ReadInstants(roads, event, traffic)
           common == {at \in instants : \A k \in DOMAIN roads : ReadingAt(traffic, roads[k], at) # None}
<1>1. traffic \in Seq(ToSet(traffic)) /\ IsTraffic(past)
  BY TrafficOfThePast DEF IsTraffic
<1>2. PICK h : Embeds(h, traffic, event)
  BY <1>1, PastIsEmbedded
<1>3. /\ DOMAIN traffic = 1..Len(traffic) /\ DOMAIN past = 1..Len(past) /\ Len(traffic) \in Nat
      /\ \A i \in 1..Len(traffic) : traffic[i].at \in Int
  BY <1>1 DEF IsTraffic
<1>4. instants = ReadInstants(roads, event, past)
  <2>1. \A k \in 1..Len(past) : past[k] = traffic[h[k]] /\ traffic[h[k]].at <= event
                               /\ h[k] \in 1..Len(traffic)
    BY <1>2 DEF Embeds
  <2>2. \A i \in 1..Len(traffic) : traffic[i].at <= event => \E k \in 1..Len(past) : h[k] = i
    BY <1>2 DEF Embeds
  <2> HIDE DEF past
  <2>3. \A at : at \in instants <=>
           \E i \in 1..Len(traffic) : /\ traffic[i].at = at /\ traffic[i].at <= event
                                      /\ Contains(roads, traffic[i].road)
    BY <1>3 DEF ReadInstants
  <2>4. \A at : at \in ReadInstants(roads, event, past) <=>
           \E k \in 1..Len(past) : /\ past[k].at = at /\ past[k].at <= event
                                   /\ Contains(roads, past[k].road)
    BY <1>3 DEF ReadInstants
  <2> HIDE DEF instants
  <2>5. ASSUME NEW at \in instants PROVE at \in ReadInstants(roads, event, past)
    BY <2>1, <2>2, <2>3, <2>4
  <2>6. ASSUME NEW at \in ReadInstants(roads, event, past) PROVE at \in instants
    BY <2>1, <2>3, <2>4
  <2> QED
    BY <2>5, <2>6
<1>5. \A at \in instants : /\ at \in Int /\ at <= event
                           /\ \E i \in 1..Len(traffic) : traffic[i].at = at
  BY <1>3 DEF ReadInstants
<1>6. ASSUME NEW at \in instants, NEW id
      PROVE  ReadingAt(traffic, id, at) = ReadingAt(past, id, at)
  BY <1>5, ReadInThePast
<1> HIDE DEF instants, past
<1>7. common = {at \in instants : \A k \in DOMAIN roads : ReadingAt(past, roads[k], at) # None}
  BY <1>6
<1>8. common # {} => Max(common) \in instants
  <2> DEFINE v == [i \in 1..Len(traffic) |-> traffic[i].at]
  <2>1. v \in [1..Len(traffic) -> Int] /\ \A x \in common : \E i \in 1..Len(traffic) : v[i] = x
    BY <1>3, <1>5
  <2>2. common \subseteq instants
    OBVIOUS
  <2> HIDE DEF common, v
  <2> QED
    BY <1>3, <2>1, <2>2, GreatestOf
<1>9. common # {} =>
          [k \in DOMAIN roads |-> ReadingAt(traffic, roads[k], Max(common))]
        = [k \in DOMAIN roads |-> ReadingAt(past, roads[k], Max(common))]
  BY <1>6, <1>8
<1> HIDE DEF common
<1>10. selectLatestCommonExactSnapshot(roads, event, past) =
          IF roads = <<>> \/ common = {} THEN NoCommonSnapshot
          ELSE [at |-> Max(common),
                readings |-> [k \in DOMAIN roads |-> ReadingAt(past, roads[k], Max(common))]]
  BY <1>4, <1>7 DEF selectLatestCommonExactSnapshot
<1>11. selectLatestCommonExactSnapshot(roads, event, traffic) =
          IF roads = <<>> \/ common = {} THEN NoCommonSnapshot
          ELSE [at |-> Max(common),
                readings |-> [k \in DOMAIN roads |-> ReadingAt(traffic, roads[k], Max(common))]]
  BY DEF selectLatestCommonExactSnapshot, common, instants
<1> QED
  BY <1>9, <1>10, <1>11 DEF past

\* The data of the files as they stood at the event.
Then == [Official EXCEPT !.traffic = UntilEvent(@), !.crowd = UntilEvent(@)]

LEMMA DataOfThePast ==
    ASSUME PictureInv, Decided
    PROVE  /\ Then.traffic = Past(Official.traffic, Event.at)
           /\ Then.crowd = Past(Official.crowd, Event.at)
           /\ Then.network = Official.network
           /\ Then.articles = Official.articles
           /\ IsTraffic(Official.traffic) /\ IsCrowd(Official.crowd)
           /\ Event.at \in Int
<1>1. Official.data_status = "ready" /\ Event.at \in Int
  BY DecidedByTheRules
<1>2. IsData(Official)
  BY <1>1, OfficialIsTyped DEF PictureInv
<1>3. Official = [data_status |-> "ready", stop_reason |-> None,
                  source_manifest_hash |-> Official.source_manifest_hash,
                  traffic |-> Official.traffic, crowd |-> Official.crowd,
                  network |-> Official.network, articles |-> Official.articles,
                  incidents |-> Official.incidents]
  BY <1>1 DEF Official, ingestData, Insufficient
<1>4. /\ Then.traffic = UntilEvent(Official.traffic) /\ Then.crowd = UntilEvent(Official.crowd)
      /\ Then.network = Official.network /\ Then.articles = Official.articles
  BY <1>3 DEF Then
<1> QED
  BY <1>1, <1>2, <1>4 DEF UntilEvent, Past, IsData

\* Every reading the rules ask for is the same.
LEMMA ReadingsOfThePast ==
    ASSUME PictureInv, Decided, NEW id
    PROVE  /\ selectSaturation(policy, Then, Event.at, id)
                 = selectSaturation(policy, Official, Event.at, id)
           /\ selectStation(policy, Then, Event.at, id) = selectStation(policy, Official, Event.at, id)
           /\ id \in Stations(Then) => id \in Stations(Official)
           /\ selectStation(policy, Official, Event.at, id) # None => id \in Stations(Then)
<1> DEFINE traffic == Official.traffic
           crowd == Official.crowd
           e == Event.at
<1>1. /\ Then.traffic = Past(traffic, e) /\ Then.crowd = Past(crowd, e) /\ e \in Int
      /\ IsTraffic(traffic) /\ IsCrowd(crowd)
  BY DataOfThePast
<1> HIDE DEF traffic, crowd, e
<1>2. /\ traffic \in Seq(ToSet(traffic)) /\ crowd \in Seq(ToSet(crowd))
      /\ \A i \in 1..Len(traffic) : traffic[i].at \in Int
      /\ \A i \in 1..Len(crowd) : crowd[i].at \in Int
  BY <1>1 DEF IsTraffic, IsCrowd
<1>3. select(policy, e, traffic, groupBy(traffic, "road", id))
        = select(policy, e, Past(traffic, e), groupBy(Past(traffic, e), "road", id))
  BY <1>1, <1>2, SelectedInThePast
<1>4. select(policy, e, crowd, groupBy(crowd, "station", id))
        = select(policy, e, Past(crowd, e), groupBy(Past(crowd, e), "station", id))
  BY <1>1, <1>2, SelectedInThePast
<1>5. /\ (\E i \in DOMAIN Past(crowd, e) : Past(crowd, e)[i]["station"] = id) =>
            \E i \in DOMAIN crowd : crowd[i]["station"] = id
      /\ select(policy, e, crowd, groupBy(crowd, "station", id)) # None =>
            \E i \in DOMAIN Past(crowd, e) : Past(crowd, e)[i]["station"] = id
  BY <1>1, <1>2, KnownInThePast
<1>6. selectSaturation(policy, Then, e, id) = selectSaturation(policy, Official, e, id)
  BY <1>1, <1>3 DEF selectSaturation, traffic
<1>7. selectStation(policy, Then, e, id) = selectStation(policy, Official, e, id)
  BY <1>1, <1>4 DEF selectStation, crowd
<1>8. selectStation(policy, Official, e, id) = select(policy, e, crowd, groupBy(crowd, "station", id))
  BY DEF selectStation, crowd
<1>9. Stations(Official) = {crowd[i].station : i \in DOMAIN crowd}
      /\ Stations(Then) = {Past(crowd, e)[i].station : i \in DOMAIN Past(crowd, e)}
  BY <1>1 DEF Stations, crowd
<1> QED
  BY <1>5, <1>6, <1>7, <1>8, <1>9 DEF e

\* The part of the road is the same.
LEMMA RoadOfThePast ==
    ASSUME PictureInv, Decided
    PROVE  RoadFacts(policy, Then, Event) = RoadFacts(policy, Official, Event)
<1>1. /\ Then.network = Official.network /\ Then.traffic = Past(Official.traffic, Event.at)
      /\ IsTraffic(Official.traffic) /\ Event.at \in Int
  BY DataOfThePast
<1>2. \A id : selectSaturation(policy, Then, Event.at, id) = selectSaturation(policy, Official, Event.at, id)
  BY ReadingsOfThePast
<1>3. saturationMap(policy, Then, Event) = saturationMap(policy, Official, Event)
  BY <1>1, <1>2 DEF saturationMap
<1>4. resolveIncidentAnchor(policy, Then, Event) = Anchor
  BY <1>1 DEF resolveIncidentAnchor, Anchor
<1>5. evacuationFrom(policy, Then, Event, Anchor) = evacuationFrom(policy, Official, Event, Anchor)
  BY <1>1, <1>3 DEF evacuationFrom
<1>6. ASSUME NEW roads
      PROVE  clearanceOf(Then, Event, roads) = clearanceOf(Official, Event, roads)
  BY <1>1, SnapshotInThePast DEF clearanceOf
<1>7. ASSUME NEW grades, NEW anchor, NEW routes
      PROVE  roadConclusions(policy, Then, Event, grades, anchor, routes)
               = roadConclusions(policy, Official, Event, grades, anchor, routes)
  BY <1>6 DEF roadConclusions
<1> QED
  BY <1>2, <1>4, <1>5, <1>7 DEF RoadFacts, Anchor

\* Article 4 looks at the readings up to the current one.
Dispersing(reading, seen) ==
    /\ reading # None
    /\ \E users \in seen : users >= 30000
    /\ reading.growth <= -20

Dispersal(reading, seen) ==
    Evaluation(4, Dispersing(reading, seen),
               IF Dispersing(reading, seen) THEN {"article3_mrt_shuttle_mechanism"} ELSE {})

LEMMA DispersalBySeen ==
    ASSUME NEW reading, NEW rows, NEW observations, NEW event
    PROVE  evaluateArticle4(reading, rows, observations, event)
         = Dispersal(reading, {rows[i].users : i \in {j \in observations :
               rows[j].at <= IF reading = None THEN event ELSE reading.at}})
BY DEF evaluateArticle4, Dispersal, Dispersing

\* Article 3 looks at the current reading alone.
Crowded(reading) == reading.growth > 30 \/ reading.users > 25000

LEMMA ShuttleByCrowd ==
    ASSUME NEW reading
    PROVE  evaluateArticle3(reading) = Evaluation(3, reading # None /\ Crowded(reading), {})
BY DEF evaluateArticle3, Crowded

LEMMA PeakOfThePast ==
    ASSUME NEW rows, IsCrowd(rows), NEW event \in Int, NEW id, NEW p
    PROVE  LET reading == select(p, event, rows, groupBy(rows, "station", id)) IN
           evaluateArticle4(reading, rows, groupBy(rows, "station", id), event)
             = evaluateArticle4(reading, Past(rows, event),
                                groupBy(Past(rows, event), "station", id), event)
<1> DEFINE past == Past(rows, event)
           reading == select(p, event, rows, groupBy(rows, "station", id))
           current == IF reading = None THEN event ELSE reading.at
           seen == {rows[i].users : i \in {j \in groupBy(rows, "station", id) : rows[j].at <= current}}
           seenThen == {past[i].users : i \in {j \in groupBy(past, "station", id) : past[j].at <= current}}
<1>1. /\ rows \in Seq(ToSet(rows)) /\ DOMAIN rows = 1..Len(rows) /\ Len(rows) \in Nat
      /\ \A i \in 1..Len(rows) : rows[i].at \in Int
  BY DEF IsCrowd
<1>2. PICK h : Embeds(h, rows, event)
  BY <1>1, PastIsEmbedded
<1>3. past \in Seq(ToSet(rows))
  BY <1>1, PastIsEmbedded
<1>4. DOMAIN past = 1..Len(past)
  BY <1>3
<1>5. current \in Int /\ current <= event
  <2>1. groupBy(rows, "station", id) \in SUBSET (1..Len(rows))
    BY <1>1 DEF groupBy
  <2>2. reading # None =>
          \E i \in groupBy(rows, "station", id) : rows[i].at <= event /\ reading = rows[i]
    BY <1>1, <2>1, RowSelected
  <2> HIDE DEF reading
  <2> QED
    BY <1>1, <2>1, <2>2
<1> HIDE DEF current
<1>6. seen = seenThen
  <2>1. \A k \in 1..Len(past) : past[k] = rows[h[k]] /\ h[k] \in 1..Len(rows)
    BY <1>2 DEF Embeds
  <2>2. \A i \in 1..Len(rows) : rows[i].at <= event => \E k \in 1..Len(past) : h[k] = i
    BY <1>2 DEF Embeds
  <2> HIDE DEF past
  <2>3. \A u : u \in seen <=> \E i \in 1..Len(rows) : /\ rows[i].station = id
                                                     /\ rows[i].at <= current /\ u = rows[i].users
    BY <1>1 DEF groupBy
  <2>4. \A u : u \in seenThen <=> \E k \in 1..Len(past) : /\ past[k].station = id
                                                         /\ past[k].at <= current /\ u = past[k].users
    BY <1>4 DEF groupBy
  <2> HIDE DEF seen, seenThen
  <2>5. ASSUME NEW u \in seen PROVE u \in seenThen
    <3>1. PICK i \in 1..Len(rows) : rows[i].station = id /\ rows[i].at <= current /\ u = rows[i].users
      BY <2>3
    <3>2. rows[i].at <= event
      BY <1>1, <1>5, <3>1
    <3> QED
      BY <2>1, <2>2, <2>4, <3>1, <3>2
  <2>6. ASSUME NEW u \in seenThen PROVE u \in seen
    BY <2>1, <2>3, <2>4
  <2> QED
    BY <2>5, <2>6
<1> HIDE DEF seen, seenThen
<1>7. evaluateArticle4(reading, rows, groupBy(rows, "station", id), event)
        = Dispersal(reading, seen)
  BY DispersalBySeen DEF seen, current
<1>8. evaluateArticle4(reading, past, groupBy(past, "station", id), event)
        = Dispersal(reading, seenThen)
  BY DispersalBySeen DEF seenThen, current
<1> QED
  BY <1>6, <1>7, <1>8

\* The evaluations of the stations that trigger are the same.
LEMMA StationsOfThePast ==
    ASSUME PictureInv, Decided
    PROVE  {e \in StationEvaluations(policy, Then, Event) : e.triggered}
             = {e \in StationEvaluations(policy, Official, Event) : e.triggered}
<1> DEFINE current(id) == selectStation(policy, Official, Event.at, id)
           three == evaluateArticle3(current(ARTICLE3_STATION_ID))
           four == evaluateArticle4(current(ARTICLE4_STATION_ID), Official.crowd,
                       groupBy(Official.crowd, "station", ARTICLE4_STATION_ID), Event.at)
<1>1. \A id : selectStation(policy, Then, Event.at, id) = current(id)
  BY ReadingsOfThePast
<1>2. evaluateArticle4(current(ARTICLE4_STATION_ID), Then.crowd,
          groupBy(Then.crowd, "station", ARTICLE4_STATION_ID), Event.at) = four
  BY DataOfThePast, PeakOfThePast DEF selectStation
<1>3. StationEvaluations(policy, Official, Event)
        = {three : s \in Stations(Official) \cap {ARTICLE3_STATION_ID}}
          \cup {four : s \in Stations(Official) \cap {ARTICLE4_STATION_ID}}
  BY DEF StationEvaluations
<1>4. StationEvaluations(policy, Then, Event)
        = {three : s \in Stations(Then) \cap {ARTICLE3_STATION_ID}}
          \cup {four : s \in Stations(Then) \cap {ARTICLE4_STATION_ID}}
  BY <1>1, <1>2 DEF StationEvaluations
<1>5. three.triggered => current(ARTICLE3_STATION_ID) # None
  BY ShuttleByCrowd DEF Evaluation
<1>6. four.triggered => current(ARTICLE4_STATION_ID) # None
  BY DEF evaluateArticle4, Evaluation
<1>7. \A id : /\ id \in Stations(Then) => id \in Stations(Official)
              /\ current(id) # None => id \in Stations(Then)
  BY ReadingsOfThePast
<1> HIDE DEF three, four, current
<1> QED
  BY <1>3, <1>4, <1>5, <1>6, <1>7

\* ... and so is what the visitors trigger.
LEMMA VisitorsOfThePast ==
    ASSUME PictureInv, Decided
    PROVE  evaluateArticle6(stationsInScope(policy, currentStations(policy, Then, Event)))
             = evaluateArticle6(scope)
<1> DEFINE current(id) == selectStation(policy, Official, Event.at, id)
           roaming(id) == IF current(id) = None THEN None ELSE current(id).roaming
           Many(stations) == \E s \in stations : s.roaming # None /\ s.roaming >= 30
           was == currentStations(policy, Then, Event)
           is == currentStations(policy, Official, Event)
<1>1. is = {[station |-> id, roaming |-> roaming(id)] : id \in Stations(Official)}
  BY DEF currentStations
<1>2. was = {[station |-> id, roaming |-> roaming(id)] : id \in Stations(Then)}
  BY ReadingsOfThePast DEF currentStations
<1>3. \A id : /\ id \in Stations(Then) => id \in Stations(Official)
              /\ roaming(id) # None => id \in Stations(Then)
  BY ReadingsOfThePast
<1> HIDE DEF roaming, was, is
<1>4. Many(is) <=> Many(was)
  BY <1>1, <1>2, <1>3
<1>5. Many(stationsInScope(policy, is)) <=> Many(stationsInScope(policy, was))
  BY <1>4 DEF stationsInScope
<1>6. evaluateArticle6(stationsInScope(policy, is)) = evaluateArticle6(stationsInScope(policy, was))
  BY <1>5 DEF evaluateArticle6, Evaluation
<1> QED
  BY <1>6 DEF scope, is, was

\* Evaluations that do not trigger leave no mark.
LEMMA OnlyTriggersCount ==
    ASSUME NEW E, NEW F, NEW formula, {e \in E : e.triggered} = {e \in F : e.triggered}
    PROVE  aggregateArticles(E, formula) = aggregateArticles(F, formula)
BY DEF aggregateArticles

(* For files of any length, what a decision concludes is what it would have *)
(* concluded from the rows that were there at the event (latestPrior,       *)
(* evaluateArticle4, selectLatestCommonExactSnapshot).                      *)
THEOREM TheFutureIsUnused == Spec => []NothingFromTheFuture
<1>1. ASSUME PictureInv
      PROVE  NothingFromTheFuture
  <2> SUFFICES ASSUME Decided
               PROVE  NothingFromTheFuture
    BY DEF NothingFromTheFuture
  <2> DEFINE then == runDeterministicDecision(Config, Then, Event)
             failure == evaluateArticle5(Event, Official.network)
             visitors == evaluateArticle6(scope)
             formula == IF road.ete = None THEN {} ELSE {7}
             all == road.evaluations \cup {failure.evaluation, visitors}
                        \cup StationEvaluations(policy, Official, Event)
             allThen == road.evaluations \cup {failure.evaluation, visitors}
                            \cup StationEvaluations(policy, Then, Event)
             articles == aggregateArticles(all, formula)
             scopeThen == stationsInScope(policy, currentStations(policy, Then, Event))
  <2>1. /\ policy # Fault /\ Event.at # None
        /\ Facts = decisionFacts(policy, Official, Event, road, failure, scope) /\ Facts # Fault
    <3>1. policy # Fault /\ Event.at \in Int
          /\ Facts = decisionFacts(policy, Official, Event, road, failure, scope) /\ Facts # Fault
      BY <1>1, DecidedByTheRules
    <3>2. None \notin Int
      BY NoneAssumption DEF NoneAssumption
    <3> HIDE DEF failure
    <3> QED
      BY <3>1, <3>2
  <2>2. /\ Facts.classifications = road.classifications
        /\ Facts.routes = road.routes
        /\ Facts.ete = road.ete
        /\ Facts.multilingual_required = visitors.triggered
        /\ Facts.articles = articles
    BY <1>1, PartsOfTheFacts
  <2>3. Then.network = Official.network /\ Then.articles = Official.articles
    BY <1>1, DataOfThePast
  <2>4. then = decisionFacts(policy, Then, Event, road, failure, scopeThen)
    <3>1. then = decideWith(policy, Then, Event)
      BY DEF runDeterministicDecision, policy
    <3>2. (IF IsRoadEvent(Event) THEN RoadFacts(policy, Then, Event) ELSE NoRoadFacts) = road
      BY <1>1, RoadOfThePast DEF road
    <3>3. evaluateArticle5(Event, Then.network) = failure
      BY <2>3
    <3> HIDE DEF then, failure, scopeThen
    <3> QED
      BY <2>1, <3>1, <3>2, <3>3 DEF decideWith, scopeThen
  <2>5. aggregateArticles(allThen, formula) = articles
    <3>1. {e \in StationEvaluations(policy, Then, Event) : e.triggered}
            = {e \in StationEvaluations(policy, Official, Event) : e.triggered}
      BY <1>1, StationsOfThePast
    <3>2. {e \in allThen : e.triggered} = {e \in all : e.triggered}
      BY <3>1
    <3> HIDE DEF allThen, all, formula
    <3> QED
      BY <3>2, OnlyTriggersCount
  <2>6. evaluateArticle6(scopeThen) = visitors
    BY <1>1, VisitorsOfThePast
  <2>7. evidenceIsComplete(articles, Official.articles)
    <3> HIDE DEF failure
    <3> QED
      BY <2>1 DEF decisionFacts
  <2> HIDE DEF failure, visitors, scopeThen, formula, articles
  <2>8. then = [articles |-> articles,
                classifications |-> road.classifications,
                anchor |-> road.anchor,
                routes |-> road.routes,
                ete |-> road.ete,
                intersections |-> IF failure.evaluation.triggered
                                  THEN affectedIntersections(policy, Then.network,
                                                             Event.affected_segment)
                                  ELSE None,
                multilingual_required |-> visitors.triggered,
                stations_in_scope |-> {s.station : s \in scopeThen},
                cms_core_text |-> failure.cms_core_text]
    BY <2>3, <2>4, <2>5, <2>6, <2>7 DEF decisionFacts, formula
  <2> HIDE DEF then
  <2>9. /\ then.articles = articles
        /\ then.classifications = road.classifications
        /\ then.routes = road.routes
        /\ then.ete = road.ete
        /\ then.multilingual_required = visitors.triggered
    BY <2>8
  <2> QED
    BY <2>2, <2>9 DEF NothingFromTheFuture, then, Then
<1> QED
  BY <1>1, PictureInvariant, PTL

-----------------------------------------------------------------------------
(* The dashboard beside the decision *)

\* The dashboard's selector and the decision's policy select the same rows.
LEMMA SelectorsAgree ==
    ASSUME policy # Fault, NEW event, NEW rows, NEW records
    PROVE  select(Selector, event, rows, records) = select(policy, event, rows, records)
<1>1. /\ {"time_alignment", "max_staleness"} \subseteq DOMAIN Config
      /\ Config.time_alignment.type = "string" /\ Config.max_staleness.type = "number"
      /\ policy = [key \in DOMAIN Config |-> Config[key].value]
  BY DEF policy, createPolicyStrategyBundle, readEnum
<1>2. /\ policy.time_alignment = Config.time_alignment.value
      /\ policy.max_staleness = Config.max_staleness.value
  BY <1>1
<1>3. Selector = [time_alignment |-> Config.time_alignment.value,
                  max_staleness |-> Config.max_staleness.value]
  BY <1>1 DEF Selector, SnapshotSelector
<1>4. Selector.time_alignment = policy.time_alignment /\ Selector.max_staleness = policy.max_staleness
  BY <1>2, <1>3
<1> QED
  BY <1>4 DEF select

\* What the queries answer for the instant of the event.
GradeOf(id) == [segment_id |-> id, level |-> Level(selectSaturation(policy, Official, Event.at, id))]
RoadsInFile == {Official.traffic[i].road : i \in DOMAIN Official.traffic}
CurrentAt(id) == selectStation(policy, Official, Event.at, id)

LEMMA RoadsAnswer ==
    ASSUME PictureInv, Decided, board # None, board.data_status = "ready", board.route = "roads",
           resolveCutoff(Official) = Event.at
    PROVE  board.body = {GradeOf(id) : id \in RoadsInFile}
<1> DEFINE row(id) == select(Selector, Event.at, Official.traffic,
                             RowsOf(Official.traffic, "road", id))
           snapshot(id) == [segment_id |-> id,
                            saturation |-> IF row(id) = None THEN None ELSE row(id).saturation]
<1>1. policy # Fault /\ Official.data_status = "ready"
  BY DecidedByTheRules
<1>2. board \in Queries(Official)
  BY StopIsNotReady DEF PictureInv
<1>3. /\ queryTimeline(Official).route = "timeline" /\ queryCrowd(Selector, Official).route = "crowd"
      /\ queryIncidents(Official).route = "incidents"
  BY DEF queryTimeline, queryCrowd, queryIncidents, Answer, SelectedAnswer
<1>4. board = queryRoads(Selector, Official)
  BY <1>2, <1>3 DEF Queries
<1>5. board.body = {classifySegments(<<snapshot(id)>>)[1] : id \in RoadsInFile}
  BY <1>1, <1>4 DEF queryRoads, SelectedAnswer, Answer, RoadsInFile
<1>6. ASSUME NEW id
      PROVE  classifySegments(<<snapshot(id)>>)[1] = GradeOf(id)
  <2>1. row(id) = select(policy, Event.at, Official.traffic, groupBy(Official.traffic, "road", id))
    BY <1>1, SelectorsAgree DEF RowsOf, groupBy
  <2>2. snapshot(id) = [segment_id |-> id,
                        saturation |-> selectSaturation(policy, Official, Event.at, id)]
    BY <2>1 DEF selectSaturation
  <2> QED
    BY <2>2 DEF classifySegments, GradeOf
<1> QED
  BY <1>5, <1>6

LEMMA CrowdAnswer ==
    ASSUME PictureInv, Decided, board # None, board.data_status = "ready", board.route = "crowd",
           resolveCutoff(Official) = Event.at
    PROVE  /\ DOMAIN board.body = Stations(Official)
           /\ \A id \in Stations(Official) :
                 board.body[id].flags =
                     evaluateStationFlags(id, CurrentAt(id), Official.crowd,
                         groupBy(Official.crowd, "station", id), Event.at)
<1> DEFINE current(id) == select(Selector, Event.at, Official.crowd,
                                 RowsOf(Official.crowd, "station", id))
<1>1. policy # Fault /\ Official.data_status = "ready"
  BY DecidedByTheRules
<1>2. board \in Queries(Official)
  BY StopIsNotReady DEF PictureInv
<1>3. /\ queryTimeline(Official).route = "timeline" /\ queryRoads(Selector, Official).route = "roads"
      /\ queryIncidents(Official).route = "incidents"
  BY DEF queryTimeline, queryRoads, queryIncidents, Answer, SelectedAnswer
<1>4. board = queryCrowd(Selector, Official)
  BY <1>2, <1>3 DEF Queries
<1>5. board.body = [id \in Stations(Official) |->
                       [reading |-> current(id),
                        flags |-> evaluateStationFlags(id, current(id), Official.crowd,
                                      RowsOf(Official.crowd, "station", id), Event.at)]]
  BY <1>1, <1>4 DEF queryCrowd, SelectedAnswer, Answer, Stations
<1>6. ASSUME NEW id
      PROVE  /\ current(id) = CurrentAt(id)
             /\ RowsOf(Official.crowd, "station", id) = groupBy(Official.crowd, "station", id)
  BY <1>1, SelectorsAgree DEF RowsOf, groupBy, CurrentAt, selectStation
<1> HIDE DEF current
<1> QED
  BY <1>5, <1>6

LEMMA FlagsOfAStation ==
    ASSUME NEW id, NEW current, NEW rows, NEW observations, NEW cutoff
    PROVE  /\ "SOP3_MRT_SHUTTLE" \in evaluateStationFlags(id, current, rows, observations, cutoff)
                 <=> id = ARTICLE3_STATION_ID /\ evaluateArticle3(current).triggered
           /\ "SOP4_DOME_DISPERSAL" \in evaluateStationFlags(id, current, rows, observations, cutoff)
                 <=> /\ id = ARTICLE4_STATION_ID
                     /\ evaluateArticle4(current, rows, observations, cutoff).triggered
BY DEF evaluateStationFlags

\* Which evaluation a triggered article comes from.
LEMMA TriggeredByStations ==
    ASSUME PictureInv, Decided
    PROVE  /\ 3 \in Facts.articles.triggered <=>
                 /\ ARTICLE3_STATION_ID \in Stations(Official)
                 /\ evaluateArticle3(CurrentAt(ARTICLE3_STATION_ID)).triggered
           /\ 4 \in Facts.articles.triggered <=>
                 /\ ARTICLE4_STATION_ID \in Stations(Official)
                 /\ evaluateArticle4(CurrentAt(ARTICLE4_STATION_ID), Official.crowd,
                        groupBy(Official.crowd, "station", ARTICLE4_STATION_ID), Event.at).triggered
<1> DEFINE three == evaluateArticle3(CurrentAt(ARTICLE3_STATION_ID))
           four == evaluateArticle4(CurrentAt(ARTICLE4_STATION_ID), Official.crowd,
                       groupBy(Official.crowd, "station", ARTICLE4_STATION_ID), Event.at)
           failure == evaluateArticle5(Event, Official.network).evaluation
           visitors == evaluateArticle6(scope)
           stations == StationEvaluations(policy, Official, Event)
           all == road.evaluations \cup {failure, visitors} \cup stations
<1>1. Facts.articles.triggered = {e.article : e \in {f \in all : f.triggered}}
  <2>1. Facts.articles = aggregateArticles(all, IF road.ete = None THEN {} ELSE {7})
    BY PartsOfTheFacts
  <2> HIDE DEF all
  <2> QED
    BY <2>1 DEF aggregateArticles
<1>2. stations = {three : s \in Stations(Official) \cap {ARTICLE3_STATION_ID}}
                 \cup {four : s \in Stations(Official) \cap {ARTICLE4_STATION_ID}}
  BY DEF StationEvaluations, CurrentAt
<1>3. \A e \in road.evaluations : e.article \in {1, 2}
  <2>1. RoadFacts(policy, Official, Event).evaluations
          = {evaluateArticle1(RoadFacts(policy, Official, Event).classifications).evaluation,
             Evaluation(2, isArticle2Triggered(Event), {})}
    BY DEF RoadFacts, roadConclusions
  <2>2. \A grades : evaluateArticle1(grades).evaluation.article = 1
    BY DEF evaluateArticle1, Evaluation
  <2>3. \A triggered : Evaluation(2, triggered, {}).article = 2
    BY DEF Evaluation
  <2> QED
    BY <2>1, <2>2, <2>3 DEF road, NoRoadFacts
<1>4. failure.article = 5 /\ visitors.article = 6
  BY DEF evaluateArticle5, evaluateArticle6, Evaluation
<1>5. three.article = 3
  BY DEF evaluateArticle3, Evaluation
<1>6. four.article = 4
  BY DEF evaluateArticle4, Evaluation
<1> HIDE DEF three, four, failure, visitors, stations
<1>7. 3 \in Facts.articles.triggered <=> ARTICLE3_STATION_ID \in Stations(Official) /\ three.triggered
  BY <1>1, <1>2, <1>3, <1>4, <1>5, <1>6
<1>8. 4 \in Facts.articles.triggered <=> ARTICLE4_STATION_ID \in Stations(Official) /\ four.triggered
  BY <1>1, <1>2, <1>3, <1>4, <1>5, <1>6
<1> QED
  BY <1>7, <1>8 DEF three, four

(* For any files, a dashboard that stands at the event and a decision agree *)
(* on the grade of the road, the shuttle and the dispersal (queryRoads,     *)
(* queryCrowd, runDeterministicDecision).                                   *)
THEOREM DashboardAgrees == Spec => []PictureMatchesDecision
<1>1. ASSUME PictureInv
      PROVE  PictureMatchesDecision
  <2> SUFFICES ASSUME Decided, board # None, board.data_status = "ready",
                      resolveCutoff(Official) = Event.at
               PROVE  PictureMatchesDecision
    BY DEF PictureMatchesDecision, resolveCutoff
  <2>1. ASSUME board.route = "roads", NEW i \in DOMAIN Facts.classifications
        PROVE  LET c == Facts.classifications[i] IN
               /\ c.level # None => c \in board.body
               /\ \A shown \in board.body : shown.segment_id = c.segment_id => shown = c
    <3> DEFINE id == Event.affected_segment
               c == Facts.classifications[i]
    <3>1. board.body = {GradeOf(x) : x \in RoadsInFile}
      BY <1>1, <2>1, RoadsAnswer
    <3>2. IsRoadEvent(Event) /\ c = GradeOf(id)
      <4>1. Facts.classifications = road.classifications
        BY <1>1, PartsOfTheFacts
      <4>2. IsRoadEvent(Event)
        <5>1. DOMAIN <<>> = {}
          OBVIOUS
        <5> QED
          BY <2>1, <4>1, <5>1 DEF road, NoRoadFacts
      <4>3. road.classifications
              = classifySegments(<<[segment_id |-> id,
                    saturation |-> selectSaturation(policy, Official, Event.at, id)]>>)
        BY <4>2 DEF road, RoadFacts, roadConclusions
      <4>4. road.classifications = [j \in {1} |-> GradeOf(id)]
        BY <4>3 DEF classifySegments, GradeOf
      <4> QED
        BY <2>1, <4>1, <4>2, <4>4
    <3>3. c.level # None => id \in RoadsInFile
      <4>1. c.level # None => selectSaturation(policy, Official, Event.at, id) # None
        BY <3>2 DEF GradeOf, Level
      <4>2. selectSaturation(policy, Official, Event.at, id) # None =>
              select(policy, Event.at, Official.traffic, groupBy(Official.traffic, "road", id)) # None
        BY DEF selectSaturation
      <4> DEFINE traffic == Official.traffic
      <4>3. IsTraffic(traffic) /\ Event.at \in Int
        BY <1>1, DataOfThePast
      <4>4. DOMAIN traffic = 1..Len(traffic) /\ Len(traffic) \in Nat
            /\ \A j \in 1..Len(traffic) : traffic[j].at \in Int
        BY <4>3 DEF IsTraffic
      <4> HIDE DEF traffic
      <4>5. groupBy(traffic, "road", id) \in SUBSET (1..Len(traffic))
        BY <4>4 DEF groupBy
      <4>6. select(policy, Event.at, traffic, groupBy(traffic, "road", id)) # None =>
              \E j \in groupBy(traffic, "road", id) : traffic[j].at <= Event.at
        BY <4>3, <4>4, <4>5, RowSelected
      <4>7. (\E j \in groupBy(traffic, "road", id) : traffic[j].at <= Event.at) => id \in RoadsInFile
        BY DEF groupBy, RoadsInFile, traffic
      <4> QED
        BY <4>1, <4>2, <4>6, <4>7 DEF traffic
    <3>4. \A x : GradeOf(x).segment_id = x
      BY DEF GradeOf
    <3> HIDE DEF c
    <3>5. c.level # None => c \in board.body
      BY <3>1, <3>2, <3>3
    <3>6. \A shown \in board.body : shown.segment_id = c.segment_id => shown = c
      BY <3>1, <3>2, <3>4
    <3> QED
      BY <3>5, <3>6 DEF c
  <2>2. ASSUME board.route = "crowd"
        PROVE  LET flags == UNION {board.body[id].flags : id \in DOMAIN board.body} IN
               /\ 3 \in Facts.articles.triggered <=> "SOP3_MRT_SHUTTLE" \in flags
               /\ 4 \in Facts.articles.triggered <=> "SOP4_DOME_DISPERSAL" \in flags
    <3> DEFINE flags == UNION {board.body[id].flags : id \in DOMAIN board.body}
               four(id) == evaluateArticle4(CurrentAt(id), Official.crowd,
                               groupBy(Official.crowd, "station", id), Event.at)
    <3>1. /\ DOMAIN board.body = Stations(Official)
          /\ \A id \in Stations(Official) :
                board.body[id].flags =
                    evaluateStationFlags(id, CurrentAt(id), Official.crowd,
                        groupBy(Official.crowd, "station", id), Event.at)
      BY <1>1, <2>2, CrowdAnswer
    <3>2. ASSUME NEW id \in Stations(Official)
          PROVE  /\ "SOP3_MRT_SHUTTLE" \in board.body[id].flags
                       <=> id = ARTICLE3_STATION_ID /\ evaluateArticle3(CurrentAt(id)).triggered
                 /\ "SOP4_DOME_DISPERSAL" \in board.body[id].flags
                       <=> id = ARTICLE4_STATION_ID /\ four(id).triggered
      BY <3>1, FlagsOfAStation
    <3> HIDE DEF four
    <3>3. "SOP3_MRT_SHUTTLE" \in flags <=>
            /\ ARTICLE3_STATION_ID \in Stations(Official)
            /\ evaluateArticle3(CurrentAt(ARTICLE3_STATION_ID)).triggered
      BY <3>1, <3>2
    <3>4. "SOP4_DOME_DISPERSAL" \in flags <=>
            ARTICLE4_STATION_ID \in Stations(Official) /\ four(ARTICLE4_STATION_ID).triggered
      BY <3>1, <3>2
    <3> HIDE DEF flags
    <3> QED
      BY <1>1, <3>3, <3>4, TriggeredByStations DEF four, flags
  <2> QED
    BY <2>1, <2>2 DEF PictureMatchesDecision
<1> QED
  BY <1>1, PictureInvariant, PTL
=============================================================================
