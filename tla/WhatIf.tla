------------------------------- MODULE WhatIf -------------------------------
(***************************************************************************)
(* WhatIfFn: a hypothetical question becomes assumptions (a model reads    *)
(* it), the assumptions are validated against the baseline, the rule       *)
(* engine is run again on them, and a model explains the result with the   *)
(* SOP articles at hand.  Nothing is stored; one action ends at an await.  *)
(*                                                                         *)
(* Numbers are in hundredths: 100 is the number 1.  The facade that loads  *)
(* the baseline and reruns the rule engine is injected, its implementation *)
(* is not in src/.                                                         *)
(***************************************************************************)
EXTENDS NarrativeComposers, SopRetrieval, Integers

CONSTANTS
    Requests,       \* the requests that arrive
    ParserReplies,  \* what the parsing model may answer
    Catalogs,       \* the entity ids a baseline may hold, roads and stations
    Facts,          \* the article sets a rerun may conclude
    Explanations,   \* what the explaining model may answer
    NoValue         \* an absent or malformed value

\* An item of a reply is a record; a percent that leaves less than a hundredth
\* when it is read as a share is beyond the resolution of the numbers here.
IsItem(a) ==
    /\ DOMAIN a = {"entity", "field", "operator", "value"}
    /\ a.value # NoValue => a.value \in Int
    /\ a.field = "Roaming_User_Pct" /\ a.value # NoValue /\ a.value > 100 /\ a.value <= 10000
         => a.value % 100 = 0

IsItemList(list) ==
    /\ list = [i \in DOMAIN list |-> list[i]]
    /\ \A i \in DOMAIN list : IsItem(list[i])

ASSUME ParserRepliesAssumption == \A reply \in ParserReplies : IsItemList(reply.assumptions)
ASSUME FactsAssumption ==
    \A facts \in Facts : facts.triggered \cup facts.formula \subseteq SopArticles

VARIABLES
    request,    \* the event of API Gateway
    stage,      \* the await the handler is at
    parsed,     \* the assumptions of stage 1
    baseline,   \* the catalog of the loaded baseline
    validated,  \* the assumptions the rule engine was run on
    response    \* [status, citations, text, source]

ownVars == <<request, stage, parsed, baseline, validated, response>>
vars == <<wanted, kb, chunks, citations, toFetch, failed, outcome,
          request, stage, parsed, baseline, validated, response>>

-----------------------------------------------------------------------------
isAuthorizedOperator(r) ==
    r.claims # NoValue /\ r.claims.sub # "blank" /\ "operators" \in r.claims.groups

parseRequest(r) == r.body = "query"

(* Stage 1: one malformed item spoils the whole reply.  No assumptions mean *)
(* that a clarification is asked for.                                       *)
validateAssumption(item) == NoValue \notin {item.entity, item.field, item.operator, item.value}

parseScenario(reply) ==
    IF /\ reply.ok /\ reply.status = "parsed"
       /\ \A i \in DOMAIN reply.assumptions : validateAssumption(reply.assumptions[i])
    THEN reply.assumptions ELSE <<>>

(* Stage 2.  An entity is its kind, read off its prefix, and its id.        *)
FIELD_SPECS ==
    [Saturation_Score |-> [kind |-> "road_segment", min |-> 0, max |-> 100,
                           integer |-> FALSE, percent |-> FALSE],
     User_Count       |-> [kind |-> "base_station", min |-> 0, max |-> 1000000000,
                           integer |-> TRUE, percent |-> FALSE],
     Growth_Rate      |-> [kind |-> "base_station", min |-> -100, max |-> 1000,
                           integer |-> FALSE, percent |-> FALSE],
     Roaming_User_Pct |-> [kind |-> "base_station", min |-> 0, max |-> 100,
                           integer |-> FALSE, percent |-> TRUE]]

\* Names every object inherits, "toString" for one: the operator `in' finds
\* them, and what it finds is no specification of a field.
Inherited == {"toString"}

AcceptsPercent(a) == a.field \in DOMAIN FIELD_SPECS /\ FIELD_SPECS[a.field].percent

schemaAccepts(a, loaded) ==
    /\ a.entity.kind # "neither"
    /\ a.field \in DOMAIN FIELD_SPECS \cup Inherited
    /\ a.entity \in loaded

\* 1 may be a share or one percent.
UnitIsUnclear(a) == AcceptsPercent(a) /\ a.value = 100

\* From above 1 to 100 a share is meant in percent.
normalizePercentScale(a) ==
    IF AcceptsPercent(a) /\ a.value > 100 /\ a.value <= 10000
    THEN [a EXCEPT !.value = @ \div 100] ELSE a

domainAccepts(a) ==
    LET spec == FIELD_SPECS[a.field] IN
    /\ a.entity.kind = spec.kind
    /\ a.value \in spec.min..spec.max
    /\ spec.integer => a.value % 100 = 0

detectAmbiguity(assumptions) ==
    \E i, j \in DOMAIN assumptions :
        /\ i # j
        /\ assumptions[i].entity = assumptions[j].entity
        /\ assumptions[i].field = assumptions[j].field

Clarify == [verdict |-> "clarification_required", assumptions |-> <<>>]
Threw == [verdict |-> "threw", assumptions |-> <<>>]

validateScenario_EachAlone(assumptions, loaded) ==
    LET each(P(_)) == \A i \in DOMAIN assumptions : P(assumptions[i])
        normalized == [i \in DOMAIN assumptions |-> normalizePercentScale(assumptions[i])]
    IN  IF \/ assumptions = <<>>
           \/ ~each(LAMBDA a : schemaAccepts(a, loaded))
           \/ ~each(LAMBDA a : ~UnitIsUnclear(a))
        THEN Clarify
        ELSE IF ~each(LAMBDA a : a.field \notin Inherited) THEN Threw
        ELSE IF \E i \in DOMAIN normalized : ~domainAccepts(normalized[i]) THEN Clarify
        ELSE [verdict |-> "valid", assumptions |-> normalized]

\* Each phase runs only when the ones before it found nothing; the match of
\* entity and field is where an inherited name blows up.
validateScenario(assumptions, loaded) ==
    LET each(P(_)) == \A i \in DOMAIN assumptions : P(assumptions[i])
        normalized == [i \in DOMAIN assumptions |-> normalizePercentScale(assumptions[i])]
    IN  IF \/ assumptions = <<>>
           \/ ~each(LAMBDA a : schemaAccepts(a, loaded))
           \/ ~each(LAMBDA a : ~UnitIsUnclear(a))
        THEN Clarify
        ELSE IF ~each(LAMBDA a : a.field \notin Inherited) THEN Threw
        ELSE IF \/ \E i \in DOMAIN normalized : ~domainAccepts(normalized[i])
                \/ detectAmbiguity(normalized)
        THEN Clarify
        ELSE [verdict |-> "valid", assumptions |-> normalized]

-----------------------------------------------------------------------------
Respond(status, cites, text, source) ==
    /\ stage' = "done"
    /\ response' = [status |-> status, citations |-> cites, text |-> text, source |-> source]

\* An error or a clarification: no articles, no citations, no explanation.
Decline(status) == Respond(status, <<>>, NoValue, NoValue)

Init ==
    /\ request \in Requests
    /\ stage = "arrived" /\ parsed = <<>> /\ baseline = {} /\ validated = <<>>
    /\ response = NoValue
    /\ RetrievalInit({})

Receive ==
    /\ stage = "arrived"
    /\ IF ~isAuthorizedOperator(request) THEN Decline("unauthorized")
       ELSE IF ~parseRequest(request) THEN Decline("invalid_request")
       ELSE stage' = "parsing" /\ UNCHANGED response
    /\ UNCHANGED <<retrievalVars, request, parsed, baseline, validated>>

ParserAnswers(reply) ==
    /\ stage = "parsing"
    /\ parsed' = parseScenario(reply)
    /\ IF parsed' = <<>> THEN Decline("clarification_required")
       ELSE stage' = "loading" /\ UNCHANGED response
    /\ UNCHANGED <<retrievalVars, request, baseline, validated>>

\* The baseline arrives: validation and the rerun follow without an await.
\* The article set of the explanation is what triggered and what was applied.
BaselineLoaded(loaded, facts) ==
    LET result == validateScenario(parsed, loaded) IN
    /\ stage = "loading"
    /\ baseline' = loaded
    /\ validated' = result.assumptions
    /\ IF result.verdict = "valid"
       THEN /\ stage' = "citing"
            /\ wanted' = buildCitationArticleSet(facts.triggered, facts.formula)
            /\ UNCHANGED response
       ELSE /\ Decline(IF result.verdict = "threw" THEN "error" ELSE "clarification_required")
            /\ UNCHANGED wanted
    /\ UNCHANGED <<kb, chunks, citations, toFetch, failed, outcome, request, parsed>>

\* Loading, the rerun or an awaited call throws.
Throws ==
    /\ stage \in {"parsing", "loading", "citing", "explaining"}
    /\ Decline("error")
    /\ UNCHANGED <<retrievalVars, request, parsed, baseline, validated>>

Cite == stage = "citing" /\ Retrieve /\ UNCHANGED ownVars

\* Nothing could be quoted: the model is not asked.
CitationsUnavailable_Never == FALSE
CitationsUnavailable == outcome = "both_failed" /\ citations = <<>>

Cited ==
    /\ stage = "citing" /\ RetrievalDone
    /\ IF CitationsUnavailable THEN Respond("answered", citations, Template, "template")
       ELSE stage' = "explaining" /\ UNCHANGED response
    /\ UNCHANGED <<retrievalVars, request, parsed, baseline, validated>>

buildTemplateExplanationText == Template

QuotesFallback == \E i \in DOMAIN citations : citations[i].source = "s3_fallback"

explainWhatIf(reply) ==
    LET usable == Usable("EXPLANATION", reply) /\ EffectiveExplanation(reply.raw.fields)
        text == IF usable THEN FromModel(reply.raw.fields["explanation_text"].kind)
                ELSE buildTemplateExplanationText
    IN  Respond("answered", citations, ensureFallbackDisclosure(text, QuotesFallback),
                IF usable THEN "bedrock" ELSE "template")

Explain(reply) ==
    /\ stage = "explaining"
    /\ explainWhatIf(reply)
    /\ UNCHANGED <<retrievalVars, request, parsed, baseline, validated>>

Next ==
    \/ Receive
    \/ \E reply \in ParserReplies : ParserAnswers(reply)
    \/ \E loaded \in Catalogs, facts \in Facts : BaselineLoaded(loaded, facts)
    \/ Cite \/ Cited
    \/ \E reply \in Explanations : Explain(reply)
    \/ Throws

Spec == Init /\ [][Next]_vars
-----------------------------------------------------------------------------
Answered == response # NoValue /\ response.status = "answered"

\* A value the field can take, of the kind of entity that has the field.
FieldCanTake(v) ==
    CASE v.field = "Saturation_Score" ->
           v.entity.kind = "road_segment" /\ 0 <= v.value /\ v.value <= 100
      [] v.field = "User_Count" ->
           v.entity.kind = "base_station" /\ v.value >= 0 /\ v.value % 100 = 0
      [] v.field = "Growth_Rate" ->
           v.entity.kind = "base_station" /\ v.value >= -100 /\ v.value <= 1000
      [] v.field = "Roaming_User_Pct" ->
           v.entity.kind = "base_station" /\ 0 <= v.value /\ v.value <= 100
      [] OTHER -> FALSE

MeansOneThing(run, asked, loaded) ==
    \A i \in DOMAIN run :
        /\ run[i].entity \in loaded /\ FieldCanTake(run[i])
        /\ asked[i].value # run[i].value =>
              /\ run[i].field = "Roaming_User_Pct"
              /\ asked[i].value > 100 /\ asked[i].value = 100 * run[i].value
        /\ run[i].field = "Roaming_User_Pct" => asked[i].value # 100
        /\ \A j \in DOMAIN run :
              run[j].entity = run[i].entity /\ run[j].field = run[i].field => i = j

\* The rule engine is only run on assumptions that mean one thing: each is of
\* an entity the loaded baseline has and of a field such entities have, its
\* value is one the field can take and is what was asked, read as percent only
\* when it could not be a share, and no two contradict each other.  An answer
\* rests on such a run (validateScenario, between the model and recompute).
RerunMeansOneThing ==
    /\ Answered => validated # <<>>
    /\ MeansOneThing(validated, parsed, baseline)

\* An explanation is grounded: it quotes every article of the rerun that some
\* store had and no other, says so when one comes from the fallback, and is
\* the model's only if there was something to quote or nothing to be quoted
\* and the model wrote nothing but an explanation (explainWhatIf).
AnswerIsGrounded ==
    Answered =>
        /\ {response.citations[i].article : i \in DOMAIN response.citations} = wanted \ failed
        /\ (\E i \in DOMAIN response.citations : response.citations[i].source = "s3_fallback")
              => response.text.discloses
        /\ response.text.body # "blank"
        /\ response.source = "bedrock" => response.citations # <<>> \/ wanted = {}
        /\ response.text.body = "model" <=> response.source = "bedrock"
=============================================================================
