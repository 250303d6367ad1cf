---------------------------- MODULE WhatIfProofs ----------------------------
(***************************************************************************)
(* The safety of WhatIf for any requests, replies, baselines and reruns:   *)
(* what the rule engine is run on means one thing, and what is answered is *)
(* grounded.                                                               *)
(***************************************************************************)
EXTENDS WhatIf, RetrievalProofs

-----------------------------------------------------------------------------
(* The validation *)

\* What stage 1 lets through: a list of items, each with a value.
Complete(list) == IsItemList(list) /\ \A i \in DOMAIN list : list[i].value # NoValue

LEMMA ParsedIsComplete ==
    ASSUME NEW reply \in ParserReplies
    PROVE  Complete(parseScenario(reply))
<1>1. CASE parseScenario(reply) = <<>>
  BY <1>1 DEF Complete, IsItemList
<1>2. CASE parseScenario(reply) # <<>>
  <2>1. /\ parseScenario(reply) = reply.assumptions
        /\ \A i \in DOMAIN reply.assumptions : validateAssumption(reply.assumptions[i])
    BY <1>2 DEF parseScenario
  <2>2. \A i \in DOMAIN reply.assumptions : reply.assumptions[i].value # NoValue
    BY <2>1 DEF validateAssumption
  <2>3. QED
    BY <2>1, <2>2, ParserRepliesAssumption DEF Complete
<1>3. QED
  BY <1>1, <1>2

\* The percent scale changes the value of one field only, and only where it
\* cannot be a share.
LEMMA Normalized ==
    ASSUME NEW a, IsItem(a), a.value # NoValue, NEW v, v = normalizePercentScale(a)
    PROVE  /\ v.entity = a.entity /\ v.field = a.field /\ v.value \in Int
           /\ a.value # v.value => /\ v.field = "Roaming_User_Pct"
                                   /\ a.value > 100 /\ a.value = 100 * v.value
<1>1. CASE AcceptsPercent(a) /\ a.value > 100 /\ a.value <= 10000
  <2>1. v = [a EXCEPT !.value = a.value \div 100]
    BY <1>1 DEF normalizePercentScale
  <2>2. v.entity = a.entity /\ v.field = a.field /\ v.value = a.value \div 100
    BY <2>1 DEF IsItem
  <2>3. a.field = "Roaming_User_Pct"
    BY <1>1 DEF AcceptsPercent, FIELD_SPECS
  <2>4. a.value \in Int /\ a.value % 100 = 0
    <3>1. a.value \in Int
      BY DEF IsItem
    <3>2. QED
      BY <1>1, <2>3, <3>1 DEF IsItem
  <2>5. a.value = 100 * (a.value \div 100) /\ a.value \div 100 \in Int
    BY <2>4
  <2>6. QED
    BY <1>1, <2>2, <2>3, <2>5
<1>2. CASE ~(AcceptsPercent(a) /\ a.value > 100 /\ a.value <= 10000)
  BY <1>2 DEF normalizePercentScale, IsItem
<1>3. QED
  BY <1>1, <1>2

\* The domain of a field is what the field can take.
LEMMA DomainIsWhatItTakes ==
    ASSUME NEW v, v.value \in Int, v.field \in DOMAIN FIELD_SPECS, domainAccepts(v)
    PROVE  FieldCanTake(v)
<1>1. v.field \in {"Saturation_Score", "User_Count", "Growth_Rate", "Roaming_User_Pct"}
  BY DEF FIELD_SPECS
<1>2. CASE v.field = "Saturation_Score"
  BY <1>2 DEF domainAccepts, FIELD_SPECS, FieldCanTake
<1>3. CASE v.field = "User_Count"
  BY <1>3 DEF domainAccepts, FIELD_SPECS, FieldCanTake
<1>4. CASE v.field = "Growth_Rate"
  BY <1>4 DEF domainAccepts, FIELD_SPECS, FieldCanTake
<1>5. CASE v.field = "Roaming_User_Pct"
  BY <1>5 DEF domainAccepts, FIELD_SPECS, FieldCanTake
<1>6. QED
  BY <1>1, <1>2, <1>3, <1>4, <1>5

\* What validateScenario hands to the rule engine means one thing; it hands
\* over nothing but valid assumptions, and never an empty list of them.
LEMMA ValidMeansOneThing ==
    ASSUME NEW list, Complete(list), list # <<>>, NEW loaded,
           NEW result, result = validateScenario(list, loaded)
    PROVE  /\ MeansOneThing(result.assumptions, list, loaded)
           /\ result.verdict = "valid" => result.assumptions # <<>>
           /\ result.verdict # "valid" => result.assumptions = <<>>
<1> DEFINE normalized == [i \in DOMAIN list |-> normalizePercentScale(list[i])]
<1>1. CASE result = Clarify \/ result = Threw
  <2>1. result.assumptions = <<>> /\ result.verdict # "valid"
    BY <1>1 DEF Clarify, Threw
  <2>2. MeansOneThing(<<>>, list, loaded)
    BY DEF MeansOneThing
  <2>3. QED
    BY <2>1, <2>2
<1>2. CASE ~(result = Clarify \/ result = Threw)
  <2>1. /\ \A i \in DOMAIN list : /\ schemaAccepts(list[i], loaded)
                                  /\ ~UnitIsUnclear(list[i])
                                  /\ list[i].field \notin Inherited
        /\ \A i \in DOMAIN normalized : domainAccepts(normalized[i])
        /\ ~detectAmbiguity(normalized)
        /\ result = [verdict |-> "valid", assumptions |-> normalized]
    BY <1>2 DEF validateScenario
  <2>2. result.verdict = "valid" /\ result.assumptions = normalized
    BY <2>1
  <2>3. DOMAIN list # {}
    BY DEF Complete, IsItemList
  <2>4. normalized # <<>>
    BY <2>3
  <2>5. ASSUME NEW i \in DOMAIN normalized
        PROVE  /\ normalized[i].entity \in loaded /\ FieldCanTake(normalized[i])
               /\ list[i].value # normalized[i].value =>
                     /\ normalized[i].field = "Roaming_User_Pct"
                     /\ list[i].value > 100 /\ list[i].value = 100 * normalized[i].value
               /\ normalized[i].field = "Roaming_User_Pct" => list[i].value # 100
    <3> DEFINE a == list[i]
               v == normalizePercentScale(list[i])
    <3>1. i \in DOMAIN list /\ normalized[i] = v /\ IsItem(a) /\ a.value # NoValue
      BY DEF Complete, IsItemList
    <3>2. /\ v.entity = a.entity /\ v.field = a.field /\ v.value \in Int
          /\ a.value # v.value => /\ v.field = "Roaming_User_Pct"
                                  /\ a.value > 100 /\ a.value = 100 * v.value
      BY <3>1, Normalized
    <3>3. schemaAccepts(a, loaded) /\ ~UnitIsUnclear(a) /\ a.field \notin Inherited
          /\ domainAccepts(v)
      BY <2>1, <3>1
    <3> HIDE DEF v
    <3>4. v.field \in DOMAIN FIELD_SPECS /\ v.entity \in loaded
      BY <3>2, <3>3 DEF schemaAccepts
    <3>5. FieldCanTake(v)
      BY <3>2, <3>3, <3>4, DomainIsWhatItTakes
    <3>6. v.field = "Roaming_User_Pct" => a.value # 100
      BY <3>2, <3>3 DEF UnitIsUnclear, AcceptsPercent, FIELD_SPECS
    <3>7. QED
      BY <3>1, <3>2, <3>4, <3>5, <3>6
  <2>6. ASSUME NEW i \in DOMAIN normalized, NEW j \in DOMAIN normalized,
               normalized[j].entity = normalized[i].entity,
               normalized[j].field = normalized[i].field
        PROVE  i = j
    BY <2>1, <2>6 DEF detectAmbiguity
  <2> HIDE DEF normalized
  <2>7. MeansOneThing(normalized, list, loaded)
    BY <2>5, <2>6 DEF MeansOneThing
  <2>8. QED
    BY <2>2, <2>4, <2>7
<1>3. QED
  BY <1>1, <1>2

-----------------------------------------------------------------------------
(* The handler *)

\* A run exists from the end of the validation on, and is never empty there;
\* the retrieval has not begun before it.
RunBeforeAnswer ==
    /\ stage \in {"arrived", "parsing", "loading", "citing", "explaining", "done"}
    /\ Complete(parsed)
    /\ stage \in {"arrived", "parsing", "loading"} =>
          validated = <<>> /\ kb = "pending" /\ outcome = "pending"
    /\ stage = "loading" => parsed # <<>>
    /\ stage \in {"citing", "explaining"} => validated # <<>>
    /\ stage = "explaining" => RetrievalDone /\ ~CitationsUnavailable
    /\ response # NoValue => stage = "done"
    /\ Answered => RetrievalDone /\ validated # <<>>
    /\ MeansOneThing(validated, parsed, baseline)

\* An answer carries the citations of the retrieval, and a text that goes with
\* them.
Grounded ==
    Answered =>
        /\ response.citations = citations
        /\ QuotesFallback => response.text.discloses
        /\ response.text.body # "blank"
        /\ response.source = "bedrock" => ~CitationsUnavailable
        /\ response.text.body = "model" <=> response.source = "bedrock"

AnswerInv == RetrievalInv /\ RunBeforeAnswer /\ Grounded

LEMMA InitAnswerInv == Init => AnswerInv
<1>1. SUFFICES ASSUME Init PROVE AnswerInv
  OBVIOUS
<1>2. RetrievalInv
  BY <1>1, RetrievalInvStarts DEF Init
<1>3. Complete(<<>>) /\ MeansOneThing(<<>>, <<>>, {})
  BY DEF Complete, IsItemList, MeansOneThing
<1>4. ~Answered /\ response = NoValue
  BY <1>1 DEF Init, Answered
<1>5. QED
  BY <1>1, <1>2, <1>3, <1>4 DEF Init, RetrievalInit, AnswerInv, RunBeforeAnswer, Grounded

\* A step that declines, or goes on to the next await, answers nothing.
LEMMA NothingAnswered ==
    ASSUME AnswerInv, stage # "done",
           \/ UNCHANGED response
           \/ \E status : status # "answered" /\ Decline(status)
    PROVE  ~Answered' /\ (response' # NoValue => stage' = "done")
<1>1. response = NoValue
  BY DEF AnswerInv, RunBeforeAnswer
<1>2. CASE UNCHANGED response
  BY <1>1, <1>2 DEF Answered
<1>3. ASSUME NEW status, status # "answered", Decline(status)
      PROVE  ~Answered' /\ stage' = "done"
  BY <1>3 DEF Decline, Respond, Answered
<1>4. QED
  BY <1>1, <1>2, <1>3

LEMMA StepReceive == ASSUME AnswerInv, Receive PROVE AnswerInv'
<1>1. /\ stage = "arrived" /\ UNCHANGED retrievalVars
      /\ UNCHANGED <<request, parsed, baseline, validated>>
      /\ \/ stage' = "parsing" /\ UNCHANGED response
         \/ \E status : status # "answered" /\ Decline(status)
  BY DEF Receive
<1>2. stage' \in {"parsing", "done"}
  BY <1>1 DEF Decline, Respond
<1>3. ~Answered' /\ (response' # NoValue => stage' = "done")
  BY <1>1, NothingAnswered
<1>4. RetrievalInv' /\ UNCHANGED <<kb, outcome>>
  BY <1>1, RetrievalInvStutters DEF AnswerInv, retrievalVars
<1>5. QED
  BY <1>1, <1>2, <1>3, <1>4 DEF AnswerInv, RunBeforeAnswer, Grounded

LEMMA StepParserAnswers ==
    ASSUME AnswerInv, NEW reply \in ParserReplies, ParserAnswers(reply) PROVE AnswerInv'
<1>1. /\ stage = "parsing" /\ parsed' = parseScenario(reply) /\ UNCHANGED retrievalVars
      /\ UNCHANGED <<request, baseline, validated>>
      /\ \/ parsed' # <<>> /\ stage' = "loading" /\ UNCHANGED response
         \/ \E status : status # "answered" /\ Decline(status)
  BY DEF ParserAnswers
<1>2. stage' = "done" \/ (stage' = "loading" /\ parsed' # <<>>)
  BY <1>1 DEF Decline, Respond
<1>3. ~Answered' /\ (response' # NoValue => stage' = "done")
  BY <1>1, NothingAnswered
<1>4. RetrievalInv' /\ UNCHANGED <<kb, outcome>>
  BY <1>1, RetrievalInvStutters DEF AnswerInv, retrievalVars
<1>5. Complete(parsed')
  BY <1>1, ParsedIsComplete
<1>6. validated' = <<>> /\ MeansOneThing(validated', parsed', baseline')
  BY <1>1 DEF AnswerInv, RunBeforeAnswer, MeansOneThing
<1>7. QED
  BY <1>1, <1>2, <1>3, <1>4, <1>5, <1>6 DEF AnswerInv, RunBeforeAnswer, Grounded

LEMMA StepBaselineLoaded ==
    ASSUME AnswerInv, NEW loaded, NEW facts \in Facts, BaselineLoaded(loaded, facts)
    PROVE  AnswerInv'
<1> DEFINE result == validateScenario(parsed, loaded)
<1>1. /\ stage = "loading" /\ baseline' = loaded /\ validated' = result.assumptions
      /\ UNCHANGED <<kb, chunks, citations, toFetch, failed, outcome>>
      /\ UNCHANGED <<request, parsed>>
      /\ \/ /\ result.verdict = "valid" /\ stage' = "citing" /\ UNCHANGED response
            /\ wanted' = buildCitationArticleSet(facts.triggered, facts.formula)
         \/ /\ result.verdict # "valid" /\ UNCHANGED wanted
            /\ \E status : status # "answered" /\ Decline(status)
  BY DEF BaselineLoaded
<1>2. /\ Complete(parsed) /\ parsed # <<>> /\ kb = "pending" /\ outcome = "pending"
  BY <1>1 DEF AnswerInv, RunBeforeAnswer
<1>3. /\ MeansOneThing(validated', parsed', baseline')
      /\ result.verdict = "valid" => validated' # <<>>
  BY <1>1, <1>2, ValidMeansOneThing
<1> HIDE DEF result
<1>4. wanted' \in SUBSET SopArticles
  BY <1>1, FactsAssumption
     DEF buildCitationArticleSet, AnswerInv, RetrievalInv, RetrievalTypeOK
<1>5. RetrievalInv'
  BY <1>1, <1>2, <1>4, RetrievalInvWanted DEF AnswerInv
<1>6. stage' = "done" \/ (stage' = "citing" /\ validated' # <<>>)
  BY <1>1, <1>3 DEF Decline, Respond
<1>7. ~Answered' /\ (response' # NoValue => stage' = "done")
  BY <1>1, NothingAnswered
<1>8. QED
  BY <1>1, <1>2, <1>3, <1>5, <1>6, <1>7 DEF AnswerInv, RunBeforeAnswer, Grounded

LEMMA StepThrows == ASSUME AnswerInv, Throws PROVE AnswerInv'
<1>1. /\ stage # "done" /\ Decline("error") /\ UNCHANGED retrievalVars
      /\ UNCHANGED <<request, parsed, baseline, validated>>
  BY DEF Throws
<1>2. stage' = "done"
  BY <1>1 DEF Decline, Respond
<1>3. ~Answered' /\ (response' # NoValue => stage' = "done")
  BY <1>1, NothingAnswered
<1>4. RetrievalInv'
  BY <1>1, RetrievalInvStutters DEF AnswerInv
<1>5. QED
  BY <1>1, <1>2, <1>3, <1>4 DEF AnswerInv, RunBeforeAnswer, Grounded

LEMMA StepCite == ASSUME AnswerInv, Cite PROVE AnswerInv'
<1>1. stage = "citing" /\ Retrieve /\ UNCHANGED <<request, stage, parsed, baseline, validated, response>>
  BY DEF Cite, ownVars
<1>2. RetrievalInv'
  BY <1>1, RetrievalInvKept DEF AnswerInv
<1>3. response = NoValue /\ ~Answered'
  BY <1>1 DEF AnswerInv, RunBeforeAnswer, Answered
<1>4. QED
  BY <1>1, <1>2, <1>3 DEF AnswerInv, RunBeforeAnswer, Grounded

LEMMA StepCited == ASSUME AnswerInv, Cited PROVE AnswerInv'
<1>1. /\ stage = "citing" /\ RetrievalDone /\ UNCHANGED retrievalVars
      /\ UNCHANGED <<request, parsed, baseline, validated>>
  BY DEF Cited
<1>2. RetrievalInv' /\ UNCHANGED <<kb, outcome, citations>>
  BY <1>1, RetrievalInvStutters DEF AnswerInv, retrievalVars
<1>3. response = NoValue /\ ~Answered /\ validated # <<>>
  BY <1>1 DEF AnswerInv, RunBeforeAnswer, Answered
<1>4. CASE CitationsUnavailable
  <2>1. /\ stage' = "done" /\ citations = <<>>
        /\ response' = [status |-> "answered", citations |-> citations,
                        text |-> Template, source |-> "template"]
    BY <1>4 DEF Cited, Respond, CitationsUnavailable
  <2>2. ~QuotesFallback'
    BY <1>2, <2>1 DEF QuotesFallback
  <2>3. Grounded'
    BY <1>2, <2>1, <2>2 DEF Grounded, Template
  <2>4. RunBeforeAnswer'
    BY <1>1, <1>2, <1>3, <2>1 DEF AnswerInv, RunBeforeAnswer, RetrievalDone
  <2>5. QED
    BY <1>2, <2>3, <2>4 DEF AnswerInv
<1>5. CASE ~CitationsUnavailable
  <2>1. stage' = "explaining" /\ response' = NoValue /\ ~Answered'
    BY <1>3, <1>5 DEF Cited, Answered
  <2>2. RetrievalDone' /\ ~CitationsUnavailable'
    BY <1>1, <1>2, <1>5 DEF RetrievalDone, CitationsUnavailable
  <2>3. QED
    BY <1>1, <1>2, <1>3, <2>1, <2>2 DEF AnswerInv, RunBeforeAnswer, Grounded
<1>6. QED
  BY <1>4, <1>5

\* The text of an answer the model was asked for.
LEMMA ExplainedText ==
    ASSUME NEW reply, explainWhatIf(reply)
    PROVE  /\ stage' = "done" /\ response'.status = "answered"
           /\ response'.citations = citations
           /\ QuotesFallback => response'.text.discloses
           /\ response'.text.body # "blank"
           /\ response'.text.body = "model" <=> response'.source = "bedrock"
<1> DEFINE usable == Usable("EXPLANATION", reply) /\ EffectiveExplanation(reply.raw.fields)
           kind == reply.raw.fields["explanation_text"].kind
           text == IF usable THEN FromModel(kind) ELSE buildTemplateExplanationText
           source == IF usable THEN "bedrock" ELSE "template"
<1>1. /\ stage' = "done"
      /\ response' = [status |-> "answered", citations |-> citations,
                      text |-> ensureFallbackDisclosure(text, QuotesFallback), source |-> source]
  BY DEF explainWhatIf, Respond
<1>2. usable => kind # "blank"
  BY DEF EffectiveExplanation
<1> HIDE DEF usable, kind
<1>3. /\ text = [body |-> text.body, discloses |-> text.discloses]
      /\ text.body = IF usable THEN "model" ELSE "template"
  BY <1>2 DEF FromModel, buildTemplateExplanationText, Template
<1> HIDE DEF text
<1>4. /\ ensureFallbackDisclosure(text, QuotesFallback).body = text.body
      /\ QuotesFallback => ensureFallbackDisclosure(text, QuotesFallback).discloses
  BY <1>3 DEF ensureFallbackDisclosure
<1>5. QED
  BY <1>1, <1>3, <1>4

LEMMA StepExplain == ASSUME AnswerInv, NEW reply, Explain(reply) PROVE AnswerInv'
<1>1. /\ stage = "explaining" /\ explainWhatIf(reply) /\ UNCHANGED retrievalVars
      /\ UNCHANGED <<request, parsed, baseline, validated>>
  BY DEF Explain
<1>2. RetrievalInv' /\ UNCHANGED <<kb, outcome, citations>>
  BY <1>1, RetrievalInvStutters DEF AnswerInv, retrievalVars
<1>3. /\ stage' = "done" /\ response'.citations = citations
      /\ QuotesFallback => response'.text.discloses
      /\ response'.text.body # "blank"
      /\ response'.text.body = "model" <=> response'.source = "bedrock"
  BY <1>1, ExplainedText
<1>4. /\ validated # <<>> /\ RetrievalDone' /\ ~CitationsUnavailable'
      /\ QuotesFallback' <=> QuotesFallback
  BY <1>1, <1>2 DEF AnswerInv, RunBeforeAnswer, RetrievalDone, CitationsUnavailable, QuotesFallback
<1>5. Grounded'
  BY <1>2, <1>3, <1>4 DEF Grounded
<1>6. RunBeforeAnswer'
  BY <1>1, <1>3, <1>4 DEF AnswerInv, RunBeforeAnswer
<1>7. QED
  BY <1>2, <1>5, <1>6 DEF AnswerInv

LEMMA NextAnswerInv == AnswerInv /\ [Next]_vars => AnswerInv'
<1>1. SUFFICES ASSUME AnswerInv, [Next]_vars PROVE AnswerInv'
  OBVIOUS
<1>2. CASE Next
  BY <1>1, <1>2, StepReceive, StepParserAnswers, StepBaselineLoaded, StepCite, StepCited,
     StepExplain, StepThrows DEF Next
<1>3. CASE UNCHANGED vars
  <2>1. UNCHANGED retrievalVars /\ UNCHANGED ownVars
    BY <1>3 DEF vars, retrievalVars, ownVars
  <2>2. RetrievalInv'
    BY <1>1, <2>1, RetrievalInvStutters DEF AnswerInv
  <2>3. RunBeforeAnswer' /\ Grounded'
    BY <1>1, <2>1 DEF AnswerInv, RunBeforeAnswer, Grounded, Answered, RetrievalDone,
                      CitationsUnavailable, QuotesFallback, retrievalVars, ownVars
  <2>4. QED
    BY <2>2, <2>3 DEF AnswerInv
<1>4. QED
  BY <1>1, <1>2, <1>3

LEMMA AnswerInvariant == Spec => []AnswerInv
  BY InitAnswerInv, NextAnswerInv, PTL DEF Spec

-----------------------------------------------------------------------------
(* The theorems *)

\* validateScenario: the rule engine is run on assumptions that mean one
\* thing, and an answer rests on such a run.
THEOREM RerunsMeanOneThing == Spec => []RerunMeansOneThing
<1>1. AnswerInv => RerunMeansOneThing
  BY DEF AnswerInv, RunBeforeAnswer, RerunMeansOneThing
<1>2. QED
  BY <1>1, AnswerInvariant, PTL

\* explainWhatIf: an answer quotes every article of the rerun some store had
\* and no other, discloses the fallback, and is the model's only if there was
\* something to quote or nothing to be quoted.
THEOREM AnswersAreGrounded == Spec => []AnswerIsGrounded
<1>1. ASSUME AnswerInv, Answered
      PROVE  /\ {response.citations[i].article : i \in DOMAIN response.citations} = wanted \ failed
             /\ response.source = "bedrock" => response.citations # <<>> \/ wanted = {}
  <2>1. /\ CitationsAccountedFor /\ RetrievalDone /\ response.citations = citations
        /\ response.source = "bedrock" => ~CitationsUnavailable
    BY <1>1, RetrievalInvAccounts DEF AnswerInv, RunBeforeAnswer, Grounded
  <2>2. {citations[i].article : i \in DOMAIN citations} = wanted \ failed
    BY <2>1 DEF CitationsAccountedFor, Range
  <2>3. ASSUME response.source = "bedrock", citations = <<>> PROVE wanted = {}
    BY <2>1, <2>2, <2>3 DEF CitationsUnavailable, CitationsAccountedFor
  <2>4. QED
    BY <2>1, <2>2, <2>3
<1>2. AnswerInv => AnswerIsGrounded
  BY <1>1 DEF AnswerInv, Grounded, QuotesFallback, AnswerIsGrounded
<1>3. QED
  BY <1>2, AnswerInvariant, PTL
=============================================================================
