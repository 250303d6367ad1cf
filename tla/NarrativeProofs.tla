--------------------------- MODULE NarrativeProofs --------------------------
(***************************************************************************)
(* The safety of NarrativeBranch for any citation sets, any replies of the *)
(* models, any number of models and any timeouts: RetrievalProofs gives    *)
(* the citations, this module the calls and what is stored.                *)
(***************************************************************************)
EXTENDS NarrativeBranch, RetrievalProofs

-----------------------------------------------------------------------------
(* The calls *)

\* A request is open only while its answer is awaited, it is the one of the
\* current model, and its timer is not past, nor beyond the budget.
OneCallAtATime ==
    /\ phase # "waiting" => open = {}
    /\ phase = "waiting" => /\ open = {model} /\ model <= Models
                            /\ clock <= due /\ due <= deadline

InvokeInv == InvokeTypeOK /\ OneCallAtATime

LEMMA InvokeInvStarts == InvokeInit => InvokeInv
  BY ModelsAssumption, TimeAssumption DEF InvokeInit, InvokeInv, InvokeTypeOK, OneCallAtATime, Reasons

\* The timer of a call is set inside what is left of the budget.
LEMMA TimerWithinBudget ==
    ASSUME InvokeInv, TryModel
    PROVE  due' \in Nat /\ clock <= due' /\ due' <= deadline
<1>1. clock \in Nat /\ deadline \in Nat /\ clock < deadline /\ PerCall \in Nat
  BY TimeAssumption DEF InvokeInv, InvokeTypeOK, TryModel
<1>2. CASE deadline - clock < PerCall
  BY <1>1, <1>2 DEF TryModel, CallTimeout
<1>3. CASE ~(deadline - clock < PerCall)
  BY <1>1, <1>3 DEF TryModel, CallTimeout
<1>4. QED
  BY <1>2, <1>3

LEMMA InvokeInvKept ==
    ASSUME InvokeInv, Ask \/ InvokeProgress \/ Answer \/ Tick
    PROVE  InvokeInv'
<1> USE ModelsAssumption, TimeAssumption
<1>1. CASE Ask
  BY <1>1 DEF InvokeInv, InvokeTypeOK, OneCallAtATime, Ask, StartInvoke
<1>2. CASE TryModel
  <2>1. due' \in Nat /\ clock <= due' /\ due' <= deadline
    BY <1>2, TimerWithinBudget
  <2>2. /\ phase = "next" /\ model <= Models /\ phase' = "waiting" /\ open' = open \cup {model}
        /\ UNCHANGED <<clock, deadline, model, lastReason, answer>>
    BY <1>2 DEF TryModel
  <2>3. /\ clock \in 0..MaxClock /\ deadline \in Nat /\ model \in 1..(Models + 1)
        /\ lastReason \in Reasons /\ open = {} /\ model \in 1..Models
    BY <2>2 DEF InvokeInv, InvokeTypeOK, OneCallAtATime
  <2>4. InvokeTypeOK'
    BY <2>1, <2>2, <2>3 DEF InvokeTypeOK
  <2>5. OneCallAtATime'
    BY <2>1, <2>2, <2>3 DEF OneCallAtATime
  <2>6. QED
    BY <2>4, <2>5 DEF InvokeInv
<1>3. CASE BudgetExhausted \/ ListExhausted
  BY <1>3 DEF InvokeInv, InvokeTypeOK, OneCallAtATime, BudgetExhausted, ListExhausted, GiveUp
<1>4. CASE CallTimesOut
  BY <1>4 DEF InvokeInv, InvokeTypeOK, OneCallAtATime, CallTimesOut, Fails, Reasons
<1>5. ASSUME NEW raw, ModelAnswers(raw) PROVE InvokeInv'
  BY <1>5 DEF InvokeInv, InvokeTypeOK, OneCallAtATime, ModelAnswers
<1>6. ASSUME NEW reason \in Reasons, ModelFails(reason) PROVE InvokeInv'
  BY <1>6 DEF InvokeInv, InvokeTypeOK, OneCallAtATime, ModelFails, Fails
<1>7. CASE Tick
  BY <1>7 DEF InvokeInv, InvokeTypeOK, OneCallAtATime, Tick
<1>8. QED
  BY <1>1, <1>2, <1>3, <1>4, <1>5, <1>6, <1>7 DEF InvokeProgress, Answer

LEMMA InvokeInvStutters == ASSUME InvokeInv, UNCHANGED invokeVars PROVE InvokeInv'
  BY DEF InvokeInv, InvokeTypeOK, OneCallAtATime, invokeVars

-----------------------------------------------------------------------------
(* What the composers make of any reply *)

\* A text of an alert: of each required language one, never a blank one.
LEMMA AlertTexts ==
    ASSUME NEW required, NEW reply, NEW p, p = composePublicAlert(required, reply)
    PROVE  DOMAIN p.texts = required /\ \A l \in required : p.texts[l].body # "blank"
<1> DEFINE langs == reply.raw.fields["public_alert_text"].langs
           usable == Usable("PUBLIC_ALERT", reply) /\ filterToRequiredLanguages(langs, required)
<1>1. p.texts = IF usable THEN [l \in required \cap DOMAIN langs |-> FromModel(langs[l])]
                ELSE renderMultilingualTemplates(required)
  BY DEF composePublicAlert
<1> HIDE DEF langs
<1>2. CASE usable
  <2>1. \A l \in required : l \in DOMAIN langs /\ langs[l] # "blank"
    BY <1>2 DEF filterToRequiredLanguages
  <2>2. QED
    BY <1>1, <1>2, <2>1 DEF FromModel
<1>3. CASE ~usable
  <2> HIDE DEF usable
  <2>1. QED
    BY <1>1, <1>3 DEF renderMultilingualTemplates, Template
<1>4. QED
  BY <1>2, <1>3

\* The text of an explanation: never blank, and it discloses a fallback.
LEMMA ExplanationText ==
    ASSUME NEW cites, NEW reply, NEW p, p = composeExplanation(cites, reply)
    PROVE  /\ p.texts.explanation.body # "blank"
           /\ (\E i \in DOMAIN cites : cites[i].source = "s3_fallback")
                => p.texts.explanation.discloses
<1> DEFINE fields == reply.raw.fields
           usable == Usable("EXPLANATION", reply) /\ EffectiveExplanation(fields)
           text == IF usable THEN FromModel(fields["explanation_text"].kind)
                   ELSE buildTemplateExplanation
           fallback == \E i \in DOMAIN cites : cites[i].source = "s3_fallback"
<1>1. p.texts.explanation = ensureFallbackDisclosure(text, fallback)
  BY DEF composeExplanation
<1>2. usable => fields["explanation_text"].kind # "blank"
  BY DEF EffectiveExplanation
<1> HIDE DEF fields, usable
<1>3. /\ text.body # "blank" /\ "discloses" \in DOMAIN text
      /\ text = [body |-> text.body, discloses |-> text.discloses]
  BY <1>2 DEF FromModel, buildTemplateExplanation, Template
<1> HIDE DEF text, fallback
<1>4. /\ p.texts.explanation.body = text.body
      /\ fallback => p.texts.explanation.discloses
  BY <1>1, <1>3 DEF ensureFallbackDisclosure
<1>5. QED
  BY <1>3, <1>4 DEF fallback

\* A reply that oversteps is not usable for any narrative type.
Oversteps(t, raw) == ~raw.plain \/ ~(DOMAIN raw.fields \subseteq AllowedFields[t])

LEMMA OverstepIsUnusable ==
    ASSUME NEW t, NEW reply, Oversteps(t, reply.raw)
    PROVE  ~Usable(t, reply)
  BY DEF Oversteps, Usable, validateBedrockPayload, Rejected

LEMMA OverstepLeavesTemplate ==
    ASSUME NEW t \in NarrativeTypes, NEW cites, NEW required, NEW reply,
           Oversteps(t, reply.raw),
           NEW p, p = renderNarrativeBranch(t, cites, required, reply)
    PROVE  /\ p.source = "template" /\ ~p.cms
           /\ \A k \in DOMAIN p.texts : p.texts[k].body = "template"
<1>1. ~Usable(t, reply)
  BY OverstepIsUnusable
<1>2. CASE t = "REPORT"
  <2>1. p = composeReport(cites, reply)
    BY <1>2 DEF renderNarrativeBranch
  <2>2. ~Usable("REPORT", reply)
    BY <1>1, <1>2
  <2>3. p.source = "template"
    BY <2>1, <2>2 DEF composeReport
  <2>4. ~p.cms
    <3> DEFINE given(k) == Usable("REPORT", reply) /\ k \in DOMAIN reply.raw.fields
               report == IF given("report_text")
                         THEN FromModel(reply.raw.fields["report_text"].kind) ELSE Template
               presents == [i \in DOMAIN cites |-> <<cites[i].article, cites[i].source>>]
               source == IF Usable("REPORT", reply) THEN "bedrock" ELSE "template"
    <3>1. p = [texts |-> [report |-> report], cms |-> given("cms_explanation_text"),
               presents |-> presents, source |-> source]
      BY <2>1 DEF composeReport, buildTemplateReport
    <3>2. ~given("cms_explanation_text")
      BY <2>2
    <3> HIDE DEF report, presents, source, given
    <3>3. p.cms = given("cms_explanation_text")
      BY <3>1
    <3>4. QED
      BY <3>2, <3>3
  <2>5. p.texts = [report |-> Template]
    BY <2>1, <2>2 DEF composeReport, buildTemplateReport
  <2>6. QED
    BY <2>3, <2>4, <2>5 DEF Template
<1>3. CASE t = "PUBLIC_ALERT"
  BY <1>1, <1>3 DEF renderNarrativeBranch, composePublicAlert, renderMultilingualTemplates, Template
<1>4. CASE t = "EXPLANATION"
  BY <1>1, <1>4 DEF renderNarrativeBranch, composeExplanation, buildTemplateExplanation,
                    ensureFallbackDisclosure, Template
<1>5. QED
  BY <1>2, <1>3, <1>4 DEF NarrativeTypes

-----------------------------------------------------------------------------
(* The branch *)

\* The models are asked when the citations are there, and what is stored was
\* composed from the citations and the answer that are still there.
ComposedAtTheEnd ==
    /\ phase # "idle" => RetrievalDone
    /\ Stored => /\ phase = "done"
                 /\ payload = renderNarrativeBranch(type, citations, languages, answer)

InputsOK == type \in NarrativeTypes /\ languages \subseteq Languages

BranchInv == RetrievalInv /\ InvokeInv /\ InputsOK /\ ComposedAtTheEnd

LEMMA InitBranchInv == Init => BranchInv
<1>1. SUFFICES ASSUME Init PROVE BranchInv
  OBVIOUS
<1>2. PICK sop6 \in BOOLEAN, bonus \in BOOLEAN : languages = RequiredLanguages(sop6, bonus)
  BY <1>1 DEF Init
<1>3. InputsOK
  BY <1>1, <1>2 DEF Init, InputsOK, RequiredLanguages, Languages
<1>4. PICK articles \in ArticleSets : RetrievalInit(articles)
  BY <1>1 DEF Init
<1>5. RetrievalInv
  BY <1>4, ArticleSetsAssumption, RetrievalInvStarts
<1>6. InvokeInv
  BY <1>1, InvokeInvStarts DEF Init
<1>7. ComposedAtTheEnd
  BY <1>1 DEF Init, InvokeInit, ComposedAtTheEnd, Stored
<1>8. QED
  BY <1>3, <1>5, <1>6, <1>7 DEF BranchInv

LEMMA NextBranchInv == BranchInv /\ [Next]_vars => BranchInv'
<1>1. SUFFICES ASSUME BranchInv, [Next]_vars PROVE BranchInv'
  OBVIOUS
<1> USE <1>1 DEF BranchInv
<1>2. CASE Cite
  <2>1. /\ Retrieve /\ UNCHANGED invokeVars /\ UNCHANGED <<type, languages, payload>>
    BY <1>2 DEF Cite, inputs
  <2>2. RetrievalInv' /\ InvokeInv'
    BY <2>1, RetrievalInvKept, InvokeInvStutters
  <2>3. outcome = "pending"
    BY <2>1 DEF Retrieve, NothingToCite, KbAnswer, KbThrows, S3Fetched, S3Failed
  <2>4. phase = "idle" /\ phase' = "idle" /\ ~Stored'
    BY <2>1, <2>3 DEF ComposedAtTheEnd, RetrievalDone, Stored, invokeVars
  <2>5. QED
    BY <2>1, <2>2, <2>4 DEF InputsOK, ComposedAtTheEnd
<1>3. CASE Invoke
  <2>1. /\ Ask \/ InvokeProgress \/ Answer \/ Tick
        /\ UNCHANGED retrievalVars /\ UNCHANGED <<type, languages, payload>>
    BY <1>3 DEF Invoke, inputs
  <2>2. RetrievalInv' /\ InvokeInv'
    BY <2>1, RetrievalInvStutters, InvokeInvKept
  <2>3. phase # "done" /\ (phase = "idle" => RetrievalDone)
    BY <2>1 DEF Ask, StartInvoke, InvokeProgress, TryModel, BudgetExhausted, ListExhausted,
                CallTimesOut, Answer, ModelAnswers, ModelFails, Tick
  <2>4. RetrievalDone' /\ ~Stored'
    BY <2>1, <2>3 DEF ComposedAtTheEnd, RetrievalDone, Stored, retrievalVars
  <2>5. QED
    BY <2>1, <2>2, <2>4 DEF InputsOK, ComposedAtTheEnd
<1>4. CASE Compose
  <2>1. /\ phase = "done"
        /\ payload' = renderNarrativeBranch(type, citations, languages, answer)
        /\ UNCHANGED retrievalVars /\ UNCHANGED invokeVars /\ UNCHANGED <<type, languages>>
    BY <1>4 DEF Compose, inputs
  <2>2. RetrievalInv' /\ InvokeInv'
    BY <2>1, RetrievalInvStutters, InvokeInvStutters
  <2>3. /\ phase' = phase /\ answer' = answer /\ citations' = citations /\ outcome' = outcome
    BY <2>1 DEF retrievalVars, invokeVars
  <2>4. payload' = renderNarrativeBranch(type', citations', languages', answer')
    BY <2>1, <2>3
  <2>5. QED
    BY <2>1, <2>2, <2>3, <2>4 DEF InputsOK, ComposedAtTheEnd, RetrievalDone
<1>5. CASE UNCHANGED vars
  <2>1. UNCHANGED retrievalVars /\ UNCHANGED invokeVars /\ UNCHANGED <<type, languages, payload>>
    BY <1>5 DEF vars, retrievalVars, invokeVars
  <2>2. RetrievalInv' /\ InvokeInv'
    BY <2>1, RetrievalInvStutters, InvokeInvStutters
  <2>3. /\ phase' = phase /\ answer' = answer /\ citations' = citations /\ outcome' = outcome
    BY <2>1 DEF retrievalVars, invokeVars
  <2>4. renderNarrativeBranch(type', citations', languages', answer')
        = renderNarrativeBranch(type, citations, languages, answer)
    BY <2>1, <2>3
  <2>5. QED
    BY <2>1, <2>2, <2>3, <2>4 DEF InputsOK, ComposedAtTheEnd, RetrievalDone, Stored
<1>6. QED
  BY <1>2, <1>3, <1>4, <1>5 DEF Next

LEMMA BranchInvariant == Spec => []BranchInv
  BY InitBranchInv, NextBranchInv, PTL DEF Spec

-----------------------------------------------------------------------------
(* The theorems *)

\* Every variable of the branch keeps its type, whatever the stores and the
\* models do.
THEOREM TypeCorrectness == Spec => []TypeOK
<1>1. BranchInv => TypeOK
  BY DEF BranchInv, RetrievalInv, InvokeInv, InputsOK, TypeOK
<1>2. QED
  BY <1>1, BranchInvariant, PTL

\* retrieve: in the end every article of the set is cited once or reported as
\* a gap, in order, and the outcome tells which.
THEOREM CitationsAreAccountedFor == Spec => []CitationsAccountedFor
<1>1. BranchInv => CitationsAccountedFor
  BY RetrievalInvAccounts DEF BranchInv
<1>2. QED
  BY <1>1, BranchInvariant, PTL

\* mapKbResultsToCitations: a citation from the knowledge base is the best
\* chunk of its own article.
THEOREM CitationsAreTheBest == Spec => []CitationIsBestOfItsArticle
<1>1. BranchInv => CitationIsBestOfItsArticle
  BY RetrievalInvQuotes DEF BranchInv
<1>2. QED
  BY <1>1, BranchInvariant, PTL

\* BedrockAdapter.invoke: no request is open past the budget, and no two are
\* open at once.
THEOREM RequestsAreBounded == Spec => []CallsAreBounded
<1>1. ASSUME BranchInv, open # {} PROVE clock <= deadline /\ open = {model}
  <2>1. clock \in Nat /\ due \in Nat /\ deadline \in Nat
    BY <1>1, TimeAssumption DEF BranchInv, InvokeInv, InvokeTypeOK
  <2>2. clock <= due /\ due <= deadline /\ open = {model}
    BY <1>1 DEF BranchInv, InvokeInv, OneCallAtATime
  <2>3. QED
    BY <2>1, <2>2
<1>2. BranchInv => CallsAreBounded
  BY <1>1 DEF CallsAreBounded
<1>3. QED
  BY <1>2, BranchInvariant, PTL

\* composePublicAlert: a stored alert has the required languages, no other and
\* no blank one.
THEOREM AlertsSpeakEveryLanguage == Spec => []AlertSpeaksEveryLanguage
<1>1. ASSUME BranchInv, Stored, type = "PUBLIC_ALERT"
      PROVE  /\ DOMAIN payload.texts = languages
             /\ \A l \in DOMAIN payload.texts : payload.texts[l].body # "blank"
  <2>1. payload = composePublicAlert(languages, answer)
    BY <1>1 DEF BranchInv, ComposedAtTheEnd, renderNarrativeBranch
  <2>2. QED
    BY <2>1, AlertTexts
<1>2. BranchInv => AlertSpeaksEveryLanguage
  BY <1>1 DEF AlertSpeaksEveryLanguage
<1>3. QED
  BY <1>2, BranchInvariant, PTL

\* composeExplanation: a stored explanation is not blank, and discloses every
\* quotation of the fallback.
THEOREM ExplanationsDisclose == Spec => []ExplanationDiscloses
<1>1. ASSUME BranchInv, Stored, type = "EXPLANATION"
      PROVE  /\ payload.texts.explanation.body # "blank"
             /\ (\E a \in wanted \ failed : \A i \in DOMAIN citations :
                      citations[i].article = a => citations[i].source = "s3_fallback")
                => payload.texts.explanation.discloses
  <2>1. payload = composeExplanation(citations, answer)
    BY <1>1 DEF BranchInv, ComposedAtTheEnd, renderNarrativeBranch
  <2>2. RetrievalDone /\ CitationsAccountedFor
    BY <1>1, RetrievalInvAccounts DEF BranchInv, InvokeInv, ComposedAtTheEnd
  <2>3. ASSUME NEW a \in wanted \ failed
        PROVE  \E i \in DOMAIN citations : citations[i].article = a
    BY <2>2 DEF CitationsAccountedFor, Range
  <2>4. QED
    BY <2>1, <2>3, ExplanationText
<1>2. BranchInv => ExplanationDiscloses
  BY <1>1 DEF ExplanationDiscloses
<1>3. QED
  BY <1>2, BranchInvariant, PTL

\* validateBedrockPayload: of a reply that oversteps the fields of its type
\* nothing is stored.
THEOREM OverreachIsDropped == Spec => []OverreachLeavesNoTrace
<1>1. ASSUME BranchInv, Stored, Oversteps(type, answer.raw)
      PROVE  /\ payload.source = "template" /\ ~payload.cms
             /\ \A t \in DOMAIN payload.texts : payload.texts[t].body = "template"
  BY <1>1, OverstepLeavesTemplate DEF BranchInv, InputsOK, ComposedAtTheEnd
<1>2. BranchInv => OverreachLeavesNoTrace
  BY <1>1 DEF OverreachLeavesNoTrace, Oversteps
<1>3. QED
  BY <1>2, BranchInvariant, PTL
=============================================================================
