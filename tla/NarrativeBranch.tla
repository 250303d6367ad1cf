--------------------------- MODULE NarrativeBranch --------------------------
(***************************************************************************)
(* One narrative branch from its citations to the payload it will store:   *)
(* SopRetrieval, then BedrockInvoke, then the composer of the type.  A     *)
(* composer takes the citations and the invoker as inputs; who retrieves   *)
(* for it is not in src/, so that it happens first, and that the partial   *)
(* citations are used when both stores fail, is external here.  The one    *)
(* caller of both that src/ has is explainWhatIf, see WhatIf.              *)
(***************************************************************************)
EXTENDS NarrativeComposers, SopRetrieval, BedrockInvoke

CONSTANTS
    ArticleSets,\* the citation sets that occur
    Replies(_), \* the parsed replies of a model, per narrative type
    NoPayload

ASSUME ArticleSetsAssumption == ArticleSets \subseteq SUBSET SopArticles

VARIABLES
    type,       \* the branch's narrative type
    languages,  \* the languages a public alert must have
    payload     \* what the composer hands to putNarrative

inputs == <<type, languages>>
vars == <<wanted, kb, chunks, citations, toFetch, failed, outcome,
          clock, phase, deadline, model, due, open, lastReason, answer,
          type, languages, payload>>

Init ==
    /\ type \in NarrativeTypes
    /\ \E sop6, bonus \in BOOLEAN : languages = RequiredLanguages(sop6, bonus)
    /\ \E articles \in ArticleSets :
           \* An alert cites nothing, and the others speak one language.
           /\ IF type = "PUBLIC_ALERT" THEN articles = {} ELSE languages = {"zh"}
           /\ RetrievalInit(articles)
    /\ InvokeInit
    /\ payload = NoPayload

Cite == Retrieve /\ UNCHANGED <<invokeVars, inputs, payload>>

Ask == RetrievalDone /\ StartInvoke

Answer ==
    \/ \E raw \in Replies(type) : ModelAnswers(raw)
    \/ \E reason \in Reasons : ModelFails(reason)

Invoke ==
    /\ Ask \/ InvokeProgress \/ Answer \/ Tick
    /\ UNCHANGED <<retrievalVars, inputs, payload>>

Compose ==
    /\ phase = "done" /\ payload = NoPayload
    /\ payload' = renderNarrativeBranch(type, citations, languages, answer)
    /\ UNCHANGED <<retrievalVars, invokeVars, inputs>>

Next == Cite \/ Invoke \/ Compose

\* A store answers or fails, a timer fires, and the handler goes on: nothing
\* of this waits for anybody else.  A model need not answer.
Fairness ==
    /\ WF_vars(Cite) /\ WF_vars(Compose)
    /\ WF_vars((Ask \/ InvokeProgress \/ Tick) /\ UNCHANGED <<retrievalVars, inputs, payload>>)

Spec == Init /\ [][Next]_vars /\ Fairness

-----------------------------------------------------------------------------
TypeOK ==
    /\ RetrievalTypeOK /\ InvokeTypeOK
    /\ type \in NarrativeTypes /\ languages \subseteq Languages

Stored == payload # NoPayload

\* The languages of a public alert are the ones the trigger demands, and each
\* has a text that is not blank, whatever map the model returned: none is
\* dropped and none added (resolveLanguages, filterToRequiredLanguages and the
\* template that takes over).
AlertSpeaksEveryLanguage ==
    Stored /\ type = "PUBLIC_ALERT" =>
        /\ DOMAIN payload.texts = languages
        /\ \A l \in DOMAIN payload.texts : payload.texts[l].body # "blank"

\* An explanation always has a text, and discloses that an article was quoted
\* from the fallback whenever one was, also when the model answered
\* (composeExplanation, ensureFallbackDisclosure).
ExplanationDiscloses ==
    Stored /\ type = "EXPLANATION" =>
        /\ payload.texts.explanation.body # "blank"
        /\ (\E a \in wanted \ failed : \A i \in DOMAIN citations :
                citations[i].article = a => citations[i].source = "s3_fallback")
           => payload.texts.explanation.discloses

\* A reply that carries a fact of the core, or anything outside the fields of
\* its type, leaves no trace in what is stored.
OverreachLeavesNoTrace ==
    Stored /\ answer.ok =>
        (~answer.raw.plain \/ ~(DOMAIN answer.raw.fields \subseteq AllowedFields[type])
         => /\ payload.source = "template" /\ ~payload.cms
            /\ \A t \in DOMAIN payload.texts : payload.texts[t].body = "template")

\* Models that never answer, stores that fail: the branch ends with a payload.
BranchEnds == <>Stored
=============================================================================
