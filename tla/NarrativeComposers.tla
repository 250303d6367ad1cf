------------------------- MODULE NarrativeComposers -------------------------
(***************************************************************************)
(* What the three narrative composers make of a model's reply: the schema  *)
(* validator that decides whether the reply may be used, and the           *)
(* deterministic template that replaces it.  A text is the pair of where   *)
(* its body comes from and whether it carries the fallback disclosure;     *)
(* wording and layout are left out.                                        *)
(***************************************************************************)
EXTENDS Naturals, Sequences, FiniteSets

NarrativeTypes == {"REPORT", "PUBLIC_ALERT", "EXPLANATION"}

Languages == {"zh", "en", "ja", "ko"}

\* Text the model wrote is "model", "disclosing" when it repeats the fallback
\* disclosure itself, or "blank"; anything else that is not a map is "other".
FieldKinds == {"model", "disclosing", "blank", "map", "other"}

\* The reply of a model, once parsed: a plain object from fields to values, or
\* not an object at all (plain text, an array, a number).
Plain(fields) == [plain |-> TRUE, fields |-> fields]
NotPlain == [plain |-> FALSE, fields |-> <<>>]
Value(kind, langs) == [kind |-> kind, langs |-> langs]
Text(kind) == Value(kind, <<>>)

AllowedFields ==
    [REPORT       |-> {"report_text", "cms_explanation_text", "citations_presentation"},
     PUBLIC_ALERT |-> {"public_alert_text"},
     EXPLANATION  |-> {"explanation_text"}]

\* The deterministic facts of the core a reply may not carry.
Prohibited == {"ete", "primary_evacuation", "core_hash"}

RequiredLanguages(sop6, bonus) ==
    IF ~sop6 THEN {"zh"} ELSE IF bonus THEN Languages ELSE {"zh", "en"}

Rejected(reason) == [accepted |-> FALSE, reason |-> reason]
Accepted == [accepted |-> TRUE, reason |-> "none"]

ValidateAlert(fields) ==
    IF /\ "public_alert_text" \in DOMAIN fields
       /\ fields["public_alert_text"].kind = "map"
       /\ \A l \in DOMAIN fields["public_alert_text"].langs :
              fields["public_alert_text"].langs[l] \notin {"blank", "other"}
    THEN Accepted
    ELSE Rejected("public_alert_text_map_invalid")

validateBedrockPayload_NoWhitelist(type, raw) ==
    IF ~raw.plain THEN Rejected("not_a_plain_object")
    ELSE IF type = "PUBLIC_ALERT" THEN ValidateAlert(raw.fields)
    ELSE Accepted

validateBedrockPayload(type, raw) ==
    IF ~raw.plain THEN Rejected("not_a_plain_object")
    ELSE LET keys == DOMAIN raw.fields IN
      IF keys \cap Prohibited # {} THEN Rejected("prohibited_field_overwrite")
      ELSE IF ~(keys \subseteq AllowedFields[type]) THEN Rejected("non_whitelisted_field")
      ELSE IF type = "PUBLIC_ALERT" THEN ValidateAlert(raw.fields)
      ELSE IF \E k \in keys : raw.fields[k].kind \in {"map", "other"}
           THEN Rejected("non_string_value")
      ELSE Accepted

\* The deterministic texts state the facts of the core.  They mark a citation
\* of the fallback, which is less than the disclosure.
Template == [body |-> "template", discloses |-> FALSE]
buildTemplateReport == Template
buildTemplateExplanation == Template
renderMultilingualTemplates(languages) == [l \in languages |-> Template]

FromModel(kind) ==
    [body |-> IF kind = "blank" THEN "blank" ELSE "model", discloses |-> kind = "disclosing"]

\* Appends the disclosure unless the text already carries it.
ensureFallbackDisclosure_TrustsModel(text, hasFallbackCitation) ==
    IF hasFallbackCitation /\ text.body = "template"
    THEN [text EXCEPT !.discloses = TRUE] ELSE text
ensureFallbackDisclosure(text, hasFallbackCitation) ==
    IF hasFallbackCitation THEN [text EXCEPT !.discloses = TRUE] ELSE text

(***************************************************************************)
(* The composers.  `citations' is the sequence the retriever returned; a   *)
(* payload maps each text of the narrative to what is stored.  `reply' is  *)
(* a record with `ok', and the parsed reply `raw' when ok.                 *)
(***************************************************************************)
Usable(type, reply) == reply.ok /\ validateBedrockPayload(type, reply.raw).accepted

composeReport(citations, reply) ==
    LET fields == reply.raw.fields
        usable == Usable("REPORT", reply)
        given(k) == usable /\ k \in DOMAIN fields
    IN  [texts |-> [report |-> IF given("report_text")
                               THEN FromModel(fields["report_text"].kind)
                               ELSE buildTemplateReport],
         cms   |-> given("cms_explanation_text"),
         presents |-> [i \in DOMAIN citations |->
                          <<citations[i].article, citations[i].source>>],
         source |-> IF usable THEN "bedrock" ELSE "template"]

\* A blank text counts as missing here, and is replaced by the template.
EffectiveExplanation(fields) ==
    /\ "explanation_text" \in DOMAIN fields
    /\ fields["explanation_text"].kind # "blank"

composeExplanation(citations, reply) ==
    LET fields == reply.raw.fields
        usable == Usable("EXPLANATION", reply) /\ EffectiveExplanation(fields)
        text == IF usable THEN FromModel(fields["explanation_text"].kind)
                ELSE buildTemplateExplanation
        fallback == \E i \in DOMAIN citations : citations[i].source = "s3_fallback"
    IN  [texts |-> [explanation |-> ensureFallbackDisclosure(text, fallback)],
         cms |-> FALSE, presents |-> <<>>,
         source |-> IF usable THEN "bedrock" ELSE "template"]

\* Every required language has to be there with a text; the others are dropped.
filterToRequiredLanguages_KeepsWhatIsThere(langs, required) ==
    required \cap DOMAIN langs # {}
filterToRequiredLanguages(langs, required) ==
    \A l \in required : l \in DOMAIN langs /\ langs[l] \notin {"blank", "other"}

composePublicAlert(required, reply) ==
    LET langs == reply.raw.fields["public_alert_text"].langs
        usable == /\ Usable("PUBLIC_ALERT", reply)
                  /\ filterToRequiredLanguages(langs, required)
    IN  [texts |-> IF usable THEN [l \in required \cap DOMAIN langs |-> FromModel(langs[l])]
                   ELSE renderMultilingualTemplates(required),
         cms |-> FALSE, presents |-> <<>>,
         source |-> IF usable THEN "bedrock" ELSE "template"]

renderNarrativeBranch(type, citations, required, reply) ==
    CASE type = "REPORT"       -> composeReport(citations, reply)
      [] type = "PUBLIC_ALERT" -> composePublicAlert(required, reply)
      [] type = "EXPLANATION"  -> composeExplanation(citations, reply)
=============================================================================
