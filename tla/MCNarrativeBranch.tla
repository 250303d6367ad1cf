-------------------------- MODULE MCNarrativeBranch -------------------------
(* NarrativeBranch for TLC: rankings of up to three chunks over four kinds  *)
(* of chunk, and a reply for every verdict of the validator.                 *)
EXTENDS NarrativeBranch

MCArticleSets == {{}, {2}, {1, 2}}

MCChunks == {[metadata |-> "number", declared |-> 1, uri |-> 0, score |-> 1],
             [metadata |-> "string", declared |-> 2, uri |-> 1, score |-> 1],
             [metadata |-> "absent", declared |-> 0, uri |-> 2, score |-> 2],
             [metadata |-> "string", declared |-> 9, uri |-> 0, score |-> 2]}

MCKbAnswers == UNION {[1..n -> MCChunks] : n \in 0..3}

AlertMap(langs) == Plain([public_alert_text |-> Value("map", langs)])

MCReplies(t) ==
    {NotPlain, Plain(<<>>), Plain([ete |-> Text("model")]), Plain([extra |-> Text("model")])}
    \cup CASE t = "REPORT" ->
                  {Plain([report_text |-> Text(k)]) : k \in {"model", "blank", "other"}}
                  \cup {Plain([cms_explanation_text |-> Text("model")]),
                        Plain([report_text |-> Text("model"), core_hash |-> Text("model")])}
           [] t = "EXPLANATION" ->
                  {Plain([explanation_text |-> Text(k)]) :
                      k \in {"model", "blank", "disclosing", "other"}}
           [] t = "PUBLIC_ALERT" ->
                  {AlertMap([zh |-> "model"]), AlertMap([en |-> "model"]),
                   AlertMap([zh |-> "model", en |-> "blank"]),
                   AlertMap([zh |-> "model", en |-> "model"]),
                   AlertMap([zh |-> "model", en |-> "model", ja |-> "model", fr |-> "model"]),
                   AlertMap([l \in Languages |-> "model"]),
                   Plain([public_alert_text |-> Text("model")])}
=============================================================================
