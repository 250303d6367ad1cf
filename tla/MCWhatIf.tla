------------------------------ MODULE MCWhatIf ------------------------------
(* WhatIf for TLC: every request, replies of up to two assumptions around    *)
(* the bounds of each field, and baselines with and without the entities.    *)
EXTENDS WhatIf

Claims(sub, groups) == [sub |-> sub, groups |-> groups]
Asks(claims, body) == [claims |-> claims, body |-> body]
Operator == Claims("user", {"viewers", "operators"})

MCRequests ==
    {Asks(c, "query") : c \in {NoValue, Claims("blank", {"operators"}), Claims("user", {"viewers"})}}
    \cup {Asks(Operator, b) : b \in {"query", "absent", "not_json", "blank", "too_long"}}

Road == [kind |-> "road_segment", id |-> "RD_TPE_002"]
Station == [kind |-> "base_station", id |-> "BS_MRT_BL17"]
Unloaded == [kind |-> "base_station", id |-> "BS_GHOST"]
Nameless == [kind |-> "neither", id |-> "Taipei Dome"]

Assume(entity, field, value) ==
    [entity |-> entity, field |-> field, operator |-> "=", value |-> value]

Items ==
    {Assume(Road, "Saturation_Score", v) : v \in {-1, 90, 100, 101}}
    \cup {Assume(Station, "User_Count", v) : v \in {2500100, 2500150}}
    \cup {Assume(Station, "Growth_Rate", v) : v \in {-100, 35, 1001, 3500}}
    \cup {Assume(Station, "Roaming_User_Pct", v) : v \in {0, 35, 100, 3500, 10000, 10100}}
    \cup {Assume(Station, "Saturation_Score", 90), Assume(Road, "User_Count", 100),
          Assume(Unloaded, "User_Count", 100), Assume(Nameless, "User_Count", 100),
          Assume(Station, "Weather", 100), Assume(Station, "toString", 100),
          Assume(NoValue, "User_Count", 100), Assume(Station, "User_Count", NoValue)}

Parsed(assumptions) == [ok |-> TRUE, status |-> "parsed", assumptions |-> assumptions]

MCParserReplies ==
    {Parsed(s) : s \in {<<>>} \cup {<<a>> : a \in Items} \cup (Items \X Items)}
    \cup {[ok |-> FALSE, status |-> "none", assumptions |-> <<>>],
          [ok |-> TRUE, status |-> "none", assumptions |-> <<>>],
          [ok |-> TRUE, status |-> "clarification_required", assumptions |-> <<>>]}

MCCatalogs == {{}, {Road, Station}}

MCFacts == {[triggered |-> {}, formula |-> {}], [triggered |-> {3}, formula |-> {}],
            [triggered |-> {1, 2}, formula |-> {7}]}

MCKbAnswers ==
    {<<>>} \cup {<<[metadata |-> "number", declared |-> a, uri |-> 0, score |-> 1]>> : a \in {1, 3, 9}}

MCExplanations ==
    {[ok |-> FALSE, reason |-> "timeout"]}
    \cup {[ok |-> TRUE, raw |-> raw] : raw \in
            {NotPlain, Plain(<<>>), Plain([ete |-> Text("model")]),
             Plain([explanation_text |-> Text("model"), ete |-> Text("model")])}
            \cup {Plain([explanation_text |-> Text(k)]) :
                     k \in {"model", "blank", "disclosing", "other"}}}
=============================================================================
