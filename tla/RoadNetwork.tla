---------------------------- MODULE RoadNetwork ----------------------------
(***************************************************************************)
(* RoadNetworkModel: the segments of road_network_geometry.json by id, and *)
(* the three questions the rule engine asks of them.  `intersections` is   *)
(* ordered upstream to downstream; `alternatives` is one-way.              *)
(***************************************************************************)
EXTENDS Integers, Sequences, SequencesExt

CONSTANT None   \* an absent value (null, undefined, -1 of indexOf)

\* Two rows with one id make the constructor throw.
NoDuplicateSegments(rows) ==
    \A i, j \in DOMAIN rows : rows[i].segment_id = rows[j].segment_id => i = j

load(rows) ==
    [id \in {rows[i].segment_id : i \in DOMAIN rows} |->
        rows[SelectInSeq(rows, LAMBDA r : r.segment_id = id)]]

alternativesOf(network, id) ==
    IF id \in DOMAIN network THEN network[id].alternatives ELSE <<>>

\* The elements at some positions, in their order.
AtPositions(seq, positions) ==
    LET upTo[n \in 0..Len(seq)] ==
            IF n = 0 THEN <<>>
            ELSE IF n \in positions THEN Append(upTo[n - 1], seq[n]) ELSE upTo[n - 1]
    IN  upTo[Len(seq)]

indexOf(seq, x) == SelectInSeq(seq, LAMBDA y : y = x)   \* 0 when absent

isDirectIntersection(network, id, name) ==
    id \in DOMAIN network /\ indexOf(network[id].intersections, name) # 0

positionRelativeToAnchor(network, id, candidate, anchor) ==
    IF id \notin DOMAIN network THEN None
    ELSE LET crossing == network[id].intersections
             c == indexOf(crossing, candidate)
             a == indexOf(crossing, anchor)
         IN  IF c = 0 \/ a = 0 \/ c = a THEN None
             ELSE IF c < a THEN "upstream" ELSE "downstream"
=============================================================================
