----------------------------- MODULE NarrativeSet ---------------------------
(***************************************************************************)
(* What enrichment promises about the narratives of one decision: each is  *)
(* written once and stays, and decision.enriched is announced only of the  *)
(* complete set.                                                           *)
(***************************************************************************)
CONSTANTS Types, Items, NoItem

VARIABLES
    item,       \* the narrative of each type
    announced   \* whether decision.enriched has been announced

vars == <<item, announced>>

Init == item = [t \in Types |-> NoItem] /\ announced = FALSE

Write(t) ==
    /\ item[t] = NoItem
    /\ \E i \in Items : item' = [item EXCEPT ![t] = i]
    /\ UNCHANGED announced

Announce ==
    /\ \A t \in Types : item[t] # NoItem
    /\ announced' = TRUE
    /\ UNCHANGED item

Next == (\E t \in Types : Write(t)) \/ Announce

Spec == Init /\ [][Next]_vars
=============================================================================
