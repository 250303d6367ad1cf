-------------------------- MODULE MCEnrichmentFlow --------------------------
(* EnrichmentFlow for TLC. *)
EXTENDS EnrichmentFlow, TLC
=============================================================================
