------------------------- MODULE InjectionRefinement -------------------------
(* InjectionFlow implements SingleDecision. *)
EXTENDS InjectionFlow

\* The key's outcome, read off its record.
Outcome ==
    IF row.status = "completed" THEN "completed"
    ELSE IF TerminalConflict(row) THEN "conflict" ELSE "open"

Abstract == INSTANCE SingleDecision WITH
    attempt <- row.attempt, decision <- core, outcome <- Outcome

\* One decision per key: every behaviour of the requests and executions, with
\* any interleaving, redelivery, lost response and crash, is a behaviour of the
\* promise in SingleDecision.
ImplementsSingleDecision == Abstract!AbstractSpec
=============================================================================
