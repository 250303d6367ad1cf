--------------------------- MODULE MCInjectionFlow ---------------------------
(* Model values and symmetry for checking InjectionFlow with TLC. *)
EXTENDS InjectionRefinement, TLC

\* Requests, executions and identities are only compared for equality.
Symmetry == Permutations(Req) \cup Permutations(Exec) \cup Permutations(Identities)
=============================================================================
