------------------------- MODULE MCInjectionLiveness -------------------------
(* Checking InjectionLiveness with TLC: as many retries as faults, plus one. *)
EXTENDS InjectionLiveness, FiniteSets

ASSUME EnoughRetries == Cardinality(Req) = MaxFaults + 1

\* Every attempt waits for at most one lease and one deadline.
ASSUME EnoughTime == MaxTime >= (MaxFaults + 1) * (LeaseTtl + RunDeadline + 2)
=============================================================================
