-------------------------- MODULE InjectionLiveness --------------------------
(***************************************************************************)
(* InjectionFlow under the conditions a caller may rely on: a bounded      *)
(* number of faults, timeouts longer than the work they bound, and a       *)
(* client that repeats its request after the wait the answer implies.      *)
(***************************************************************************)
EXTENDS InjectionFlow

CONSTANT MaxFaults  \* faults that may still happen

ASSUME FaultAssumption == MaxFaults \in Nat

VARIABLE faults     \* how many have happened

liveVars == <<vars, faults>>

\* No request and no execution is under way.
Resting ==
    /\ \A r \in Req : req[r].pc \in {"new", "done"}
    /\ Unused = {e \in Exec : ~At(e, "stopped")}

\* A timeout is running that nobody will answer.
Waiting ==
    \/ row.status = "starting" /\ ~LeaseExpired(row, now)
    \/ row.status = "running" /\ ~StaleRunning(row, now)

Settled == row.status = "completed" \/ TerminalConflict(row)

\* The client is patient: it repeats the request once the lease or the deadline
\* it was told about has run out.
PatientArrive(r) ==
    /\ Resting
    /\ ~Waiting
    /\ ~Settled
    /\ Arrive(r)

\* The lease and the run deadline outlast the requests and executions they bound.
TimelyTick == Resting /\ Waiting /\ Tick

LiveInit == Init /\ faults = 0

LiveNext ==
    \/ /\ (\E r \in Req : PatientArrive(r)) \/ Progress \/ TimelyTick
       /\ UNCHANGED faults
    \/ /\ faults < MaxFaults
       /\ Fault
       /\ faults' = faults + 1

\* The platform runs what was started; a client retries; time passes.
Fairness ==
    /\ \A r \in Req : WF_liveVars(PatientArrive(r) /\ UNCHANGED faults)
    /\ \A r \in Req : WF_liveVars(RequestStep(r) /\ UNCHANGED faults)
    /\ \A e \in Exec : WF_liveVars(ExecutionStep(e) /\ UNCHANGED <<req, faults>>)
    /\ WF_liveVars(TimelyTick /\ UNCHANGED faults)

LiveSpec == LiveInit /\ [][LiveNext]_liveVars /\ Fairness

\* The key is never wedged: with one request more than there are faults, every
\* injection ends completed, or in the terminal conflict when the official data
\* changed between two runs.  Any one fault costs the client one retry at most.
EventuallySettled == <>Settled

\* While the official data stay the same, every injection ends completed: no
\* retry, duplicate or lost response is mistaken for a core identity conflict.
EventuallyCompleted ==
    \A i \in Identities :
        [](\A e \in Exec : exec[e].ident \in {None, i}) => <>(row.status = "completed")
=============================================================================
