---------------------------- MODULE InjectionFlow ----------------------------
(***************************************************************************)
(* Injection requests with one idempotency key, composed with the workflow *)
(* executions they start (DecisionWorkflow).                               *)
(*                                                                         *)
(* A request samples the clock once, when it arrives, tries the first      *)
(* lease, and otherwise reads the record and routes itself by what it      *)
(* read.  Every table access is a step of its own, so the record a request *)
(* routed on may be gone by the time it writes.                            *)
(*                                                                         *)
(* The order of the handler's steps is external (the InjectFn handler is   *)
(* not under src/): first lease, else same-key routing, then launch by the *)
(* lease holder, as the doc comments of the three modules show it.         *)
(***************************************************************************)
EXTENDS DecisionWorkflow

CONSTANTS
    LeaseTtl,   \* leaseTtlMs
    MaxTime     \* bound on the clock, for model checking only

ASSUME LeaseAssumption == LeaseTtl \in Nat \ {0}
ASSUME TimeAssumption == MaxTime \in Nat

VARIABLE req    \* what each request is doing

Steps == {"acquire", "route", "gate_stale", "gate_failed", "gate_core_stale",
          "gate_core_failed", "reconcile", "confirm_reconcile", "recover",
          "retry_start", "reacquire_expired", "launch", "mark_start_failed"}

\* `time' is the request's clock sample.  attempt, arn, deadline and effective
\* are what it last read; once it holds the lease, attempt and mode are the
\* lease's own.
Request == [pc: Steps \cup {"new", "done"}, time: Nat, attempt: Nat,
            arn: Exec \cup {None}, deadline: Nat \cup {None},
            effective: BOOLEAN, mode: Modes]

Quiet(pc) == [pc |-> pc, time |-> 0, attempt |-> 0, arn |-> None,
              deadline |-> None, effective |-> FALSE, mode |-> "NORMAL"]

vars == <<row, core, now, exec, claims, announced, alerted, req>>

TypeOK == WorkflowTypeOK /\ req \in [Req -> Request]

Init == WorkflowInit /\ req = [r \in Req |-> Quiet("new")]

-----------------------------------------------------------------------------
(* Helpers *)

On(r, pc) == req[r].pc = pc

Move(r, pc) == req' = [req EXCEPT ![r].pc = pc]

Finish(r) == req' = [req EXCEPT ![r] = Quiet("done")]

\* The write returned the new record: r is its lease holder.
Hold(r, record) ==
    req' = [req EXCEPT ![r] = [Quiet("launch") EXCEPT !.time = req[r].time,
                                                      !.attempt = record.attempt,
                                                      !.mode = record.mode]]

workflow == <<core, now, exec, claims, announced, alerted>>

-----------------------------------------------------------------------------
(* Arrival and the first lease *)

Arrive(r) ==
    /\ On(r, "new")
    /\ req' = [req EXCEPT ![r] = [Quiet("acquire") EXCEPT !.time = now]]
    /\ UNCHANGED <<row, workflow>>

AcquireFirstLease(r) ==
    /\ On(r, "acquire")
    /\ row.status = "absent"
    /\ row' = FirstLease(r, req[r].time + LeaseTtl)
    /\ Hold(r, row')
    /\ UNCHANGED workflow

\* The resent Put meets the request's own record: KEY_ALREADY_EXISTS.
AcquireFirstLeaseLost(r) ==
    /\ On(r, "acquire")
    /\ row.status = "absent"
    /\ row' = FirstLease(r, req[r].time + LeaseTtl)
    /\ Move(r, "route")
    /\ UNCHANGED workflow

KeyAlreadyExists(r) ==
    /\ On(r, "acquire")
    /\ row.status # "absent"
    /\ Move(r, "route")
    /\ UNCHANGED <<row, workflow>>

-----------------------------------------------------------------------------
(* Same-key routing, the recovery gate and the stale-running reconciliation *)

RouteSameKeyRequest(r) ==
    /\ On(r, "route")
    /\ LET next == RouteOf(row, req[r].time) IN
         IF next = "done"
         THEN Finish(r)
         ELSE req' = [req EXCEPT ![r].pc = next, ![r].attempt = row.attempt]
    /\ UNCHANGED <<row, workflow>>

\* The gate reads the record again; a stale-running caller fences on what this
\* read returns, not on what it routed on.
GateReadsRecord(r) ==
    /\ \/ /\ On(r, "gate_stale")
          /\ req' = [req EXCEPT ![r].pc = "gate_core_stale",
                                ![r].attempt = row.attempt, ![r].arn = row.arn,
                                ![r].deadline = row.deadline,
                                ![r].effective = row.committed]
       \/ /\ On(r, "gate_failed")
          /\ req' = [req EXCEPT ![r].pc = "gate_core_failed",
                                ![r].effective = row.committed]
    /\ UNCHANGED <<row, workflow>>

GateReadsCore(r) ==
    /\ \/ /\ On(r, "gate_core_stale")
          /\ IF req[r].arn = None \/ req[r].deadline = None
             THEN Finish(r)                     \* FENCING_TERMS_UNAVAILABLE
             ELSE req' = [req EXCEPT ![r].pc = "reconcile",
                                     ![r].effective = @ \/ core # None]
       \/ /\ On(r, "gate_core_failed")
          /\ req' = [req EXCEPT ![r].pc = "recover",
                                ![r].effective = @ \/ core # None]
    /\ UNCHANGED <<row, workflow>>

MayReconcile(r) ==
    CanReconcile(row, req[r].arn, req[r].attempt, req[r].deadline, req[r].time)

Reconcile(r) ==
    /\ On(r, "reconcile")
    /\ MayReconcile(r)
    /\ row' = ProcessingFailed(row, "STALE_RUNNING_EXECUTION", req[r].time)
    /\ Move(r, "recover")
    /\ UNCHANGED workflow

ReconcileLost(r) ==
    /\ On(r, "reconcile")
    /\ MayReconcile(r)
    /\ row' = ProcessingFailed(row, "STALE_RUNNING_EXECUTION", req[r].time)
    /\ Move(r, "confirm_reconcile")
    /\ UNCHANGED workflow

ReconcileRefused(r) ==
    /\ On(r, "reconcile")
    /\ ~MayReconcile(r)
    /\ Move(r, "confirm_reconcile")
    /\ UNCHANGED <<row, workflow>>

ConfirmReconcile(r) ==
    /\ On(r, "confirm_reconcile")
    /\ IF FailureConfirmed(row, req[r].arn, req[r].attempt, "STALE_RUNNING_EXECUTION")
       THEN Move(r, "recover")
       ELSE Finish(r)
    /\ UNCHANGED <<row, workflow>>

-----------------------------------------------------------------------------
(* The recovery leases *)

RecoveryMode(r) == IF req[r].effective THEN "ENRICHMENT_ONLY" ELSE "FULL_WORKFLOW"

\* What r's recovery update asks for at its step, and the mode it would write.
LeaseCondition(r) ==
    \/ On(r, "recover") /\ CanRecover(row, req[r].attempt)
    \/ On(r, "retry_start") /\ CanRetryStart(row, req[r].attempt)
    \/ On(r, "reacquire_expired") /\ CanReacquireExpired(row, req[r].attempt, req[r].time)

LeaseMode(r) == IF On(r, "recover") THEN RecoveryMode(r) ELSE "FULL_WORKFLOW"

ReacquireLease(r) ==
    /\ LeaseCondition(r)
    /\ row' = ReLease(row, r, req[r].time + LeaseTtl, LeaseMode(r))
    /\ Hold(r, row')
    /\ UNCHANGED workflow

\* The resent update fails its own guard: RACE_LOST, and nobody launches.
ReacquireLeaseLost(r) ==
    /\ LeaseCondition(r)
    /\ row' = ReLease(row, r, req[r].time + LeaseTtl, LeaseMode(r))
    /\ Finish(r)
    /\ UNCHANGED workflow

RaceLost(r) ==
    /\ req[r].pc \in {"recover", "retry_start", "reacquire_expired"}
    /\ ~LeaseCondition(r)
    /\ Finish(r)
    /\ UNCHANGED <<row, workflow>>

-----------------------------------------------------------------------------
(* StartExecution by the lease holder *)

Launch(r) ==
    /\ On(r, "launch")
    /\ \E e \in Unused : StartExecutions({e}, req[r].attempt, r, req[r].mode)
    /\ Finish(r)
    /\ UNCHANGED <<tables, histories>>

\* Express delivery is at least once: one start, two executions.
LaunchDelivered2x(r) ==
    /\ On(r, "launch")
    /\ \E e, f \in Unused :
         e # f /\ StartExecutions({e, f}, req[r].attempt, r, req[r].mode)
    /\ Finish(r)
    /\ UNCHANGED <<tables, histories>>

\* StartExecution throws, although the service may have accepted it.  An ARN that
\* is not configured ends here too.
LaunchFails(r) ==
    /\ On(r, "launch")
    /\ \/ UNCHANGED exec
       \/ \E e \in Unused : StartExecutions({e}, req[r].attempt, r, req[r].mode)
    /\ Move(r, "mark_start_failed")
    /\ UNCHANGED <<tables, histories>>

\* An unset ARN or an error that is not transient is marked retryable=false,
\* which no guard asks a start_failed record for.
MarkStartFailed(r) ==
    /\ On(r, "mark_start_failed")
    /\ \E retryable \in BOOLEAN :
         row' = IF CanMarkStartFailed(row, r, req[r].attempt)
                THEN StartFailed(row, req[r].time, retryable)
                ELSE row
    /\ Finish(r)
    /\ UNCHANGED workflow

CrashRequest(r) ==
    /\ req[r].pc \in Steps
    /\ Finish(r)
    /\ UNCHANGED <<row, workflow>>

Tick ==
    /\ now < MaxTime
    /\ now' = now + 1
    /\ UNCHANGED <<row, core, exec, histories, req>>

-----------------------------------------------------------------------------
RequestStep(r) ==
    \/ AcquireFirstLease(r) \/ KeyAlreadyExists(r)
    \/ RouteSameKeyRequest(r) \/ GateReadsRecord(r) \/ GateReadsCore(r)
    \/ Reconcile(r) \/ ReconcileRefused(r) \/ ConfirmReconcile(r)
    \/ ReacquireLease(r) \/ RaceLost(r) \/ Launch(r) \/ MarkStartFailed(r)

RequestFault(r) ==
    \/ AcquireFirstLeaseLost(r) \/ ReconcileLost(r) \/ ReacquireLeaseLost(r)
    \/ LaunchDelivered2x(r) \/ LaunchFails(r) \/ CrashRequest(r)

Progress ==
    \/ \E r \in Req : RequestStep(r)
    \/ \E e \in Exec : ExecutionStep(e) /\ UNCHANGED req

Fault ==
    \/ \E r \in Req : RequestFault(r)
    \/ \E e \in Exec : ExecutionFault(e) /\ UNCHANGED req

Next == Progress \/ Fault \/ Tick \/ (\E r \in Req : Arrive(r))

Spec == Init /\ [][Next]_vars

-----------------------------------------------------------------------------
(* Safety *)

\* Whatever is delivered twice, retried or left over from an earlier attempt,
\* at most one execution ever passes MARK_RUNNING for a given attempt, so at
\* most one of them runs DecisionFn for it.
OneClaimPerAttempt == \A c, d \in claims : c[1] = d[1] => c = d

\* Two requests never hold the lease of the same attempt: of any number of
\* recoveries that routed on the same record, one calls StartExecution.
OneHolderPerAttempt ==
    \A r, s \in Req :
        /\ r # s
        /\ {req[r].pc, req[s].pc} \subseteq {"launch", "mark_start_failed"}
        => req[r].attempt # req[s].attempt

\* A completed record is a committed one, and a committed one has its core:
\* "completed with core_committed=false", which mark_core_committed.ts rules
\* out, is not reached by any recovery path.
CompletedIsCommitted ==
    /\ row.status = "completed" => row.committed
    /\ row.committed => core # None

\* Every fast_path_ready push carries the stored core, also the push of an
\* execution that has been superseded meanwhile, or whose own Put was refused.
AnnouncedIsStored == announced \subseteq {core}

\* A core identity conflict that was alerted is the record's last word.
AlertedIsTerminal == alerted => TerminalConflict(row)

\* Completion and the terminal conflict are final: no late execution, reconciler
\* or recovery holding an older view changes the record again.
TerminalStays ==
    [][row.status = "completed" \/ TerminalConflict(row) => row' = row]_vars

\* Stale views never rob a live holder: a starting record changes attempt only
\* after its own lease ran out, and a running one is declared stale only after
\* its own deadline passed, although both decisions rest on earlier reads.
LiveHolderKept ==
    [][/\ row.status = "starting" /\ row'.attempt # row.attempt => row.lease < now
       /\ row.status = "running" /\ row'.error = "STALE_RUNNING_EXECUTION"
          => row.deadline < now]_vars

\* The execution that a running record names is at work on that attempt.
Attended ==
    row.status = "running" =>
        exec[row.arn].pc \in Stages /\ exec[row.arn].attempt = row.attempt

\* Only a fault leaves a running record without its execution: no confirming
\* read takes the second answer to a write that landed, or the refusal of a
\* checkpoint that is already set, for the loss of the attempt.
RunIsNotAbandoned == [][Attended /\ ~Attended' => ~Progress]_vars

\* An execution of an earlier attempt never writes the record of a later one.
SupersededWritesNothing ==
    [][\A e \in Exec :
         exec[e].attempt < row.attempt /\ exec'[e] # exec[e] => row' = row]_vars

-----------------------------------------------------------------------------
(* What the comments of the code say and the code does not keep *)

\* "FULL_WORKFLOW when no core is committed, ENRICHMENT_ONLY when one is."
StagedRecovery ==
    row.status = "starting" /\ row.committed => row.mode = "ENRICHMENT_ONLY"

\* "StartExecution failed, so the workflow never ran and no core exists."
StartFailedMeansNoCore == row.status = "start_failed" => core = None
=============================================================================
