-------------------------- MODULE IdempotencyTable --------------------------
(***************************************************************************)
(* One item of the IdempotencyTable: the record of an injection key, the   *)
(* condition of every conditional write the code sends to it, and what the *)
(* write leaves behind.  The table has no behaviour of its own, so this    *)
(* module has no variables: InjectionFlow holds the item and takes steps.  *)
(*                                                                         *)
(* Times are epoch instants of one shared clock.  None is the absent value *)
(* of an attribute (null in the record, REMOVEd in DynamoDB).  Attributes  *)
(* that no code under src/ ever reads to decide something (recovery_stage, *)
(* previous_last_error, evidence_source, the audit pair, the display       *)
(* times) are left out, and so are the completion witnesses: they decide   *)
(* only what an execution that ends in either case reports.                *)
(***************************************************************************)
EXTENDS Integers

CONSTANTS
    Req,    \* API requests; a request id is a lease_owner
    Exec,   \* workflow executions; an execution id is a workflow_execution_arn
    None    \* an absent attribute

ASSUME NoneAssumption == None \notin Req \cup Exec \cup Nat

Modes == {"NORMAL", "FULL_WORKFLOW", "ENRICHMENT_ONLY"}

\* last_error: START stands for every start failure, STAGE for every stage
\* failure a workflow Catch reports; the others are the source's own values.
Errors == {"START", "STAGE", "CORE_IDENTITY_CONFLICT", "RECOVERY_CORE_MISSING",
           "STALE_RUNNING_EXECUTION", "none"}

Statuses == {"absent", "starting", "start_failed", "running",
             "processing_failed", "completed"}

Record == [status: Statuses, attempt: Nat, owner: Req \cup {None},
           lease: Nat \cup {None}, deadline: Nat \cup {None},
           error: Errors, retryable: BOOLEAN, arn: Exec \cup {None},
           committed: BOOLEAN, mode: Modes]

NoRecord == [status |-> "absent", attempt |-> 0, owner |-> None,
             lease |-> None, deadline |-> None, error |-> "none",
             retryable |-> TRUE, arn |-> None, committed |-> FALSE,
             mode |-> "NORMAL"]

-----------------------------------------------------------------------------
(* Writes of the injection request *)

FirstLease(r, expires) ==
    [NoRecord EXCEPT !.status = "starting", !.attempt = 1, !.owner = r, !.lease = expires]

\* Mutant: the recovery forgets to count the attempt.
ReLease_SameAttempt(row, r, expires, mode) ==
    [row EXCEPT !.status = "starting", !.owner = r, !.lease = expires,
                !.mode = mode, !.error = "none", !.retryable = TRUE,
                !.arn = None, !.deadline = None]

\* The mutation every recovery shares: back to starting, one more attempt,
\* nothing left that the previous execution's guards could match.
ReLease(row, r, expires, mode) ==
    [row EXCEPT !.status = "starting", !.attempt = @ + 1, !.owner = r,
                !.lease = expires, !.mode = mode, !.error = "none",
                !.retryable = TRUE, !.arn = None, !.deadline = None]

CanRetryStart(row, attempt) ==
    row.status = "start_failed" /\ row.attempt = attempt

CanRecover(row, attempt) ==
    row.status = "processing_failed" /\ row.retryable /\ row.attempt = attempt

LeaseExpired(row, t) ==
    row.status = "starting" /\ row.lease # None /\ row.lease < t

CanReacquireExpired(row, attempt, t) ==
    LeaseExpired(row, t) /\ row.attempt = attempt

CanMarkStartFailed(row, r, attempt) ==
    row.status = "starting" /\ row.owner = r /\ row.attempt = attempt

\* Mutant: a status no reader of the record knows.
StartFailed_Unknown(row, t, retryable) ==
    [row EXCEPT !.status = "failed_to_start", !.error = "START", !.retryable = retryable,
                !.lease = t]

StartFailed(row, t, retryable) ==
    [row EXCEPT !.status = "start_failed", !.error = "START", !.retryable = retryable,
                !.lease = t]

-----------------------------------------------------------------------------
(* The routing decision of a repeated request *)

TerminalConflict(row) ==
    /\ row.status = "processing_failed"
    /\ row.error = "CORE_IDENTITY_CONFLICT" \/ ~row.retryable

StaleRunning(row, t) ==
    row.status = "running" /\ row.deadline # None /\ row.deadline < t

\* Mutant: a running record is always in progress.
RouteOf_NeverStale(row, t) ==
    CASE LeaseExpired(row, t) -> "reacquire_expired"
      [] row.status = "start_failed" -> "retry_start"
      [] row.status = "processing_failed" /\ ~TerminalConflict(row) -> "gate_failed"
      [] OTHER -> "done"

\* The step a repeated request takes next; "done" is an answer without a write.
RouteOf(row, t) ==
    CASE StaleRunning(row, t) -> "gate_stale"
      [] LeaseExpired(row, t) -> "reacquire_expired"
      [] row.status = "start_failed" -> "retry_start"
      [] row.status = "processing_failed" /\ ~TerminalConflict(row) -> "gate_failed"
      [] OTHER -> "done"

-----------------------------------------------------------------------------
(* Writes of the workflow's status actions *)

\* The confirming read after a failed guard: this execution still owns this
\* attempt, and the record shows the action's target state.
Owned(row, arn, attempt) == row.arn = arn /\ row.attempt = attempt

\* Mutant: the lease alone admits an execution.
CanMarkRunning_NoStatus(row, owner, attempt, mode) ==
    row.owner = owner /\ row.attempt = attempt /\ row.mode = mode

CanMarkRunning(row, owner, attempt, mode) ==
    /\ row.status = "starting"
    /\ row.owner = owner
    /\ row.attempt = attempt
    /\ row.mode = mode

Running(row, e, deadline) ==
    [row EXCEPT !.status = "running", !.arn = e, !.deadline = deadline]

\* Mutants: a final write guarded on the status alone, or on the owner alone.
CanFinish_Unfenced(row, e, attempt) == row.status = "running"

CanFinish_NoStatus(row, e, attempt) == Owned(row, e, attempt)

CanFinish(row, e, attempt) == row.status = "running" /\ Owned(row, e, attempt)

CanMarkCoreCommitted(row, e, attempt) == CanFinish(row, e, attempt) /\ ~row.committed

CoreCommitted(row) == [row EXCEPT !.committed = TRUE]

Completed(row) ==
    [row EXCEPT !.status = "completed", !.owner = None, !.deadline = None]

ProcessingFailed(row, cause, t) ==
    [row EXCEPT !.status = "processing_failed", !.error = cause,
                !.retryable = (cause # "CORE_IDENTITY_CONFLICT"),
                !.lease = t, !.owner = None, !.deadline = None]

FailureConfirmed(row, e, attempt, cause) ==
    /\ Owned(row, e, attempt)
    /\ row.status = "processing_failed"
    /\ row.error = cause

\* Mutant: the reconciler trusts the view it was routed on.
CanReconcile_Unfenced(row, arn, attempt, deadline, t) == row.status = "running"

CanReconcile(row, arn, attempt, deadline, t) ==
    /\ CanFinish(row, arn, attempt)
    /\ row.deadline = deadline
    /\ StaleRunning(row, t)
=============================================================================
