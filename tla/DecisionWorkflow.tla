-------------------------- MODULE DecisionWorkflow --------------------------
(***************************************************************************)
(* The Step Functions Express executions that compute one decision, as     *)
(* they act on the two items they share: the IdempotencyTable record `row' *)
(* and the DecisionCoreTable item `core'.                                  *)
(*                                                                         *)
(* Every step below is one call of WorkflowStatusFn, DecisionFn or         *)
(* RecoveryGateFn that reaches a table, or the confirming read that        *)
(* follows a failed condition; executions interleave between any two.  The *)
(* order of the steps is the state machine's (external: it is deployed,    *)
(* not under src/).                                                        *)
(*                                                                         *)
(* A write whose response is lost has landed; the client sends it again,   *)
(* the condition fails, and the code takes its already-written path: the   *)
(* ...Lost actions below are that write together with the failed resend.   *)
(***************************************************************************)
EXTENDS IdempotencyTable

CONSTANTS
    Identities,     \* the five identity fields of a computed DecisionCore
    RunDeadline     \* executionDeadlineMs

ASSUME IdentityAssumption == None \notin Identities
ASSUME DeadlineAssumption == RunDeadline \in Nat \ {0}

VARIABLES
    row,            \* the IdempotencyTable item of the key
    core,           \* the identity stored in DecisionCoreTable, or None
    now,            \* the shared clock
    exec,           \* what each execution is doing
    claims,         \* history: the pairs <<attempt, execution>> that passed MARK_RUNNING
    announced,      \* history: the identities pushed as decision.fast_path_ready
    alerted         \* history: a core identity conflict has been reported

Stages == {"mark_running", "confirm_running", "decide", "put_core", "reread_core",
           "gate", "mark_core", "confirm_core", "announce", "mark_completed",
           "confirm_completed", "mark_failed", "confirm_failed", "alert"}

Execution == [pc: Stages \cup {"unused", "stopped"}, attempt: Nat,
              owner: Req \cup {None}, mode: Modes,
              ident: Identities \cup {None}, cause: Errors]

Idle(pc) == [pc |-> pc, attempt |-> 0, owner |-> None, mode |-> "NORMAL",
             ident |-> None, cause |-> "none"]

Unused == {e \in Exec : exec[e].pc = "unused"}

WorkflowTypeOK ==
    /\ row \in Record
    /\ core \in Identities \cup {None}
    /\ now \in Nat
    /\ exec \in [Exec -> Execution]
    /\ claims \subseteq (Nat \X Exec)
    /\ announced \subseteq Identities
    /\ alerted \in BOOLEAN

WorkflowInit ==
    /\ row = NoRecord
    /\ core = None
    /\ now = 0
    /\ exec = [e \in Exec |-> Idle("unused")]
    /\ claims = {}
    /\ announced = {}
    /\ alerted = FALSE

-----------------------------------------------------------------------------
(* Helpers *)

At(e, pc) == exec[e].pc = pc

GoTo(e, pc) == exec' = [exec EXCEPT ![e].pc = pc]

Stop(e) == exec' = [exec EXCEPT ![e] = Idle("stopped")]

Fail(e, cause) ==
    exec' = [exec EXCEPT ![e].pc = "mark_failed", ![e].cause = cause]

\* StartExecution: the same input may be delivered to more than one execution.
StartExecutions(S, attempt, owner, mode) ==
    exec' = [e \in Exec |->
               IF e \in S
               THEN [Idle("mark_running") EXCEPT !.attempt = attempt,
                                                 !.owner = owner, !.mode = mode]
               ELSE exec[e]]

AfterRunning(e) == IF exec[e].mode = "ENRICHMENT_ONLY" THEN "gate" ELSE "decide"

AfterCommit(e) == IF exec[e].mode = "ENRICHMENT_ONLY" THEN "mark_completed" ELSE "announce"

tables == <<row, core, now>>
histories == <<claims, announced, alerted>>

-----------------------------------------------------------------------------
(* MARK_RUNNING *)

ClaimRunning(e) ==
    /\ At(e, "mark_running")
    /\ CanMarkRunning(row, exec[e].owner, exec[e].attempt, exec[e].mode)
    /\ row' = Running(row, e, now + RunDeadline)
    /\ claims' = claims \cup {<<exec[e].attempt, e>>}
    /\ UNCHANGED <<core, now, announced, alerted>>

MarkRunning(e) == ClaimRunning(e) /\ GoTo(e, AfterRunning(e))

MarkRunningLost(e) == ClaimRunning(e) /\ GoTo(e, "confirm_running")

MarkRunningRefused(e) ==
    /\ At(e, "mark_running")
    /\ ~CanMarkRunning(row, exec[e].owner, exec[e].attempt, exec[e].mode)
    /\ GoTo(e, "confirm_running")
    /\ UNCHANGED <<tables, histories>>

ConfirmRunning(e) ==
    /\ At(e, "confirm_running")
    /\ IF CanFinish(row, e, exec[e].attempt) THEN GoTo(e, AfterRunning(e)) ELSE Stop(e)
    /\ UNCHANGED <<tables, histories>>

-----------------------------------------------------------------------------
(* DecisionFn, or RecoveryGateFn when the attempt only has to enrich *)

\* The rule engine's result depends on the official data of the moment, so a
\* later run of the same key may compute another identity.
Decide(e) ==
    /\ At(e, "decide")
    /\ \E i \in Identities :
         exec' = [exec EXCEPT ![e].pc = "put_core", ![e].ident = i]
    /\ UNCHANGED <<tables, histories>>

\* Mutant: the Put without attribute_not_exists.
PutCore_Overwrites(e) ==
    /\ At(e, "put_core")
    /\ core' = exec[e].ident
    /\ GoTo(e, "mark_core")
    /\ UNCHANGED <<row, now, histories>>

PutCore(e) ==
    /\ At(e, "put_core")
    /\ IF core = None
       THEN core' = exec[e].ident /\ GoTo(e, "mark_core")
       ELSE GoTo(e, "reread_core") /\ UNCHANGED core
    /\ UNCHANGED <<row, now, histories>>

\* Either the client resends the Put, or the state machine retries the task.
PutCoreLost(e) ==
    /\ At(e, "put_core")
    /\ core = None
    /\ core' = exec[e].ident
    /\ \E pc \in {"reread_core", "decide"} : GoTo(e, pc)
    /\ UNCHANGED <<row, now, histories>>

\* Mutants: every refused Put counts as a duplicate, or as a conflict.
RereadCore_Duplicate(e) ==
    /\ At(e, "reread_core")
    /\ GoTo(e, "mark_core")
    /\ UNCHANGED <<tables, histories>>

RereadCore_Conflict(e) ==
    /\ At(e, "reread_core")
    /\ Fail(e, "CORE_IDENTITY_CONFLICT")
    /\ UNCHANGED <<tables, histories>>

RereadCore(e) ==
    /\ At(e, "reread_core")
    /\ IF core = exec[e].ident
       THEN GoTo(e, "mark_core")
       ELSE Fail(e, "CORE_IDENTITY_CONFLICT")
    /\ UNCHANGED <<tables, histories>>

\* Mutant: the enrichment-only branch skips the checkpoint.
RecoveryGate_NoCheckpoint(e) ==
    /\ At(e, "gate")
    /\ IF core # None THEN GoTo(e, "mark_completed") ELSE Fail(e, "RECOVERY_CORE_MISSING")
    /\ UNCHANGED <<tables, histories>>

RecoveryGate(e) ==
    /\ At(e, "gate")
    /\ IF core # None THEN GoTo(e, "mark_core") ELSE Fail(e, "RECOVERY_CORE_MISSING")
    /\ UNCHANGED <<tables, histories>>

-----------------------------------------------------------------------------
(* MARK_CORE_COMMITTED, the fast-path push it gates, MARK_COMPLETED *)

CommitCore(e) ==
    /\ At(e, "mark_core")
    /\ CanMarkCoreCommitted(row, e, exec[e].attempt)
    /\ row' = CoreCommitted(row)
    /\ UNCHANGED <<core, now, histories>>

MarkCoreCommitted(e) == CommitCore(e) /\ GoTo(e, AfterCommit(e))

MarkCoreCommittedLost(e) == CommitCore(e) /\ GoTo(e, "confirm_core")

MarkCoreCommittedRefused(e) ==
    /\ At(e, "mark_core")
    /\ ~CanMarkCoreCommitted(row, e, exec[e].attempt)
    /\ GoTo(e, "confirm_core")
    /\ UNCHANGED <<tables, histories>>

\* Mutant: a refused checkpoint counts as fencing.
ConfirmCoreCommitted_Fences(e) ==
    /\ At(e, "confirm_core")
    /\ Stop(e)
    /\ UNCHANGED <<tables, histories>>

\* The target test is core_committed alone: the status is not looked at again.
ConfirmCoreCommitted(e) ==
    /\ At(e, "confirm_core")
    /\ IF Owned(row, e, exec[e].attempt) /\ row.committed
       THEN GoTo(e, AfterCommit(e))
       ELSE Stop(e)
    /\ UNCHANGED <<tables, histories>>

PublishFastPathReady(e) ==
    /\ At(e, "announce")
    /\ announced' = announced \cup {exec[e].ident}
    /\ GoTo(e, "mark_completed")
    /\ UNCHANGED <<tables, claims, alerted>>

Complete(e) ==
    /\ At(e, "mark_completed")
    /\ CanFinish(row, e, exec[e].attempt)
    /\ row' = Completed(row)
    /\ UNCHANGED <<core, now, histories>>

MarkCompleted(e) == Complete(e) /\ Stop(e)

MarkCompletedLost(e) == Complete(e) /\ GoTo(e, "confirm_completed")

MarkCompletedRefused(e) ==
    /\ At(e, "mark_completed")
    /\ ~CanFinish(row, e, exec[e].attempt)
    /\ GoTo(e, "confirm_completed")
    /\ UNCHANGED <<tables, histories>>

ConfirmCompleted(e) ==
    /\ At(e, "confirm_completed")
    /\ Stop(e)
    /\ UNCHANGED <<tables, histories>>

-----------------------------------------------------------------------------
(* The Catch of a failing stage and MARK_PROCESSING_FAILED *)

Catchable == Stages \ {"mark_failed", "confirm_failed", "alert"}

\* A fault that propagates: throttling, insufficient data, a timeout.
StageFails(e) ==
    /\ exec[e].pc \in Catchable
    /\ Fail(e, "STAGE")
    /\ UNCHANGED <<tables, histories>>

AfterFailure(e) ==
    IF exec[e].cause = "CORE_IDENTITY_CONFLICT" THEN GoTo(e, "alert") ELSE Stop(e)

RecordFailure(e) ==
    /\ At(e, "mark_failed")
    /\ CanFinish(row, e, exec[e].attempt)
    /\ row' = ProcessingFailed(row, exec[e].cause, now)
    /\ UNCHANGED <<core, now, histories>>

MarkProcessingFailed(e) == RecordFailure(e) /\ AfterFailure(e)

MarkProcessingFailedLost(e) == RecordFailure(e) /\ GoTo(e, "confirm_failed")

MarkProcessingFailedRefused(e) ==
    /\ At(e, "mark_failed")
    /\ ~CanFinish(row, e, exec[e].attempt)
    /\ GoTo(e, "confirm_failed")
    /\ UNCHANGED <<tables, histories>>

\* Mutant: a fenced execution reports its conflict all the same.
ConfirmProcessingFailed_Unfenced(e) ==
    /\ At(e, "confirm_failed")
    /\ AfterFailure(e)
    /\ UNCHANGED <<tables, histories>>

ConfirmProcessingFailed(e) ==
    /\ At(e, "confirm_failed")
    /\ IF FailureConfirmed(row, e, exec[e].attempt, exec[e].cause)
       THEN AfterFailure(e)
       ELSE Stop(e)
    /\ UNCHANGED <<tables, histories>>

\* The security alert of a recorded conflict, and its processing.failed push.
HandleCoreIdentityConflict(e) ==
    /\ At(e, "alert")
    /\ alerted' = TRUE
    /\ Stop(e)
    /\ UNCHANGED <<tables, claims, announced>>

CrashExecution(e) ==
    /\ exec[e].pc \in Stages
    /\ Stop(e)
    /\ UNCHANGED <<tables, histories>>

-----------------------------------------------------------------------------
ExecutionStep(e) ==
    \/ MarkRunning(e) \/ MarkRunningRefused(e) \/ ConfirmRunning(e)
    \/ Decide(e) \/ PutCore(e) \/ RereadCore(e) \/ RecoveryGate(e)
    \/ MarkCoreCommitted(e) \/ MarkCoreCommittedRefused(e) \/ ConfirmCoreCommitted(e)
    \/ PublishFastPathReady(e)
    \/ MarkCompleted(e) \/ MarkCompletedRefused(e) \/ ConfirmCompleted(e)
    \/ MarkProcessingFailed(e) \/ MarkProcessingFailedRefused(e)
    \/ ConfirmProcessingFailed(e) \/ HandleCoreIdentityConflict(e)

ExecutionFault(e) ==
    \/ MarkRunningLost(e) \/ PutCoreLost(e) \/ MarkCoreCommittedLost(e)
    \/ MarkCompletedLost(e) \/ MarkProcessingFailedLost(e)
    \/ StageFails(e) \/ CrashExecution(e)
=============================================================================
