--------------------------- MODULE InjectionProofs ---------------------------
(***************************************************************************)
(* Theorems about InjectionFlow for any number of requests, executions and *)
(* identities, any lease and any deadline.                                 *)
(*                                                                         *)
(* Argument: the typing lemmas say what each write leaves in the record    *)
(* and what each move changes of a request or an execution; no later proof *)
(* expands the moves or the writes again.  Every step of a request has one *)
(* of five effects, every step of an execution one of three, as far as the *)
(* record and the attempts are concerned (RequestEffects,                  *)
(* ExecutionEffects).  The inductive invariant IInv is preserved by each   *)
(* effect; the parts of it that follow the core and the failure causes     *)
(* need the executions' steps one by one.  RunIsNotAbandoned needs more   *)
(* than IInv: WorkInv, what an execution that confirms its own write may   *)
(* rely on.                                                                *)
(***************************************************************************)
EXTENDS InjectionRefinement, TLAPS

-----------------------------------------------------------------------------
(* What the writes leave in the record *)

LEMMA NoRecordType == NoRecord \in Record
  BY DEF Record, NoRecord, Statuses, Modes, Errors

LEMMA FirstLeaseWrite ==
    ASSUME NEW r \in Req, NEW t \in Nat, NEW new, new = FirstLease(r, t)
    PROVE  /\ new \in Record
           /\ new.status = "starting" /\ new.attempt = 1 /\ new.arn = None
           /\ ~new.committed /\ new.mode = "NORMAL" /\ new.error = "none"
           /\ new.retryable
  BY DEF Record, NoRecord, FirstLease, Statuses, Modes, Errors

LEMMA ReLeaseWrite ==
    ASSUME row \in Record, NEW r \in Req, NEW t \in Nat, NEW m \in Modes,
           NEW new, new = ReLease(row, r, t, m)
    PROVE  /\ new \in Record
           /\ new.status = "starting" /\ new.attempt = row.attempt + 1
           /\ new.arn = None /\ new.committed = row.committed
           /\ new.mode = m /\ new.error = "none" /\ new.retryable
<1>1. row.attempt + 1 \in Nat
  BY DEF Record
<1>2. QED
  BY <1>1 DEF Record, ReLease, Statuses, Errors

LEMMA StartFailedWrite ==
    ASSUME row \in Record, NEW t \in Nat, NEW retryable \in BOOLEAN,
           NEW new, new = StartFailed(row, t, retryable)
    PROVE  /\ new \in Record
           /\ new.status = "start_failed" /\ new.attempt = row.attempt
           /\ new.arn = row.arn /\ new.committed = row.committed
           /\ new.mode = row.mode /\ new.error = "START" /\ new.retryable = retryable
  BY DEF Record, StartFailed, Statuses, Errors

LEMMA RunningWrite ==
    ASSUME row \in Record, NEW e \in Exec, NEW t \in Nat, NEW new, new = Running(row, e, t)
    PROVE  /\ new \in Record
           /\ new.status = "running" /\ new.attempt = row.attempt
           /\ new.arn = e /\ new.committed = row.committed
           /\ new.mode = row.mode /\ new.error = row.error /\ new.retryable = row.retryable
  BY DEF Record, Running, Statuses

LEMMA CoreCommittedWrite ==
    ASSUME row \in Record, NEW new, new = CoreCommitted(row)
    PROVE  /\ new \in Record
           /\ new.status = row.status /\ new.attempt = row.attempt
           /\ new.arn = row.arn /\ new.committed
           /\ new.mode = row.mode /\ new.error = row.error /\ new.retryable = row.retryable
  BY DEF Record, CoreCommitted

LEMMA CompletedWrite ==
    ASSUME row \in Record, NEW new, new = Completed(row)
    PROVE  /\ new \in Record
           /\ new.status = "completed" /\ new.attempt = row.attempt
           /\ new.arn = row.arn /\ new.committed = row.committed
           /\ new.mode = row.mode /\ new.error = row.error /\ new.retryable = row.retryable
  BY DEF Record, Completed, Statuses

LEMMA ProcessingFailedWrite ==
    ASSUME row \in Record, NEW c \in Errors, NEW t \in Nat,
           NEW new, new = ProcessingFailed(row, c, t)
    PROVE  /\ new \in Record
           /\ new.status = "processing_failed" /\ new.attempt = row.attempt
           /\ new.arn = row.arn /\ new.committed = row.committed
           /\ new.mode = row.mode /\ new.error = c
           /\ new.retryable = (c # "CORE_IDENTITY_CONFLICT")
<1>1. (c # "CORE_IDENTITY_CONFLICT") \in BOOLEAN
  OBVIOUS
<1>2. QED
  BY <1>1 DEF Record, ProcessingFailed, Statuses

-----------------------------------------------------------------------------
(* What the moves change of a request *)

LEMMA QuietType == \A pc \in Steps \cup {"new", "done"} : Quiet(pc) \in Request
  BY DEF Quiet, Request, Modes

LEMMA MoveFrame ==
    ASSUME TypeOK, NEW r \in Req, NEW pc \in Steps, Move(r, pc)
    PROVE  /\ req' \in [Req -> Request]
           /\ req'[r].pc = pc /\ req'[r].time = req[r].time
           /\ req'[r].attempt = req[r].attempt /\ req'[r].effective = req[r].effective
           /\ req'[r].mode = req[r].mode
           /\ \A x \in Req \ {r} : req'[x] = req[x]
  BY DEF TypeOK, Move, Request

LEMMA FinishFrame ==
    ASSUME TypeOK, NEW r \in Req, Finish(r)
    PROVE  /\ req' \in [Req -> Request]
           /\ req'[r].pc = "done" /\ req'[r].time = 0 /\ req'[r].attempt = 0
           /\ ~req'[r].effective /\ req'[r].mode = "NORMAL"
           /\ \A x \in Req \ {r} : req'[x] = req[x]
<1>1. Quiet("done") \in Request
  BY QuietType
<1>2. QED
  BY <1>1 DEF TypeOK, Finish, Quiet

LEMMA HoldFrame ==
    ASSUME TypeOK, NEW r \in Req, row' \in Record, Hold(r, row')
    PROVE  /\ req' \in [Req -> Request]
           /\ req'[r].pc = "launch" /\ req'[r].time = req[r].time
           /\ req'[r].attempt = row'.attempt /\ ~req'[r].effective
           /\ req'[r].mode = row'.mode
           /\ \A x \in Req \ {r} : req'[x] = req[x]
<1> DEFINE x == [Quiet("launch") EXCEPT !.time = req[r].time,
                                        !.attempt = row'.attempt, !.mode = row'.mode]
<1>1. Quiet("launch") \in Request
  BY QuietType DEF Steps
<1>2. req[r].time \in Nat /\ row'.attempt \in Nat /\ row'.mode \in Modes
  BY DEF TypeOK, Request, Record
<1>3. x \in Request
  BY <1>1, <1>2 DEF Request
<1>4. QED
  BY <1>3 DEF TypeOK, Hold, Quiet

-----------------------------------------------------------------------------
(* What the moves change of an execution *)

LEMMA IdleType == \A pc \in Stages \cup {"unused", "stopped"} : Idle(pc) \in Execution
  BY DEF Idle, Execution, Modes, Errors

LEMMA GoToFrame ==
    ASSUME TypeOK, NEW e \in Exec, NEW pc \in Stages, GoTo(e, pc)
    PROVE  /\ exec' \in [Exec -> Execution]
           /\ exec'[e].pc = pc /\ exec'[e].attempt = exec[e].attempt
           /\ exec'[e].mode = exec[e].mode /\ exec'[e].ident = exec[e].ident
           /\ exec'[e].cause = exec[e].cause
           /\ \A x \in Exec \ {e} : exec'[x] = exec[x]
  BY DEF TypeOK, WorkflowTypeOK, GoTo, Execution

LEMMA StopFrame ==
    ASSUME TypeOK, NEW e \in Exec, Stop(e)
    PROVE  /\ exec' \in [Exec -> Execution]
           /\ exec'[e].pc = "stopped" /\ exec'[e].attempt = 0
           /\ exec'[e].mode = "NORMAL"
           /\ \A x \in Exec \ {e} : exec'[x] = exec[x]
  BY IdleType DEF TypeOK, WorkflowTypeOK, Stop, Idle

LEMMA FailFrame ==
    ASSUME TypeOK, NEW e \in Exec, NEW c \in Errors, Fail(e, c)
    PROVE  /\ exec' \in [Exec -> Execution]
           /\ exec'[e].pc = "mark_failed" /\ exec'[e].attempt = exec[e].attempt
           /\ exec'[e].mode = exec[e].mode /\ exec'[e].cause = c
           /\ \A x \in Exec \ {e} : exec'[x] = exec[x]
<1> DEFINE x == [exec[e] EXCEPT !.pc = "mark_failed", !.cause = c]
<1>1. "mark_failed" \in Stages
  BY DEF Stages
<1>2. x \in Execution
  BY <1>1 DEF TypeOK, WorkflowTypeOK, Execution
<1>3. exec' = [exec EXCEPT ![e] = x]
  BY DEF TypeOK, WorkflowTypeOK, Fail
<1>4. QED
  BY <1>2, <1>3 DEF TypeOK, WorkflowTypeOK, Execution

LEMMA StartFrame ==
    ASSUME TypeOK, NEW r \in Req, NEW S \in SUBSET Unused,
           StartExecutions(S, req[r].attempt, r, req[r].mode)
    PROVE  /\ exec' \in [Exec -> Execution]
           /\ \A x \in S : /\ exec'[x].pc = "mark_running" /\ exec[x].pc = "unused"
                           /\ exec'[x].attempt = req[r].attempt
                           /\ exec'[x].mode = req[r].mode
           /\ \A x \in Exec \ S : exec'[x] = exec[x]
<1> DEFINE new == [Idle("mark_running") EXCEPT !.attempt = req[r].attempt,
                                               !.owner = r, !.mode = req[r].mode]
<1>1. Idle("mark_running") \in Execution
  BY IdleType DEF Stages
<1>2. req[r].attempt \in Nat /\ req[r].mode \in Modes
  BY DEF TypeOK, Request
<1>3. new \in Execution
  BY <1>1, <1>2 DEF Execution
<1>4. /\ new.pc = "mark_running" /\ new.attempt = req[r].attempt
      /\ new.mode = req[r].mode
  BY <1>1 DEF Idle
<1>5. S \subseteq Exec /\ \A x \in S : exec[x].pc = "unused"
  BY DEF Unused
<1>6. exec' = [x \in Exec |-> IF x \in S THEN new ELSE exec[x]]
  BY DEF StartExecutions
<1> HIDE DEF new
<1>7. QED
  BY <1>3, <1>4, <1>5, <1>6 DEF TypeOK, WorkflowTypeOK

-----------------------------------------------------------------------------
(* The steps that move a request or an execution in a way of their own *)

LEMMA ArriveFrame ==
    ASSUME TypeOK, NEW r \in Req, Arrive(r)
    PROVE  /\ req' \in [Req -> Request]
           /\ req'[r].pc = "acquire" /\ req'[r].time = now /\ req'[r].attempt = 0
           /\ ~req'[r].effective /\ req'[r].mode = "NORMAL"
           /\ \A x \in Req \ {r} : req'[x] = req[x]
<1> DEFINE new == [Quiet("acquire") EXCEPT !.time = now]
<1>1. new \in Request
  BY QuietType DEF Steps, TypeOK, WorkflowTypeOK, Request
<1>2. QED
  BY <1>1 DEF TypeOK, Arrive, Quiet

LEMMA RouteFrame ==
    ASSUME TypeOK, NEW r \in Req, RouteSameKeyRequest(r)
    PROVE  /\ req' \in [Req -> Request]
           /\ req'[r].pc \in {"gate_stale", "gate_failed", "retry_start",
                             "reacquire_expired", "done"}
           /\ req'[r].time \in {0, req[r].time}
           /\ req'[r].attempt \in {0, row.attempt}
           /\ req'[r].effective => req[r].effective
           /\ req'[r].mode \in {"NORMAL", req[r].mode}
           /\ \A x \in Req \ {r} : req'[x] = req[x]
<1> DEFINE next == RouteOf(row, req[r].time)
<1>1. next \in {"gate_stale", "gate_failed", "retry_start", "reacquire_expired", "done"}
  BY DEF RouteOf
<1> HIDE DEF next
<1>2. CASE next = "done"
  <2>1. Finish(r)
    BY <1>2 DEF RouteSameKeyRequest, next
  <2>2. QED
    BY <2>1, FinishFrame
<1>3. CASE next # "done"
  <2> DEFINE new == [req[r] EXCEPT !.pc = next, !.attempt = row.attempt]
  <2>1. next \in Steps
    BY <1>1, <1>3 DEF Steps
  <2>2. /\ new \in Request
        /\ new.pc = next /\ new.time = req[r].time /\ new.attempt = row.attempt
        /\ new.effective = req[r].effective /\ new.mode = req[r].mode
    BY <2>1 DEF TypeOK, WorkflowTypeOK, Request, Record
  <2>3. req' = [req EXCEPT ![r].pc = next, ![r].attempt = row.attempt]
    BY <1>3 DEF RouteSameKeyRequest, next
  <2>4. req' = [req EXCEPT ![r] = new]
    BY <2>3 DEF TypeOK, Request
  <2> HIDE DEF new
  <2>5. QED
    BY <1>1, <1>3, <2>2, <2>4 DEF TypeOK
<1>4. QED
  BY <1>2, <1>3

LEMMA GateRecordFrame ==
    ASSUME TypeOK, NEW r \in Req, GateReadsRecord(r)
    PROVE  /\ req' \in [Req -> Request]
           /\ req'[r].pc \in {"gate_core_stale", "gate_core_failed"}
           /\ req'[r].time = req[r].time
           /\ req'[r].attempt \in {req[r].attempt, row.attempt}
           /\ req'[r].effective = row.committed
           /\ req'[r].mode = req[r].mode
           /\ \A x \in Req \ {r} : req'[x] = req[x]
<1>0. /\ row.attempt \in Nat /\ row.arn \in Exec \cup {None}
      /\ row.deadline \in Nat \cup {None} /\ row.committed \in BOOLEAN
  BY DEF TypeOK, WorkflowTypeOK, Record
<1>1. CASE On(r, "gate_stale")
  <2> DEFINE new == [req[r] EXCEPT !.pc = "gate_core_stale", !.attempt = row.attempt,
                                   !.arn = row.arn, !.deadline = row.deadline,
                                   !.effective = row.committed]
  <2>1. /\ new \in Request
        /\ new.pc = "gate_core_stale" /\ new.time = req[r].time
        /\ new.attempt = row.attempt /\ new.effective = row.committed
        /\ new.mode = req[r].mode
    BY <1>0 DEF TypeOK, Request, Steps
  <2>2. req' = [req EXCEPT ![r].pc = "gate_core_stale",
                                ![r].attempt = row.attempt, ![r].arn = row.arn,
                                ![r].deadline = row.deadline,
                                ![r].effective = row.committed]
    BY <1>1 DEF GateReadsRecord, On
  <2>3. req' = [req EXCEPT ![r] = new]
    BY <2>2 DEF TypeOK, Request
  <2> HIDE DEF new
  <2>4. QED
    BY <2>1, <2>3 DEF TypeOK
<1>2. CASE On(r, "gate_failed")
  <2> DEFINE new == [req[r] EXCEPT !.pc = "gate_core_failed", !.effective = row.committed]
  <2>1. /\ new \in Request
        /\ new.pc = "gate_core_failed" /\ new.time = req[r].time
        /\ new.attempt = req[r].attempt /\ new.effective = row.committed
        /\ new.mode = req[r].mode
    BY <1>0 DEF TypeOK, Request, Steps
  <2>2. req' = [req EXCEPT ![r].pc = "gate_core_failed", ![r].effective = row.committed]
    BY <1>2 DEF GateReadsRecord, On
  <2>3. req' = [req EXCEPT ![r] = new]
    BY <2>2 DEF TypeOK, Request
  <2> HIDE DEF new
  <2>4. QED
    BY <2>1, <2>3 DEF TypeOK
<1>3. QED
  BY <1>1, <1>2 DEF GateReadsRecord

LEMMA GateCoreFrame ==
    ASSUME TypeOK, NEW r \in Req, GateReadsCore(r)
    PROVE  /\ req' \in [Req -> Request]
           /\ req'[r].pc \in {"reconcile", "recover", "done"}
           /\ req'[r].time \in {0, req[r].time}
           /\ req'[r].attempt \in {0, req[r].attempt}
           /\ req'[r].effective => req[r].effective \/ core # None
           /\ req'[r].mode \in {"NORMAL", req[r].mode}
           /\ \A x \in Req \ {r} : req'[x] = req[x]
<1> DEFINE new(pc) == [req[r] EXCEPT !.pc = pc, !.effective = @ \/ core # None]
<1>1. \A pc \in Steps :
         /\ new(pc) \in Request
         /\ new(pc).pc = pc /\ new(pc).time = req[r].time
         /\ new(pc).attempt = req[r].attempt
         /\ new(pc).effective = (req[r].effective \/ core # None)
         /\ new(pc).mode = req[r].mode
  <2>1. (req[r].effective \/ core # None) \in BOOLEAN
    OBVIOUS
  <2>2. QED
    BY <2>1 DEF TypeOK, Request
<1>2. \/ Finish(r)
      \/ req' = [req EXCEPT ![r].pc = "reconcile", ![r].effective = @ \/ core # None]
      \/ req' = [req EXCEPT ![r].pc = "recover", ![r].effective = @ \/ core # None]
  BY DEF GateReadsCore
<1>3. Finish(r) \/ \E pc \in {"reconcile", "recover"} : req' = [req EXCEPT ![r] = new(pc)]
  BY <1>2 DEF TypeOK, Request
<1>4. CASE Finish(r)
  BY <1>4, FinishFrame
<1>5. ASSUME NEW pc \in {"reconcile", "recover"}, req' = [req EXCEPT ![r] = new(pc)]
      PROVE  /\ req' \in [Req -> Request] /\ req'[r] = new(pc)
             /\ \A x \in Req \ {r} : req'[x] = req[x]
  <2>1. new(pc) \in Request
    BY <1>1 DEF Steps
  <2> HIDE DEF new
  <2>2. QED
    BY <1>5, <2>1 DEF TypeOK
<1> HIDE DEF new
<1>6. QED
  BY <1>1, <1>3, <1>4, <1>5 DEF Steps

LEMMA DecideFrame ==
    ASSUME TypeOK, NEW e \in Exec, Decide(e)
    PROVE  /\ exec' \in [Exec -> Execution]
           /\ exec'[e].pc = "put_core" /\ exec'[e].ident \in Identities
           /\ exec'[e].attempt = exec[e].attempt
           /\ exec'[e].mode = exec[e].mode
           /\ \A x \in Exec \ {e} : exec'[x] = exec[x]
<1>1. PICK i \in Identities :
         exec' = [exec EXCEPT ![e].pc = "put_core", ![e].ident = i]
  BY DEF Decide
<1> DEFINE new == [exec[e] EXCEPT !.pc = "put_core", !.ident = i]
<1>2. /\ new \in Execution /\ new.pc = "put_core" /\ new.ident = i
      /\ new.attempt = exec[e].attempt /\ new.mode = exec[e].mode
  BY DEF TypeOK, WorkflowTypeOK, Execution, Stages
<1>3. exec' = [exec EXCEPT ![e] = new]
  BY <1>1 DEF TypeOK, WorkflowTypeOK, Execution
<1> HIDE DEF new
<1>4. QED
  BY <1>2, <1>3 DEF TypeOK, WorkflowTypeOK

-----------------------------------------------------------------------------
(* The inductive invariant *)

AbsentIsNew == IF row.status = "absent" THEN row = NoRecord ELSE row.attempt > 0

\* Nobody works for an attempt that has not been granted yet.
AttemptsGranted ==
    /\ \A r \in Req : req[r].attempt <= row.attempt
    /\ \A e \in Exec : exec[e].attempt <= row.attempt
    /\ \A c \in claims : c[1] <= row.attempt

\* The claim of the current attempt is the record's workflow_execution_arn.
CurrentClaim ==
    /\ \A c \in claims : c[1] = row.attempt =>
          /\ row.arn = c[2]
          /\ row.status \in {"running", "processing_failed", "completed"}
    /\ row.status = "running" => <<row.attempt, row.arn>> \in claims

\* No sample of the clock is ahead of it, and a live record carries no error.
SamplesPast == \A r \in Req : req[r].time <= now
LiveIsClean == row.status \in {"starting", "running"} => row.error = "none"

\* Enrichment-only work, granted or about to be, presupposes the core.
GradeJustified ==
    \/ core # None
    \/ /\ row.mode # "ENRICHMENT_ONLY"
       /\ \A r \in Req : ~req[r].effective /\ req[r].mode # "ENRICHMENT_ONLY"
       /\ \A e \in Exec : exec[e].mode # "ENRICHMENT_ONLY"

\* What an execution has behind it at each stage after the decision.
CoreStage(e) ==
    /\ exec[e].pc \in {"mark_core", "confirm_core", "announce"} =>
         core # None /\ (exec[e].mode # "ENRICHMENT_ONLY" => exec[e].ident = core)
    /\ exec[e].pc \in {"decide", "put_core", "reread_core"} => claims # {}
    /\ exec[e].pc = "gate" => exec[e].mode = "ENRICHMENT_ONLY"
    /\ exec[e].pc = "announce" => exec[e].mode # "ENRICHMENT_ONLY"
    /\ exec[e].pc \in {"put_core", "reread_core"} => exec[e].ident # None
    /\ exec[e].pc = "reread_core" => core # None
    /\ exec[e].pc \in {"announce", "mark_completed", "confirm_completed"} => row.committed

CoreStages == \A e \in Exec : CoreStage(e)

ConflictRecorded == row.status = "processing_failed" /\ row.error = "CORE_IDENTITY_CONFLICT"

\* Where a failure cause comes from, and what it says of the record.
FailureStage(e) ==
    /\ exec[e].pc \in {"mark_failed", "confirm_failed"} =>
         exec[e].cause \in {"STAGE", "CORE_IDENTITY_CONFLICT", "RECOVERY_CORE_MISSING"}
    /\ (exec[e].pc \in {"mark_failed", "confirm_failed"}
          /\ exec[e].cause = "CORE_IDENTITY_CONFLICT") => core # None
    /\ exec[e].pc = "alert" => ConflictRecorded

FailureStages ==
    /\ \A e \in Exec : FailureStage(e)
    /\ row.status = "processing_failed" =>
         (row.retryable <=> row.error # "CORE_IDENTITY_CONFLICT")
    /\ ConflictRecorded => core # None
    /\ alerted => ConflictRecorded

IInv == /\ TypeOK
        /\ AbsentIsNew
        /\ AttemptsGranted
        /\ CurrentClaim
        /\ OneClaimPerAttempt
        /\ OneHolderPerAttempt
        /\ SamplesPast
        /\ LiveIsClean
        /\ GradeJustified
        /\ CompletedIsCommitted
        /\ AnnouncedIsStored
        /\ CoreStages
        /\ FailureStages

-----------------------------------------------------------------------------
(* The effects of a request's step *)

Holding(q) == q.pc \in {"launch", "mark_start_failed"}

RequestFrame(r) ==
    /\ req' \in [Req -> Request]
    /\ req'[r].time \in {0, req[r].time, now}
    /\ req'[r].effective => req[r].effective \/ row.committed \/ core # None
    /\ \A x \in Req \ {r} : req'[x] = req[x]

\* r works on for the attempt it had or has just read, and gains no lease.
Keeps(r) ==
    /\ req'[r].attempt \in {0, req[r].attempt, row.attempt}
    /\ Holding(req'[r]) => Holding(req[r]) /\ req'[r].attempt = req[r].attempt
    /\ req'[r].mode \in {"NORMAL", req[r].mode}

Holds(r) == req'[r].attempt = row'.attempt /\ req'[r].mode = row'.mode

Leases(r) ==
    /\ row.status \notin {"running", "completed"}
    /\ row.status = "processing_failed" => row.retryable
    /\ row.status = "starting" => row.lease \in Nat /\ row.lease < req[r].time
    /\ row' \in Record
    /\ row'.status = "starting" /\ row'.attempt = row.attempt + 1
    /\ row'.committed = row.committed /\ row'.error = "none"
    /\ row'.mode = "ENRICHMENT_ONLY" => req[r].effective

SameAttempt ==
    /\ row' \in Record
    /\ row'.attempt = row.attempt /\ row'.committed = row.committed
    /\ row'.arn = row.arn /\ row'.mode = row.mode

Reconciles(r) ==
    /\ StaleRunning(row, req[r].time)
    /\ SameAttempt
    /\ row'.status = "processing_failed" /\ row'.error = "STALE_RUNNING_EXECUTION"
    /\ row'.retryable

FailsStart ==
    /\ row.status = "starting"
    /\ SameAttempt
    /\ row'.status = "start_failed"

\* A start never moves an execution that already works.
Launches(r) ==
    /\ exec' \in [Exec -> Execution]
    /\ \A x \in Exec :
         \/ exec'[x] = exec[x]
         \/ /\ exec[x].pc = "unused" /\ exec'[x].pc = "mark_running"
            /\ exec'[x].attempt = req[r].attempt
            /\ exec'[x].mode = req[r].mode

RequestEffect(r) ==
    /\ UNCHANGED <<core, now, claims, announced, alerted>>
    /\ RequestFrame(r)
    /\ \/ Keeps(r) /\ row' = row /\ (exec' = exec \/ Launches(r))
       \/ (Keeps(r) \/ Holds(r)) /\ Leases(r) /\ exec' = exec
       \/ Keeps(r) /\ (Reconciles(r) \/ FailsStart) /\ exec' = exec

\* A finished request.
LEMMA FinishEffect ==
    ASSUME TypeOK, NEW r \in Req, Finish(r)
    PROVE  RequestFrame(r) /\ Keeps(r)
  BY FinishFrame DEF RequestFrame, Keeps, Holding

\* A request that moves on with what it has, to a step that holds no new lease.
LEMMA MoveEffect ==
    ASSUME TypeOK, NEW r \in Req, NEW pc \in Steps, Move(r, pc),
           pc \in {"launch", "mark_start_failed"} => On(r, "launch")
    PROVE  RequestFrame(r) /\ Keeps(r)
  BY MoveFrame DEF RequestFrame, Keeps, Holding, On

\* The first lease is the first attempt of an absent record.
LEMMA FirstLeaseEffect ==
    ASSUME TypeOK, AbsentIsNew, NEW r \in Req, row.status = "absent",
           row' = FirstLease(r, req[r].time + LeaseTtl)
    PROVE  Leases(r)
<1>1. req[r].time + LeaseTtl \in Nat
  BY LeaseAssumption DEF TypeOK, Request
<1>2. /\ row' \in Record
      /\ row'.status = "starting" /\ row'.attempt = 1
      /\ ~row'.committed /\ row'.mode = "NORMAL" /\ row'.error = "none"
  BY <1>1, FirstLeaseWrite
<1>3. row.attempt = 0 /\ row.committed = FALSE
  BY DEF AbsentIsNew, NoRecord
<1>4. row'.attempt = row.attempt + 1
  BY <1>2, <1>3
<1>5. row'.committed = row.committed
  BY <1>2, <1>3 DEF Record
<1>6. QED
  BY <1>2, <1>4, <1>5 DEF Leases

\* A recovery lease is the next attempt of a record that nobody works on.
LEMMA ReLeaseEffect ==
    ASSUME TypeOK, NEW r \in Req, LeaseCondition(r),
           row' = ReLease(row, r, req[r].time + LeaseTtl, LeaseMode(r))
    PROVE  Leases(r)
<1>1. req[r].time + LeaseTtl \in Nat
  BY LeaseAssumption DEF TypeOK, Request
<1>2. LeaseMode(r) \in Modes /\ (LeaseMode(r) = "ENRICHMENT_ONLY" => req[r].effective)
  BY DEF LeaseMode, RecoveryMode, Modes
<1>3. row \in Record
  BY DEF TypeOK, WorkflowTypeOK
<1>4. /\ row' \in Record
      /\ row'.status = "starting" /\ row'.attempt = row.attempt + 1
      /\ row'.committed = row.committed /\ row'.mode = LeaseMode(r) /\ row'.error = "none"
  BY <1>1, <1>2, <1>3, ReLeaseWrite
<1>5. /\ row.status \notin {"running", "completed"}
      /\ row.status = "processing_failed" => row.retryable
      /\ row.status = "starting" => row.lease \in Nat /\ row.lease < req[r].time
  BY <1>3 DEF LeaseCondition, CanRecover, CanRetryStart, CanReacquireExpired,
              LeaseExpired, Record
<1>6. QED
  BY <1>2, <1>4, <1>5 DEF Leases

LEMMA ReconcileEffect ==
    ASSUME TypeOK, NEW r \in Req, MayReconcile(r),
           row' = ProcessingFailed(row, "STALE_RUNNING_EXECUTION", req[r].time)
    PROVE  Reconciles(r)
<1>1. req[r].time \in Nat /\ row \in Record
  BY DEF TypeOK, WorkflowTypeOK, Request
<1>2. "STALE_RUNNING_EXECUTION" \in Errors
  BY DEF Errors
<1>3. /\ SameAttempt
      /\ row'.status = "processing_failed" /\ row'.error = "STALE_RUNNING_EXECUTION"
      /\ row'.retryable
  <2> DEFINE c == "STALE_RUNNING_EXECUTION"
  <2>1. c \in Errors /\ c # "CORE_IDENTITY_CONFLICT"
    BY <1>2
  <2>2. row' = ProcessingFailed(row, c, req[r].time)
    OBVIOUS
  <2> HIDE DEF c
  <2>3. /\ row' \in Record
        /\ row'.status = "processing_failed" /\ row'.attempt = row.attempt
        /\ row'.arn = row.arn /\ row'.committed = row.committed
        /\ row'.mode = row.mode /\ row'.error = c
        /\ row'.retryable = (c # "CORE_IDENTITY_CONFLICT")
    BY <1>1, <2>1, <2>2, ProcessingFailedWrite
  <2>4. QED
    BY <2>1, <2>3 DEF SameAttempt, c
<1>4. QED
  BY <1>3 DEF Reconciles, MayReconcile, CanReconcile

LEMMA LaunchEffect ==
    ASSUME TypeOK, NEW r \in Req, NEW S \in SUBSET Unused,
           StartExecutions(S, req[r].attempt, r, req[r].mode)
    PROVE  Launches(r)
<1>1. S \subseteq Exec
  BY DEF Unused
<1>2. /\ exec' \in [Exec -> Execution]
      /\ \A x \in S : /\ exec'[x].pc = "mark_running" /\ exec[x].pc = "unused"
                      /\ exec'[x].attempt = req[r].attempt
                      /\ exec'[x].mode = req[r].mode
      /\ \A x \in Exec \ S : exec'[x] = exec[x]
  BY StartFrame
<1>3. QED
  BY <1>1, <1>2 DEF Launches

LEMMA RequestEffects ==
    ASSUME TypeOK, AbsentIsNew, NEW r \in Req,
           RequestStep(r) \/ RequestFault(r) \/ Arrive(r)
    PROVE  RequestEffect(r)
<1> USE DEF RequestEffect
<1>1. CASE Arrive(r)
  BY <1>1, ArriveFrame DEF Arrive, workflow, RequestFrame, Keeps, Holding
<1>2. CASE AcquireFirstLease(r)
  <2>1. Leases(r)
    BY <1>2, FirstLeaseEffect DEF AcquireFirstLease
  <2>2. RequestFrame(r) /\ Holds(r)
    BY <1>2, <2>1, HoldFrame DEF AcquireFirstLease, Leases, RequestFrame, Holds
  <2>3. QED
    BY <1>2, <2>1, <2>2 DEF AcquireFirstLease, workflow
<1>3. CASE AcquireFirstLeaseLost(r)
  <2>1. Leases(r)
    BY <1>3, FirstLeaseEffect DEF AcquireFirstLeaseLost
  <2>2. RequestFrame(r) /\ Keeps(r)
    BY <1>3, MoveEffect DEF AcquireFirstLeaseLost, Steps
  <2>3. QED
    BY <1>3, <2>1, <2>2 DEF AcquireFirstLeaseLost, workflow
<1>4. CASE KeyAlreadyExists(r)
  <2>1. RequestFrame(r) /\ Keeps(r)
    BY <1>4, MoveEffect DEF KeyAlreadyExists, Steps
  <2>2. QED
    BY <1>4, <2>1 DEF KeyAlreadyExists, workflow
<1>5. CASE RouteSameKeyRequest(r)
  BY <1>5, RouteFrame DEF RouteSameKeyRequest, workflow, RequestFrame, Keeps, Holding
<1>6. CASE GateReadsRecord(r)
  BY <1>6, GateRecordFrame DEF GateReadsRecord, workflow, RequestFrame, Keeps, Holding
<1>7. CASE GateReadsCore(r)
  BY <1>7, GateCoreFrame DEF GateReadsCore, workflow, RequestFrame, Keeps, Holding
<1>8. CASE Reconcile(r) \/ ReconcileLost(r)
  <2>1. Reconciles(r)
    BY <1>8, ReconcileEffect DEF Reconcile, ReconcileLost
  <2>2. RequestFrame(r) /\ Keeps(r)
    BY <1>8, MoveEffect DEF Reconcile, ReconcileLost, Steps
  <2>3. QED
    BY <1>8, <2>1, <2>2 DEF Reconcile, ReconcileLost, workflow
<1>9. CASE ReconcileRefused(r) \/ ConfirmReconcile(r)
  <2>1. RequestFrame(r) /\ Keeps(r)
    BY <1>9, MoveEffect, FinishEffect DEF ReconcileRefused, ConfirmReconcile, Steps
  <2>2. QED
    BY <1>9, <2>1 DEF ReconcileRefused, ConfirmReconcile, workflow
<1>10. CASE ReacquireLease(r)
  <2>1. Leases(r)
    BY <1>10, ReLeaseEffect DEF ReacquireLease
  <2>2. RequestFrame(r) /\ Holds(r)
    BY <1>10, <2>1, HoldFrame DEF ReacquireLease, Leases, RequestFrame, Holds
  <2>3. QED
    BY <1>10, <2>1, <2>2 DEF ReacquireLease, workflow
<1>11. CASE ReacquireLeaseLost(r)
  <2>1. Leases(r)
    BY <1>11, ReLeaseEffect DEF ReacquireLeaseLost
  <2>2. QED
    BY <1>11, <2>1, FinishEffect DEF ReacquireLeaseLost, workflow
<1>12. CASE RaceLost(r) \/ CrashRequest(r)
  BY <1>12, FinishEffect DEF RaceLost, CrashRequest, workflow
<1>13. CASE Launch(r) \/ LaunchDelivered2x(r)
  <2>1. \E S \in SUBSET Unused : StartExecutions(S, req[r].attempt, r, req[r].mode)
    BY <1>13 DEF Launch, LaunchDelivered2x
  <2>2. Launches(r)
    BY <2>1, LaunchEffect
  <2>3. RequestFrame(r) /\ Keeps(r)
    BY <1>13, FinishEffect DEF Launch, LaunchDelivered2x
  <2>4. QED
    BY <1>13, <2>2, <2>3 DEF Launch, LaunchDelivered2x, tables, histories
<1>14. CASE LaunchFails(r)
  <2>1. \/ exec' = exec
        \/ \E S \in SUBSET Unused : StartExecutions(S, req[r].attempt, r, req[r].mode)
    BY <1>14 DEF LaunchFails
  <2>2. exec' = exec \/ Launches(r)
    BY <2>1, LaunchEffect
  <2>3. RequestFrame(r) /\ Keeps(r)
    BY <1>14, MoveEffect DEF LaunchFails, Steps
  <2>4. QED
    BY <1>14, <2>2, <2>3 DEF LaunchFails, tables, histories
<1>15. CASE MarkStartFailed(r)
  <2>1. row' = row \/ FailsStart
    <3>1. req[r].time \in Nat /\ row \in Record
      BY DEF TypeOK, WorkflowTypeOK, Request
    <3>2. PICK retryable \in BOOLEAN :
             row' = IF CanMarkStartFailed(row, r, req[r].attempt)
                    THEN StartFailed(row, req[r].time, retryable) ELSE row
      BY <1>15 DEF MarkStartFailed
    <3>3. QED
      BY <3>1, <3>2, StartFailedWrite DEF CanMarkStartFailed, FailsStart, SameAttempt
  <2>2. RequestFrame(r) /\ Keeps(r)
    BY <1>15, FinishEffect DEF MarkStartFailed
  <2>3. QED
    BY <1>15, <2>1, <2>2 DEF MarkStartFailed, workflow
<1>16. QED
  BY <1>1, <1>2, <1>3, <1>4, <1>5, <1>6, <1>7, <1>8, <1>9, <1>10, <1>11, <1>12, <1>13,
     <1>14, <1>15 DEF RequestStep, RequestFault

-----------------------------------------------------------------------------
(* The effects of an execution's step *)

ExecutionFrame(e) ==
    /\ exec' \in [Exec -> Execution]
    /\ exec'[e].attempt \in {0, exec[e].attempt}
    /\ exec'[e].mode \in {"NORMAL", exec[e].mode}
    /\ \A x \in Exec \ {e} : exec'[x] = exec[x]

Claims(e) ==
    /\ At(e, "mark_running")
    /\ row.status = "starting" /\ exec[e].attempt = row.attempt
    /\ row' \in Record
    /\ row'.status = "running" /\ row'.arn = e /\ row'.attempt = row.attempt
    /\ row'.committed = row.committed /\ row'.error = row.error /\ row'.mode = row.mode
    /\ claims' = claims \cup {<<row.attempt, e>>}

Commits(e) ==
    /\ At(e, "mark_core")
    /\ row'.status = "running" /\ row'.error = row.error /\ row'.committed

Completes(e) ==
    /\ At(e, "mark_completed")
    /\ row'.status = "completed" /\ row'.error = row.error
    /\ row'.committed = row.committed

FailsStage(e) ==
    /\ At(e, "mark_failed")
    /\ row'.status = "processing_failed" /\ row'.error = exec[e].cause
    /\ row'.retryable = (exec[e].cause # "CORE_IDENTITY_CONFLICT")
    /\ row'.committed = row.committed

\* A final write, or the checkpoint, of the execution that owns the attempt.
Writes(e) ==
    /\ CanFinish(row, e, exec[e].attempt)
    /\ row' \in Record
    /\ row'.attempt = row.attempt /\ row'.arn = row.arn /\ row'.mode = row.mode
    /\ claims' = claims
    /\ Commits(e) \/ Completes(e) \/ FailsStage(e)

WritesCore(e) ==
    /\ At(e, "put_core")
    /\ core = None /\ core' = exec[e].ident
    /\ row' = row /\ claims' = claims

ExecutionEffect(e) ==
    /\ UNCHANGED <<now, req>>
    /\ ExecutionFrame(e)
    /\ \/ row' = row /\ claims' = claims /\ core' = core
       \/ (Claims(e) \/ Writes(e)) /\ core' = core
       \/ WritesCore(e)
    /\ \/ announced' = announced
       \/ At(e, "announce") /\ announced' = announced \cup {exec[e].ident}
    /\ \/ alerted' = alerted
       \/ At(e, "alert") /\ alerted' = TRUE /\ row' = row

LEMMA StopEffect ==
    ASSUME TypeOK, NEW e \in Exec, Stop(e)
    PROVE  ExecutionFrame(e)
  BY StopFrame DEF ExecutionFrame

LEMMA GoToEffect ==
    ASSUME TypeOK, NEW e \in Exec, NEW pc \in Stages, GoTo(e, pc)
    PROVE  ExecutionFrame(e)
  BY GoToFrame DEF ExecutionFrame

LEMMA FailEffect ==
    ASSUME TypeOK, NEW e \in Exec, NEW c \in Errors, Fail(e, c)
    PROVE  ExecutionFrame(e)
  BY FailFrame DEF ExecutionFrame

LEMMA BranchStages ==
    ASSUME NEW e \in Exec
    PROVE  AfterRunning(e) \in Stages /\ AfterCommit(e) \in Stages
  BY DEF AfterRunning, AfterCommit, Stages

LEMMA ClaimEffect ==
    ASSUME TypeOK, NEW e \in Exec, ClaimRunning(e)
    PROVE  Claims(e)
<1>1. row \in Record /\ now + RunDeadline \in Nat
  BY DeadlineAssumption DEF TypeOK, WorkflowTypeOK
<1>2. /\ row' \in Record
      /\ row'.status = "running" /\ row'.attempt = row.attempt
      /\ row'.arn = e /\ row'.committed = row.committed
      /\ row'.mode = row.mode /\ row'.error = row.error
  BY <1>1, RunningWrite DEF ClaimRunning
<1>3. QED
  BY <1>2 DEF ClaimRunning, CanMarkRunning, Claims

LEMMA WriteEffect ==
    ASSUME TypeOK, NEW e \in Exec, CommitCore(e) \/ Complete(e) \/ RecordFailure(e)
    PROVE  Writes(e)
<1>0. row \in Record /\ now \in Nat /\ exec[e].cause \in Errors
  BY DEF TypeOK, WorkflowTypeOK, Execution
<1>1. CASE CommitCore(e)
  <2>1. /\ row' \in Record
        /\ row'.status = row.status /\ row'.attempt = row.attempt
        /\ row'.arn = row.arn /\ row'.committed
        /\ row'.mode = row.mode /\ row'.error = row.error
    BY <1>0, <1>1, CoreCommittedWrite DEF CommitCore
  <2>2. CanFinish(row, e, exec[e].attempt) /\ row.status = "running"
    BY <1>1 DEF CommitCore, CanMarkCoreCommitted, CanFinish
  <2>3. QED
    BY <1>1, <2>1, <2>2 DEF CommitCore, histories, Writes, Commits
<1>2. CASE Complete(e)
  <2>1. /\ row' \in Record
        /\ row'.status = "completed" /\ row'.attempt = row.attempt
        /\ row'.arn = row.arn /\ row'.committed = row.committed
        /\ row'.mode = row.mode /\ row'.error = row.error
    BY <1>0, <1>2, CompletedWrite DEF Complete
  <2>2. QED
    BY <1>2, <2>1 DEF Complete, histories, Writes, Completes
<1>3. CASE RecordFailure(e)
  <2>1. /\ row' \in Record
        /\ row'.status = "processing_failed" /\ row'.attempt = row.attempt
        /\ row'.arn = row.arn /\ row'.committed = row.committed
        /\ row'.mode = row.mode /\ row'.error = exec[e].cause
        /\ row'.retryable = (exec[e].cause # "CORE_IDENTITY_CONFLICT")
    BY <1>0, <1>3, ProcessingFailedWrite DEF RecordFailure
  <2>2. QED
    BY <1>3, <2>1 DEF RecordFailure, histories, Writes, FailsStage
<1>4. QED
  BY <1>1, <1>2, <1>3

LEMMA ExecutionEffects ==
    ASSUME TypeOK, NEW e \in Exec, ExecutionStep(e) \/ ExecutionFault(e), UNCHANGED req
    PROVE  ExecutionEffect(e)
<1> USE DEF ExecutionEffect
<1>1. CASE MarkRunning(e) \/ MarkRunningLost(e)
  <2>1. Claims(e)
    BY <1>1, ClaimEffect DEF MarkRunning, MarkRunningLost
  <2>2. ExecutionFrame(e)
    BY <1>1, GoToEffect, BranchStages DEF MarkRunning, MarkRunningLost, Stages
  <2>3. QED
    BY <1>1, <2>1, <2>2 DEF MarkRunning, MarkRunningLost, ClaimRunning
<1>2. CASE MarkRunningRefused(e) \/ MarkCoreCommittedRefused(e)
           \/ MarkCompletedRefused(e) \/ MarkProcessingFailedRefused(e)
  <2>1. ExecutionFrame(e)
    BY <1>2, GoToEffect DEF MarkRunningRefused, MarkCoreCommittedRefused,
       MarkCompletedRefused, MarkProcessingFailedRefused, Stages
  <2>2. QED
    BY <1>2, <2>1 DEF MarkRunningRefused, MarkCoreCommittedRefused,
       MarkCompletedRefused, MarkProcessingFailedRefused, tables, histories
<1>3. CASE ConfirmRunning(e) \/ ConfirmCoreCommitted(e) \/ ConfirmCompleted(e)
  <2>1. ExecutionFrame(e)
    BY <1>3, GoToEffect, StopEffect, BranchStages
       DEF ConfirmRunning, ConfirmCoreCommitted, ConfirmCompleted
  <2>2. QED
    BY <1>3, <2>1 DEF ConfirmRunning, ConfirmCoreCommitted, ConfirmCompleted,
       tables, histories
<1>4. CASE Decide(e)
  BY <1>4, DecideFrame DEF ExecutionFrame, Decide, tables, histories
<1>5. CASE PutCore(e) \/ PutCoreLost(e)
  <2>1. ExecutionFrame(e)
    BY <1>5, GoToEffect DEF PutCore, PutCoreLost, Stages
  <2>2. QED
    BY <1>5, <2>1 DEF PutCore, PutCoreLost, WritesCore, histories
<1>6. CASE RereadCore(e) \/ RecoveryGate(e)
  <2>1. ExecutionFrame(e)
    <3>1. {"mark_core"} \subseteq Stages
          /\ {"CORE_IDENTITY_CONFLICT", "RECOVERY_CORE_MISSING"} \subseteq Errors
      BY DEF Stages, Errors
    <3>2. QED
      BY <1>6, <3>1, GoToEffect, FailEffect DEF RereadCore, RecoveryGate
  <2>2. QED
    BY <1>6, <2>1 DEF RereadCore, RecoveryGate, tables, histories
<1>7. CASE MarkCoreCommitted(e) \/ MarkCoreCommittedLost(e)
  <2>1. Writes(e)
    BY <1>7, WriteEffect DEF MarkCoreCommitted, MarkCoreCommittedLost
  <2>2. ExecutionFrame(e)
    BY <1>7, GoToEffect, BranchStages DEF MarkCoreCommitted, MarkCoreCommittedLost, Stages
  <2>3. QED
    BY <1>7, <2>1, <2>2 DEF MarkCoreCommitted, MarkCoreCommittedLost, CommitCore, histories
<1>8. CASE PublishFastPathReady(e)
  <2>1. ExecutionFrame(e)
    BY <1>8, GoToEffect DEF PublishFastPathReady, Stages
  <2>2. QED
    BY <1>8, <2>1 DEF PublishFastPathReady, tables
<1>9. CASE MarkCompleted(e) \/ MarkCompletedLost(e)
  <2>1. Writes(e)
    BY <1>9, WriteEffect DEF MarkCompleted, MarkCompletedLost
  <2>2. ExecutionFrame(e)
    BY <1>9, GoToEffect, StopEffect DEF MarkCompleted, MarkCompletedLost, Stages
  <2>3. QED
    BY <1>9, <2>1, <2>2 DEF MarkCompleted, MarkCompletedLost, Complete, histories
<1>10. CASE StageFails(e)
  <2>1. ExecutionFrame(e)
    BY <1>10, FailEffect DEF StageFails, Errors
  <2>2. QED
    BY <1>10, <2>1 DEF StageFails, tables, histories
<1>11. CASE MarkProcessingFailed(e) \/ MarkProcessingFailedLost(e)
  <2>1. Writes(e)
    BY <1>11, WriteEffect DEF MarkProcessingFailed, MarkProcessingFailedLost
  <2>2. ExecutionFrame(e)
    BY <1>11, GoToEffect, StopEffect
       DEF MarkProcessingFailed, MarkProcessingFailedLost, AfterFailure, Stages
  <2>3. QED
    BY <1>11, <2>1, <2>2 DEF MarkProcessingFailed, MarkProcessingFailedLost,
       RecordFailure, histories
<1>12. CASE ConfirmProcessingFailed(e)
  <2>1. ExecutionFrame(e)
    BY <1>12, GoToEffect, StopEffect DEF ConfirmProcessingFailed, AfterFailure, Stages
  <2>2. QED
    BY <1>12, <2>1 DEF ConfirmProcessingFailed, tables, histories
<1>13. CASE HandleCoreIdentityConflict(e) \/ CrashExecution(e)
  BY <1>13, StopEffect DEF HandleCoreIdentityConflict, CrashExecution, tables, histories
<1>14. QED
  BY <1>1, <1>2, <1>3, <1>4, <1>5, <1>6, <1>7, <1>8, <1>9, <1>10, <1>11, <1>12, <1>13
     DEF ExecutionStep, ExecutionFault

-----------------------------------------------------------------------------
(* The inductive invariant is preserved *)

Rests ==
    /\ UNCHANGED <<row, core, exec, claims, announced, alerted, req>>
    /\ now' \in Nat /\ now' >= now

StepEffect ==
    \/ \E r \in Req : RequestEffect(r)
    \/ \E e \in Exec : ExecutionEffect(e)
    \/ Rests

LEMMA StepEffects ==
    ASSUME TypeOK, AbsentIsNew, [Next]_vars
    PROVE  StepEffect
<1>1. CASE \E r \in Req : RequestStep(r) \/ RequestFault(r) \/ Arrive(r)
  BY <1>1, RequestEffects DEF StepEffect
<1>2. CASE \E e \in Exec : (ExecutionStep(e) \/ ExecutionFault(e)) /\ UNCHANGED req
  BY <1>2, ExecutionEffects DEF StepEffect
<1>3. CASE Tick \/ UNCHANGED vars
  BY <1>3 DEF StepEffect, Rests, Tick, vars, histories, TypeOK, WorkflowTypeOK
<1>4. QED
  BY <1>1, <1>2, <1>3 DEF Next, Progress, Fault

LEMMA TypeStep ==
    ASSUME IInv, StepEffect
    PROVE  TypeOK'
<1> USE DEF IInv
<1>0. /\ row \in Record /\ core \in Identities \cup {None} /\ now \in Nat
      /\ exec \in [Exec -> Execution] /\ claims \subseteq (Nat \X Exec)
      /\ announced \subseteq Identities /\ alerted \in BOOLEAN
      /\ row.attempt \in Nat
  BY DEF TypeOK, WorkflowTypeOK, Record
<1>1. ASSUME NEW r \in Req, RequestEffect(r)
      PROVE  TypeOK'
  BY <1>0, <1>1 DEF RequestEffect, RequestFrame, Leases, Reconciles, FailsStart,
     SameAttempt, Launches, TypeOK, WorkflowTypeOK
<1>2. ASSUME NEW e \in Exec, ExecutionEffect(e)
      PROVE  TypeOK'
  <2>1. exec[e].ident \in Identities \cup {None}
    BY <1>0 DEF Execution
  <2>2. At(e, "announce") => exec[e].ident \in Identities
    BY <1>0, <2>1 DEF CoreStages, CoreStage, At
  <2>3. row' \in Record /\ core' \in Identities \cup {None}
    BY <1>0, <1>2, <2>1 DEF ExecutionEffect, Claims, Writes, WritesCore
  <2>4. claims' \subseteq (Nat \X Exec)
    BY <1>0, <1>2 DEF ExecutionEffect, Claims, Writes, WritesCore
  <2>5. announced' \subseteq Identities /\ alerted' \in BOOLEAN
    BY <1>0, <1>2, <2>2 DEF ExecutionEffect
  <2>6. QED
    BY <1>0, <1>2, <2>3, <2>4, <2>5 DEF ExecutionEffect, ExecutionFrame,
       TypeOK, WorkflowTypeOK
<1>3. CASE Rests
  BY <1>0, <1>3 DEF Rests, TypeOK, WorkflowTypeOK
<1>4. QED
  BY <1>1, <1>2, <1>3 DEF StepEffect

\* What the types say of the attempts, for the arithmetic below.
LEMMA AttemptTypes ==
    ASSUME TypeOK
    PROVE  /\ row.attempt \in Nat
           /\ \A r \in Req : req[r].attempt \in Nat /\ req[r].time \in Nat
           /\ \A e \in Exec : exec[e].attempt \in Nat
           /\ \A c \in claims : c[1] \in Nat /\ c[2] \in Exec
  BY DEF TypeOK, WorkflowTypeOK, Record, Request, Execution

LEMMA AbsentStep ==
    ASSUME IInv, StepEffect
    PROVE  AbsentIsNew'
<1>0. row.attempt \in Nat /\ AbsentIsNew
  BY AttemptTypes DEF IInv
<1>1. ASSUME NEW r \in Req, RequestEffect(r)
      PROVE  AbsentIsNew'
  BY <1>0, <1>1 DEF RequestEffect, Leases, Reconciles, FailsStart, SameAttempt,
     StaleRunning, AbsentIsNew
<1>2. ASSUME NEW e \in Exec, ExecutionEffect(e)
      PROVE  AbsentIsNew'
  BY <1>0, <1>2 DEF ExecutionEffect, Claims, Writes, Commits, Completes, FailsStage,
     WritesCore, CanFinish, AbsentIsNew
<1>3. QED
  BY <1>0, <1>1, <1>2 DEF StepEffect, Rests, AbsentIsNew

LEMMA AttemptsStep ==
    ASSUME IInv, StepEffect
    PROVE  AttemptsGranted'
<1>0. /\ row.attempt \in Nat
      /\ \A r \in Req : req[r].attempt \in Nat /\ req[r].attempt <= row.attempt
      /\ \A e \in Exec : exec[e].attempt \in Nat /\ exec[e].attempt <= row.attempt
      /\ \A c \in claims : c[1] \in Nat /\ c[1] <= row.attempt
  BY AttemptTypes DEF IInv, AttemptsGranted
<1>1. ASSUME NEW r \in Req, RequestEffect(r)
      PROVE  AttemptsGranted'
  <2>1. CASE (Keeps(r) \/ Holds(r)) /\ Leases(r) /\ exec' = exec
    <3>1. row'.attempt = row.attempt + 1 /\ row'.attempt \in Nat
      BY <1>0, <2>1 DEF Leases
    <3>2. req'[r].attempt \in {0, req[r].attempt, row.attempt, row'.attempt}
      BY <2>1 DEF Keeps, Holds
    <3>3. claims' = claims /\ \A x \in Req \ {r} : req'[x] = req[x]
      BY <1>1 DEF RequestEffect, RequestFrame
    <3>4. \A x \in Req : req'[x].attempt <= row'.attempt
      BY <1>0, <3>1, <3>2, <3>3
    <3>5. /\ \A e \in Exec : exec'[e].attempt <= row'.attempt
          /\ \A c \in claims' : c[1] <= row'.attempt
      BY <1>0, <2>1, <3>1, <3>3
    <3>6. QED
      BY <3>4, <3>5 DEF AttemptsGranted
  <2>2. CASE row' = row \/ SameAttempt
    <3>1. row'.attempt = row.attempt
      BY <2>2 DEF SameAttempt
    <3>2. /\ claims' = claims /\ \A x \in Req \ {r} : req'[x] = req[x]
          /\ req'[r].attempt \in {0, req[r].attempt, row.attempt}
      BY <1>0, <1>1, <3>1 DEF RequestEffect, RequestFrame, Keeps, Leases
    <3>3. \A e \in Exec : exec'[e].attempt \in {exec[e].attempt, req[r].attempt}
      BY <1>1 DEF RequestEffect, Launches
    <3>4. QED
      BY <1>0, <3>1, <3>2, <3>3 DEF AttemptsGranted
  <2>3. QED
    BY <1>1, <2>1, <2>2 DEF RequestEffect, Reconciles, FailsStart
<1>2. ASSUME NEW e \in Exec, ExecutionEffect(e)
      PROVE  AttemptsGranted'
  <2>1. /\ row'.attempt = row.attempt /\ req' = req
        /\ exec'[e].attempt \in {0, exec[e].attempt}
        /\ \A x \in Exec \ {e} : exec'[x] = exec[x]
        /\ claims' \subseteq claims \cup {<<row.attempt, e>>}
    BY <1>2 DEF ExecutionEffect, ExecutionFrame, Claims, Writes, WritesCore
  <2>2. QED
    BY <1>0, <2>1 DEF AttemptsGranted
<1>3. CASE Rests
  BY <1>0, <1>3 DEF Rests, AttemptsGranted
<1>4. QED
  BY <1>1, <1>2, <1>3 DEF StepEffect

LEMMA ClaimsStep ==
    ASSUME IInv, StepEffect
    PROVE  CurrentClaim' /\ OneClaimPerAttempt'
<1>0. /\ row.attempt \in Nat
      /\ \A c \in claims : c[1] \in Nat /\ c[1] <= row.attempt
      /\ CurrentClaim /\ OneClaimPerAttempt
  BY AttemptTypes DEF IInv, AttemptsGranted
<1>1. ASSUME NEW r \in Req, RequestEffect(r)
      PROVE  CurrentClaim' /\ OneClaimPerAttempt'
  <2>1. claims' = claims
    BY <1>1 DEF RequestEffect
  <2>2. CASE Leases(r)
    <3>1. row'.status = "starting" /\ \A c \in claims : c[1] # row'.attempt
      BY <1>0, <2>2 DEF Leases
    <3>2. QED
      BY <1>0, <2>1, <3>1 DEF CurrentClaim, OneClaimPerAttempt
  <2>3. CASE Reconciles(r) \/ FailsStart \/ row' = row
    <3>1. row'.attempt = row.attempt /\ row'.arn = row.arn
      BY <2>3 DEF Reconciles, FailsStart, SameAttempt
    <3>2. \/ row' = row
          \/ row'.status = "processing_failed"
          \/ row.status = "starting" /\ row'.status = "start_failed"
      BY <2>3 DEF Reconciles, FailsStart
    <3>3. QED
      BY <1>0, <2>1, <3>1, <3>2 DEF CurrentClaim, OneClaimPerAttempt
  <2>4. QED
    BY <1>1, <2>2, <2>3 DEF RequestEffect
<1>2. ASSUME NEW e \in Exec, ExecutionEffect(e)
      PROVE  CurrentClaim' /\ OneClaimPerAttempt'
  <2>1. CASE Claims(e)
    <3>1. \A c \in claims : c[1] # row.attempt
      BY <1>0, <2>1 DEF Claims, CurrentClaim
    <3>2. claims' = claims \cup {<<row.attempt, e>>}
      BY <2>1 DEF Claims
    <3>3. OneClaimPerAttempt'
      BY <1>0, <3>1, <3>2 DEF OneClaimPerAttempt
    <3>4. CurrentClaim'
      BY <2>1, <3>1, <3>2 DEF Claims, CurrentClaim
    <3>5. QED
      BY <3>3, <3>4
  <2>2. CASE Writes(e)
    BY <1>0, <2>2 DEF Writes, CanFinish, Commits, Completes, FailsStage, CurrentClaim,
       OneClaimPerAttempt
  <2>3. CASE row' = row /\ claims' = claims
    BY <1>0, <2>3 DEF CurrentClaim, OneClaimPerAttempt
  <2>4. QED
    BY <1>2, <2>1, <2>2, <2>3 DEF ExecutionEffect, WritesCore
<1>3. CASE Rests
  BY <1>0, <1>3 DEF Rests, CurrentClaim, OneClaimPerAttempt
<1>4. QED
  BY <1>1, <1>2, <1>3 DEF StepEffect

LEMMA HolderStep ==
    ASSUME IInv, StepEffect
    PROVE  OneHolderPerAttempt'
<1> DEFINE OneHolder(q) == \A r, s \in Req :
              r # s /\ Holding(q[r]) /\ Holding(q[s]) => q[r].attempt # q[s].attempt
<1>0. /\ row.attempt \in Nat
      /\ \A r \in Req : req[r].attempt \in Nat /\ req[r].attempt <= row.attempt
  BY AttemptTypes DEF IInv, AttemptsGranted
<1>1. OneHolder(req)
  BY DEF IInv, OneHolderPerAttempt, Holding
<1>2. ASSUME NEW r \in Req, RequestEffect(r)
      PROVE  OneHolder(req')
  <2>1. \A x \in Req \ {r} : req'[x] = req[x]
    BY <1>2 DEF RequestEffect, RequestFrame
  <2>2. CASE Keeps(r)
    BY <1>1, <2>1, <2>2 DEF Keeps
  <2>3. CASE Holds(r) /\ Leases(r)
    <3>1. req'[r].attempt = row.attempt + 1
      BY <2>3 DEF Holds, Leases
    <3>2. \A x \in Req \ {r} : req'[x].attempt # req'[r].attempt
      BY <1>0, <2>1, <3>1
    <3>3. QED
      BY <1>1, <2>1, <3>2
  <2>4. QED
    BY <1>2, <2>2, <2>3 DEF RequestEffect
<1>3. OneHolder(req')
  BY <1>1, <1>2 DEF StepEffect, ExecutionEffect, Rests
<1>4. QED
  BY <1>3 DEF OneHolderPerAttempt, Holding

LEMMA CleanStep ==
    ASSUME IInv, StepEffect
    PROVE  SamplesPast' /\ LiveIsClean'
<1>0. /\ now \in Nat /\ \A r \in Req : req[r].time \in Nat /\ req[r].time <= now
      /\ LiveIsClean
  BY AttemptTypes DEF IInv, SamplesPast, TypeOK, WorkflowTypeOK
<1>1. SamplesPast'
  BY <1>0 DEF StepEffect, RequestEffect, RequestFrame, ExecutionEffect, Rests, SamplesPast
<1>2. LiveIsClean'
  <2>1. ASSUME NEW r \in Req, RequestEffect(r)
        PROVE  LiveIsClean'
    BY <1>0, <2>1 DEF RequestEffect, Leases, Reconciles, FailsStart, LiveIsClean
  <2>2. ASSUME NEW e \in Exec, ExecutionEffect(e)
        PROVE  LiveIsClean'
    BY <1>0, <2>2 DEF ExecutionEffect, Claims, Writes, WritesCore, Commits, Completes,
       FailsStage, CanFinish, LiveIsClean
  <2>3. QED
    BY <1>0, <2>1, <2>2 DEF StepEffect, Rests, LiveIsClean
<1>3. QED
  BY <1>1, <1>2

\* Once a core is stored it stays, and so do a checkpoint and a recorded conflict.
LEMMA Monotone ==
    ASSUME IInv, StepEffect
    PROVE  /\ core # None => core' = core
           /\ row.committed => row'.committed
           /\ ConflictRecorded => row' = row
           /\ claims \subseteq claims'
<1>1. ASSUME NEW r \in Req, RequestEffect(r)
      PROVE  /\ core' = core
             /\ row'.committed = row.committed
             /\ ConflictRecorded => row' = row
             /\ claims' = claims
  BY <1>1 DEF RequestEffect, Leases, Reconciles, FailsStart, SameAttempt, StaleRunning,
     ConflictRecorded, IInv, FailureStages
<1>2. ASSUME NEW e \in Exec, ExecutionEffect(e)
      PROVE  /\ core # None => core' = core
             /\ row.committed => row'.committed
             /\ ConflictRecorded => row' = row
             /\ claims \subseteq claims'
  BY <1>2 DEF ExecutionEffect, Claims, Writes, Commits, Completes, FailsStage,
     WritesCore, CanFinish, ConflictRecorded
<1>3. QED
  BY <1>1, <1>2 DEF StepEffect, Rests

LEMMA GradeStep ==
    ASSUME IInv, StepEffect
    PROVE  GradeJustified'
<1>1. CASE core # None
  BY <1>1, Monotone DEF GradeJustified
<1>2. CASE core = None
  <2>0. /\ row.mode # "ENRICHMENT_ONLY" /\ ~row.committed
        /\ \A r \in Req : ~req[r].effective /\ req[r].mode # "ENRICHMENT_ONLY"
        /\ \A e \in Exec : exec[e].mode # "ENRICHMENT_ONLY"
    BY <1>2 DEF IInv, GradeJustified, CompletedIsCommitted
  <2>1. ASSUME NEW r \in Req, RequestEffect(r)
        PROVE  GradeJustified'
    <3>1. row'.mode # "ENRICHMENT_ONLY"
      BY <2>0, <2>1 DEF RequestEffect, Leases, Reconciles, FailsStart, SameAttempt
    <3>2. /\ ~req'[r].effective /\ req'[r].mode # "ENRICHMENT_ONLY"
          /\ \A x \in Req \ {r} : req'[x] = req[x]
      BY <1>2, <2>0, <2>1, <3>1 DEF RequestEffect, RequestFrame, Keeps, Holds
    <3>3. \A e \in Exec : exec'[e].mode # "ENRICHMENT_ONLY"
      BY <2>0, <2>1 DEF RequestEffect, Launches
    <3>4. QED
      BY <2>0, <3>1, <3>2, <3>3 DEF GradeJustified
  <2>2. ASSUME NEW e \in Exec, ExecutionEffect(e)
        PROVE  GradeJustified'
    <3>1. row'.mode # "ENRICHMENT_ONLY" /\ req' = req
      BY <2>0, <2>2 DEF ExecutionEffect, Claims, Writes, WritesCore
    <3>2. \A x \in Exec : exec'[x].mode # "ENRICHMENT_ONLY"
      BY <2>0, <2>2 DEF ExecutionEffect, ExecutionFrame
    <3>3. QED
      BY <2>0, <3>1, <3>2 DEF GradeJustified
  <2>3. CASE Rests
    BY <2>0, <2>3 DEF Rests, GradeJustified
  <2>4. QED
    BY <2>1, <2>2, <2>3 DEF StepEffect
<1>3. QED
  BY <1>1, <1>2

LEMMA CommittedStep ==
    ASSUME IInv, StepEffect
    PROVE  CompletedIsCommitted'
<1>0. CompletedIsCommitted /\ CoreStages
  BY DEF IInv
<1>1. ASSUME NEW r \in Req, RequestEffect(r)
      PROVE  CompletedIsCommitted'
  BY <1>0, <1>1 DEF RequestEffect, Leases, Reconciles, FailsStart, SameAttempt,
     CompletedIsCommitted
<1>2. ASSUME NEW e \in Exec, ExecutionEffect(e)
      PROVE  CompletedIsCommitted'
  <2>1. CASE Claims(e)
    BY <1>0, <1>2, <2>1 DEF ExecutionEffect, Claims, WritesCore, CompletedIsCommitted
  <2>2. CASE Writes(e)
    <3>1. At(e, "mark_core") => core # None
      BY <1>0 DEF CoreStages, CoreStage, At
    <3>2. At(e, "mark_completed") => row.committed
      BY <1>0 DEF CoreStages, CoreStage, At
    <3>3. core' = core \/ core = None
      BY <1>2 DEF ExecutionEffect, WritesCore
    <3>4. core # None => core' # None
      BY <3>3
    <3>5. QED
      BY <1>0, <2>2, <3>1, <3>2, <3>4 DEF Writes, Commits, Completes, FailsStage,
         CompletedIsCommitted
  <2>3. CASE row' = row
    <3>1. core # None => core' # None
      BY <1>2 DEF ExecutionEffect, WritesCore
    <3>2. QED
      BY <1>0, <2>3, <3>1 DEF CompletedIsCommitted
  <2>4. QED
    BY <1>2, <2>1, <2>2, <2>3 DEF ExecutionEffect, WritesCore
<1>3. CASE Rests
  BY <1>0, <1>3 DEF Rests, CompletedIsCommitted
<1>4. QED
  BY <1>1, <1>2, <1>3 DEF StepEffect

LEMMA AnnouncedStep ==
    ASSUME IInv, StepEffect
    PROVE  AnnouncedIsStored'
<1>0. /\ announced \subseteq {core} /\ announced \subseteq Identities
      /\ CoreStages
  BY DEF IInv, AnnouncedIsStored, TypeOK, WorkflowTypeOK
<1>1. ASSUME NEW e \in Exec, ExecutionEffect(e)
      PROVE  AnnouncedIsStored'
  <2>1. CASE core' = core
    <3>1. At(e, "announce") => exec[e].ident = core
      BY <1>0 DEF CoreStages, CoreStage, At
    <3>2. QED
      BY <1>0, <1>1, <2>1, <3>1 DEF ExecutionEffect, AnnouncedIsStored
  <2>2. CASE WritesCore(e)
    <3>1. announced = {}
      BY <1>0, <2>2, IdentityAssumption DEF WritesCore
    <3>2. announced' = announced
      BY <1>1, <2>2 DEF ExecutionEffect, WritesCore, At
    <3>3. QED
      BY <3>1, <3>2 DEF AnnouncedIsStored
  <2>3. QED
    BY <1>1, <2>1, <2>2 DEF ExecutionEffect
<1>2. CASE Rests \/ \E r \in Req : RequestEffect(r)
  BY <1>0, <1>2 DEF Rests, RequestEffect, AnnouncedIsStored
<1>3. QED
  BY <1>1, <1>2 DEF StepEffect

-----------------------------------------------------------------------------
(* The stages of an execution, action by action *)

LEMMA CoreMove ==
    ASSUME IInv, NEW e \in Exec, ExecutionStep(e) \/ ExecutionFault(e), UNCHANGED req
    PROVE  CoreStage(e)'
<1>0. /\ TypeOK /\ CoreStage(e) /\ exec[e].ident \in Identities \cup {None}
      /\ CompletedIsCommitted
  BY DEF IInv, CoreStages, TypeOK, WorkflowTypeOK, Execution
<1>a. claims # {} => claims' # {}
  BY StepEffects, Monotone DEF IInv, Next, Progress, Fault
<1>1. CASE MarkRunning(e) \/ ConfirmRunning(e)
  <2>1. \/ GoTo(e, AfterRunning(e)) /\ claims' # {}
        \/ Stop(e)
    BY <1>0, <1>1, <1>a DEF MarkRunning, ClaimRunning, ConfirmRunning, CanFinish, IInv,
       CurrentClaim
  <2>2. QED
    BY <1>0, <2>1, GoToFrame, StopFrame, BranchStages DEF CoreStage, AfterRunning
<1>2. CASE MarkRunningLost(e) \/ MarkRunningRefused(e)
  BY <1>0, <1>2, GoToFrame DEF MarkRunningLost, MarkRunningRefused, Stages, CoreStage
<1>3. CASE Decide(e)
  BY <1>0, <1>3, <1>a, DecideFrame, IdentityAssumption DEF Decide, At, CoreStage
<1>4. CASE PutCore(e)
  <2>0. exec[e].ident # None /\ claims' # {}
    BY <1>0, <1>4, <1>a DEF PutCore, At, CoreStage
  <2>1. CASE core = None
    <3>1. core' = exec[e].ident /\ GoTo(e, "mark_core")
      BY <1>4, <2>1 DEF PutCore
    <3>2. QED
      BY <1>0, <2>0, <3>1, GoToFrame DEF Stages, CoreStage
  <2>2. CASE core # None
    <3>1. core' = core /\ GoTo(e, "reread_core")
      BY <1>4, <2>2 DEF PutCore
    <3>2. QED
      BY <1>0, <2>0, <2>2, <3>1, GoToFrame DEF Stages, CoreStage
  <2>3. QED
    BY <2>1, <2>2
<1>5. CASE PutCoreLost(e)
  <2>0. exec[e].ident # None /\ core' = exec[e].ident /\ claims' # {}
    BY <1>0, <1>5, <1>a DEF PutCoreLost, At, CoreStage
  <2>1. GoTo(e, "reread_core") \/ GoTo(e, "decide")
    BY <1>5 DEF PutCoreLost
  <2>2. QED
    BY <1>0, <2>0, <2>1, GoToFrame DEF Stages, CoreStage
<1>6. CASE RereadCore(e)
  <2>1. exec[e].ident # None /\ core' = core
    BY <1>0, <1>6 DEF RereadCore, At, CoreStage, tables
  <2>2. \/ core = exec[e].ident /\ GoTo(e, "mark_core")
        \/ Fail(e, "CORE_IDENTITY_CONFLICT")
    BY <1>6 DEF RereadCore
  <2>3. QED
    BY <1>0, <2>1, <2>2, GoToFrame, FailFrame DEF Stages, Errors, CoreStage
<1>7. CASE RecoveryGate(e)
  <2>1. exec[e].mode = "ENRICHMENT_ONLY" /\ core' = core
    BY <1>0, <1>7 DEF RecoveryGate, At, CoreStage, tables
  <2>2. \/ core # None /\ GoTo(e, "mark_core")
        \/ Fail(e, "RECOVERY_CORE_MISSING")
    BY <1>7 DEF RecoveryGate
  <2>3. QED
    BY <1>0, <2>1, <2>2, GoToFrame, FailFrame DEF Stages, Errors, CoreStage
<1>8. CASE MarkCoreCommitted(e) \/ ConfirmCoreCommitted(e)
  <2>1. /\ core # None /\ (exec[e].mode # "ENRICHMENT_ONLY" => exec[e].ident = core)
        /\ core' = core
    BY <1>0, <1>8 DEF MarkCoreCommitted, CommitCore, ConfirmCoreCommitted, At,
       CoreStage, tables
  <2>2. \/ GoTo(e, AfterCommit(e)) /\ row'.committed
        \/ Stop(e)
    <3>1. CASE MarkCoreCommitted(e)
      <4>1. Writes(e) /\ GoTo(e, AfterCommit(e)) /\ At(e, "mark_core")
        BY <1>0, <3>1, WriteEffect DEF MarkCoreCommitted, CommitCore
      <4>2. QED
        BY <4>1 DEF Writes, Commits, Completes, FailsStage, At
    <3>2. CASE ConfirmCoreCommitted(e)
      BY <3>2 DEF ConfirmCoreCommitted, tables
    <3>3. QED
      BY <1>8, <3>1, <3>2
  <2>3. QED
    BY <1>0, <2>1, <2>2, GoToFrame, StopFrame, BranchStages DEF CoreStage, AfterCommit
<1>9. CASE MarkCoreCommittedLost(e) \/ MarkCoreCommittedRefused(e)
  <2>1. /\ core # None /\ (exec[e].mode # "ENRICHMENT_ONLY" => exec[e].ident = core)
        /\ core' = core /\ GoTo(e, "confirm_core")
    BY <1>0, <1>9 DEF MarkCoreCommittedLost, CommitCore, MarkCoreCommittedRefused, At,
       CoreStage, tables
  <2>2. QED
    BY <1>0, <2>1, GoToFrame DEF Stages, CoreStage
<1>10. CASE PublishFastPathReady(e) \/ MarkCompletedRefused(e)
  <2>1. /\ row.committed /\ row' = row
        /\ GoTo(e, "mark_completed") \/ GoTo(e, "confirm_completed")
    BY <1>0, <1>10 DEF PublishFastPathReady, MarkCompletedRefused, At, CoreStage, tables
  <2>2. QED
    BY <1>0, <2>1, GoToFrame DEF Stages, CoreStage
<1>11. CASE MarkCompletedLost(e)
  <2>1. Writes(e) /\ At(e, "mark_completed") /\ GoTo(e, "confirm_completed")
    BY <1>0, <1>11, WriteEffect DEF MarkCompletedLost, Complete
  <2>2. row'.committed
    BY <1>0, <2>1 DEF Writes, Commits, Completes, FailsStage, At, CoreStage
  <2>3. QED
    BY <1>0, <2>1, <2>2, GoToFrame DEF Stages, CoreStage
<1>12. CASE MarkCompleted(e) \/ ConfirmCompleted(e) \/ HandleCoreIdentityConflict(e)
            \/ CrashExecution(e)
  BY <1>0, <1>12, StopFrame DEF MarkCompleted, ConfirmCompleted,
     HandleCoreIdentityConflict, CrashExecution, CoreStage
<1>13. CASE StageFails(e)
  BY <1>0, <1>13, FailFrame DEF StageFails, Errors, CoreStage
<1>14. CASE MarkProcessingFailed(e) \/ MarkProcessingFailedLost(e)
            \/ MarkProcessingFailedRefused(e) \/ ConfirmProcessingFailed(e)
  <2>1. GoTo(e, "alert") \/ GoTo(e, "confirm_failed") \/ Stop(e)
    BY <1>14 DEF MarkProcessingFailed, MarkProcessingFailedLost,
       MarkProcessingFailedRefused, ConfirmProcessingFailed, AfterFailure
  <2>2. QED
    BY <1>0, <2>1, GoToFrame, StopFrame DEF Stages, CoreStage
<1>15. QED
  BY <1>1, <1>2, <1>3, <1>4, <1>5, <1>6, <1>7, <1>8, <1>9, <1>10, <1>11, <1>12, <1>13,
     <1>14 DEF ExecutionStep, ExecutionFault

LEMMA FailureMove ==
    ASSUME IInv, NEW e \in Exec, ExecutionStep(e) \/ ExecutionFault(e), UNCHANGED req
    PROVE  FailureStage(e)'
<1>0. /\ TypeOK /\ CoreStage(e) /\ FailureStage(e)
  BY DEF IInv, CoreStages, FailureStages
<1>1. ASSUME NEW pc \in Stages \ {"mark_failed", "confirm_failed", "alert"},
             GoTo(e, pc) \/ Stop(e)
      PROVE  FailureStage(e)'
  BY <1>0, <1>1, GoToFrame, StopFrame DEF FailureStage
<1>2. CASE MarkRunning(e) \/ ConfirmRunning(e)
  <2>1. AfterRunning(e) \in Stages \ {"mark_failed", "confirm_failed", "alert"}
    BY DEF AfterRunning, Stages
  <2>2. QED
    BY <1>1, <1>2, <2>1 DEF MarkRunning, ConfirmRunning
<1>3. CASE MarkCoreCommitted(e) \/ ConfirmCoreCommitted(e)
  <2>1. AfterCommit(e) \in Stages \ {"mark_failed", "confirm_failed", "alert"}
    BY DEF AfterCommit, Stages
  <2>2. QED
    BY <1>1, <1>3, <2>1 DEF MarkCoreCommitted, ConfirmCoreCommitted
<1>4. CASE \/ MarkRunningLost(e) \/ MarkRunningRefused(e) \/ PutCore(e) \/ PutCoreLost(e)
           \/ MarkCoreCommittedLost(e) \/ MarkCoreCommittedRefused(e)
           \/ PublishFastPathReady(e) \/ MarkCompleted(e) \/ MarkCompletedLost(e)
           \/ MarkCompletedRefused(e) \/ ConfirmCompleted(e)
           \/ HandleCoreIdentityConflict(e) \/ CrashExecution(e)
  <2>1. \E pc \in Stages \ {"mark_failed", "confirm_failed", "alert"} :
          GoTo(e, pc) \/ Stop(e)
    <3>1. {"confirm_running", "mark_core", "reread_core", "decide", "confirm_core",
           "mark_completed", "confirm_completed"}
             \subseteq Stages \ {"mark_failed", "confirm_failed", "alert"}
      BY DEF Stages
    <3>2. QED
      BY <1>4, <3>1 DEF MarkRunningLost, MarkRunningRefused, PutCore, PutCoreLost,
         MarkCoreCommittedLost, MarkCoreCommittedRefused, PublishFastPathReady,
         MarkCompleted, MarkCompletedLost, MarkCompletedRefused, ConfirmCompleted,
         HandleCoreIdentityConflict, CrashExecution
  <2>2. QED
    BY <1>1, <2>1
<1>5. CASE Decide(e)
  BY <1>0, <1>5, DecideFrame DEF FailureStage
<1>6. ASSUME NEW c \in Errors, Fail(e, c), c # "CORE_IDENTITY_CONFLICT" \/ core' # None,
             c \in {"STAGE", "CORE_IDENTITY_CONFLICT", "RECOVERY_CORE_MISSING"}
      PROVE  FailureStage(e)'
  BY <1>0, <1>6, FailFrame DEF FailureStage
<1>7. CASE RereadCore(e)
  <2>1. core' # None
    BY <1>0, <1>7 DEF RereadCore, At, CoreStage, tables
  <2>2. GoTo(e, "mark_core") \/ Fail(e, "CORE_IDENTITY_CONFLICT")
    BY <1>7 DEF RereadCore
  <2>3. QED
    BY <1>1, <1>6, <2>1, <2>2 DEF Stages, Errors
<1>8. CASE RecoveryGate(e)
  BY <1>1, <1>6, <1>8 DEF RecoveryGate, Stages, Errors
<1>9. CASE StageFails(e)
  BY <1>6, <1>9 DEF StageFails, Errors
<1>10. CASE MarkProcessingFailed(e)
  <2>1. Writes(e) /\ At(e, "mark_failed") /\ AfterFailure(e)
    BY <1>0, <1>10, WriteEffect DEF MarkProcessingFailed, RecordFailure
  <2>2. row'.status = "processing_failed" /\ row'.error = exec[e].cause
    BY <2>1 DEF Writes, Commits, Completes, FailsStage, At
  <2>3. \/ exec[e].cause = "CORE_IDENTITY_CONFLICT" /\ GoTo(e, "alert")
        \/ Stop(e)
    BY <2>1 DEF AfterFailure
  <2>4. QED
    BY <1>0, <2>2, <2>3, GoToFrame, StopFrame DEF Stages, FailureStage, ConflictRecorded
<1>11. CASE MarkProcessingFailedLost(e) \/ MarkProcessingFailedRefused(e)
  <2>1. At(e, "mark_failed") /\ GoTo(e, "confirm_failed") /\ core' = core
    BY <1>11 DEF MarkProcessingFailedLost, RecordFailure, MarkProcessingFailedRefused,
       tables
  <2>2. QED
    BY <1>0, <2>1, GoToFrame DEF At, Stages, FailureStage
<1>12. CASE ConfirmProcessingFailed(e)
  <2>1. row' = row
    BY <1>12 DEF ConfirmProcessingFailed, tables
  <2>2. \/ /\ FailureConfirmed(row, e, exec[e].attempt, exec[e].cause)
           /\ exec[e].cause = "CORE_IDENTITY_CONFLICT" /\ GoTo(e, "alert")
        \/ Stop(e)
    BY <1>12 DEF ConfirmProcessingFailed, AfterFailure
  <2>3. QED
    BY <1>0, <2>1, <2>2, GoToFrame, StopFrame
       DEF Stages, FailureStage, FailureConfirmed, ConflictRecorded
<1>13. QED
  BY <1>2, <1>3, <1>4, <1>5, <1>7, <1>8, <1>9, <1>10, <1>11, <1>12
     DEF ExecutionStep, ExecutionFault

\* The stages of the executions that do not move, or have just been started.
LEMMA OtherStages ==
    ASSUME IInv, StepEffect, NEW x \in Exec,
           exec'[x] = exec[x] \/ exec'[x].pc = "mark_running"
    PROVE  CoreStage(x)' /\ FailureStage(x)'
<1>1. CoreStage(x) /\ FailureStage(x)
  BY DEF IInv, CoreStages, FailureStages
<1>2. /\ core # None => core' = core
      /\ row.committed => row'.committed
      /\ ConflictRecorded => row' = row
      /\ claims # {} => claims' # {}
  BY Monotone
<1>3. CASE exec'[x] = exec[x]
  <2>1. CoreStage(x)'
    BY <1>1, <1>2, <1>3 DEF CoreStage
  <2>2. FailureStage(x)'
    BY <1>1, <1>2, <1>3 DEF FailureStage, ConflictRecorded
  <2>3. QED
    BY <2>1, <2>2
<1>4. CASE exec'[x].pc = "mark_running"
  BY <1>4 DEF CoreStage, FailureStage
<1>5. QED
  BY <1>3, <1>4

LEMMA StagesStep ==
    ASSUME IInv, [Next]_vars, StepEffect
    PROVE  \A x \in Exec : CoreStage(x)' /\ FailureStage(x)'
<1>1. CASE \E e \in Exec : (ExecutionStep(e) \/ ExecutionFault(e)) /\ UNCHANGED req
  <2>1. PICK e \in Exec : (ExecutionStep(e) \/ ExecutionFault(e)) /\ UNCHANGED req
    BY <1>1
  <2>2. \A x \in Exec \ {e} : exec'[x] = exec[x]
    BY <2>1, ExecutionEffects DEF IInv, ExecutionEffect, ExecutionFrame
  <2>3. QED
    BY <2>1, <2>2, CoreMove, FailureMove, OtherStages
<1>2. CASE \E r \in Req : RequestStep(r) \/ RequestFault(r) \/ Arrive(r)
  <2>1. \A x \in Exec : exec'[x] = exec[x] \/ exec'[x].pc = "mark_running"
    BY <1>2, RequestEffects DEF IInv, RequestEffect, Launches
  <2>2. QED
    BY <2>1, OtherStages
<1>3. CASE Tick \/ UNCHANGED vars
  <2>1. exec' = exec
    BY <1>3 DEF Tick, vars
  <2>2. QED
    BY <2>1, OtherStages
<1>4. QED
  BY <1>1, <1>2, <1>3 DEF Next, Progress, Fault

LEMMA FailureStep ==
    ASSUME IInv, [Next]_vars, StepEffect
    PROVE  FailureStages'
<1>0. FailureStages
  BY DEF IInv
<1>1. \A x \in Exec : FailureStage(x)'
  BY StagesStep
<1>2. row'.status = "processing_failed" =>
        (row'.retryable <=> row'.error # "CORE_IDENTITY_CONFLICT")
  <2>1. ASSUME NEW r \in Req, RequestEffect(r)
        PROVE  row' = row \/ row'.status # "processing_failed"
               \/ (row'.retryable /\ row'.error # "CORE_IDENTITY_CONFLICT")
    BY <2>1 DEF RequestEffect, Leases, Reconciles, FailsStart
  <2>2. ASSUME NEW e \in Exec, ExecutionEffect(e)
        PROVE  row' = row \/ row'.status # "processing_failed"
               \/ row'.retryable = (row'.error # "CORE_IDENTITY_CONFLICT")
    BY <2>2 DEF ExecutionEffect, Claims, Writes, Commits, Completes, FailsStage, WritesCore
  <2>3. QED
    BY <1>0, <2>1, <2>2 DEF StepEffect, Rests, FailureStages
<1>3. ConflictRecorded' => core' # None
  <2>1. CASE ConflictRecorded
    BY <1>0, <2>1, Monotone DEF FailureStages
  <2>2. CASE ~ConflictRecorded
    <3>1. ASSUME NEW r \in Req, RequestEffect(r)
          PROVE  ~ConflictRecorded'
      BY <2>2, <3>1 DEF RequestEffect, Leases, Reconciles, FailsStart, ConflictRecorded
    <3>2. ASSUME NEW e \in Exec, ExecutionEffect(e), ConflictRecorded'
          PROVE  core # None
      <4>1. FailsStage(e)
        BY <2>2, <3>2 DEF ExecutionEffect, Claims, Writes, Commits, Completes, WritesCore,
           ConflictRecorded
      <4>2. FailureStage(e)
        BY <1>0 DEF FailureStages
      <4>3. QED
        BY <3>2, <4>1, <4>2 DEF FailsStage, FailureStage, ConflictRecorded, At
    <3>3. QED
      BY <2>2, <3>1, <3>2, Monotone DEF StepEffect, Rests, ConflictRecorded
  <2>3. QED
    BY <2>1, <2>2
<1>4. alerted' => ConflictRecorded'
  <2>1. CASE alerted
    BY <1>0, <2>1, Monotone DEF FailureStages, ConflictRecorded
  <2>2. CASE ~alerted
    <3>1. ASSUME NEW e \in Exec, ExecutionEffect(e), alerted'
          PROVE  ConflictRecorded'
      <4>1. At(e, "alert") /\ row' = row
        BY <2>2, <3>1 DEF ExecutionEffect
      <4>2. FailureStage(e)
        BY <1>0 DEF FailureStages
      <4>3. QED
        BY <4>1, <4>2 DEF At, FailureStage, ConflictRecorded
    <3>2. QED
      BY <2>2, <3>1 DEF StepEffect, RequestEffect, Rests
  <2>3. QED
    BY <2>1, <2>2
<1>5. QED
  BY <1>1, <1>2, <1>3, <1>4 DEF FailureStages

-----------------------------------------------------------------------------
(* The invariant *)

LEMMA InitIInv == Init => IInv
<1> SUFFICES ASSUME Init
             PROVE  IInv
  OBVIOUS
<1> USE DEF Init, WorkflowInit
<1>1. /\ NoRecord \in Record /\ NoRecord.status = "absent" /\ NoRecord.attempt = 0
      /\ NoRecord.mode = "NORMAL" /\ NoRecord.committed = FALSE
  BY NoRecordType DEF NoRecord
<1>2. \A r \in Req : req[r] = Quiet("new")
  OBVIOUS
<1>3. \A e \in Exec : exec[e] = Idle("unused")
  OBVIOUS
<1>4. TypeOK
  BY <1>1, QuietType, IdleType DEF TypeOK, WorkflowTypeOK
<1>5. AbsentIsNew /\ AttemptsGranted /\ CurrentClaim
  BY <1>1, <1>2, <1>3 DEF AbsentIsNew, AttemptsGranted, CurrentClaim, Quiet, Idle
<1>6. OneClaimPerAttempt /\ OneHolderPerAttempt
  BY <1>2 DEF OneClaimPerAttempt, OneHolderPerAttempt, Quiet
<1>7. SamplesPast /\ LiveIsClean /\ GradeJustified
  BY <1>1, <1>2, <1>3 DEF SamplesPast, LiveIsClean, GradeJustified, Quiet, Idle
<1>8. CompletedIsCommitted /\ AnnouncedIsStored
  BY <1>1 DEF CompletedIsCommitted, AnnouncedIsStored
<1>9. CoreStages /\ FailureStages
  BY <1>1, <1>3 DEF CoreStages, CoreStage, FailureStages, FailureStage, ConflictRecorded,
     Idle
<1>10. QED
  BY <1>4, <1>5, <1>6, <1>7, <1>8, <1>9 DEF IInv

LEMMA StepIInv ==
    ASSUME IInv, [Next]_vars
    PROVE  IInv' /\ StepEffect
<1>1. StepEffect
  BY StepEffects DEF IInv
<1>2. CoreStages'
  BY <1>1, StagesStep DEF CoreStages
<1>3. QED
  BY <1>1, <1>2, TypeStep, AbsentStep, AttemptsStep, ClaimsStep, HolderStep, CleanStep,
     GradeStep, CommittedStep, AnnouncedStep, FailureStep DEF IInv

THEOREM Invariance == Spec => []IInv
<1>1. IInv /\ [Next]_vars => IInv'
  BY StepIInv
<1>2. QED
  BY InitIInv, <1>1, PTL DEF Spec

-----------------------------------------------------------------------------
(* The theorems *)

\* The record, the executions and the requests keep their types.
THEOREM TypeCorrect == Spec => []TypeOK
<1>1. IInv => TypeOK
  BY DEF IInv
<1>2. QED
  BY <1>1, Invariance, PTL

\* MARK_RUNNING admits one execution per attempt.
THEOREM SingleClaim == Spec => []OneClaimPerAttempt
<1>1. IInv => OneClaimPerAttempt
  BY DEF IInv
<1>2. QED
  BY <1>1, Invariance, PTL

\* The recoveries that routed on one record grant one lease between them.
THEOREM SingleHolder == Spec => []OneHolderPerAttempt
<1>1. IInv => OneHolderPerAttempt
  BY DEF IInv
<1>2. QED
  BY <1>1, Invariance, PTL

\* No path reaches completed with core_committed=false or without a core.
THEOREM CommittedCompletion == Spec => []CompletedIsCommitted
<1>1. IInv => CompletedIsCommitted
  BY DEF IInv
<1>2. QED
  BY <1>1, Invariance, PTL

\* Every fast_path_ready push is about the stored core.
THEOREM HonestPush == Spec => []AnnouncedIsStored
<1>1. IInv => AnnouncedIsStored
  BY DEF IInv
<1>2. QED
  BY <1>1, Invariance, PTL

\* An enrichment-only attempt is never granted without a core.
EnrichmentHasCore ==
    \/ core # None
    \/ /\ row.mode # "ENRICHMENT_ONLY"
       /\ \A e \in Exec : exec[e].mode # "ENRICHMENT_ONLY"

\* Enrichment-only attempts find their core, so the RECOVERY_CORE_MISSING branch
\* of the workflow is never taken.
THEOREM GradedRecovery == Spec => []EnrichmentHasCore
<1>1. IInv => EnrichmentHasCore
  BY DEF IInv, GradeJustified, EnrichmentHasCore
<1>2. QED
  BY <1>1, Invariance, PTL

\* An alerted conflict is the record's terminal state.
THEOREM AlertedConflict == Spec => []AlertedIsTerminal
<1>1. IInv => AlertedIsTerminal
  BY DEF IInv, FailureStages, ConflictRecorded, AlertedIsTerminal, TerminalConflict
<1>2. QED
  BY <1>1, Invariance, PTL

LEMMA TerminalStep ==
    ASSUME IInv, StepEffect, row.status = "completed" \/ TerminalConflict(row)
    PROVE  row' = row
<1>1. row.status = "completed" \/ (row.status = "processing_failed" /\ ~row.retryable)
  BY DEF TerminalConflict, IInv, FailureStages
<1>2. ASSUME NEW r \in Req, RequestEffect(r)
      PROVE  row' = row
  BY <1>1, <1>2 DEF RequestEffect, Leases, Reconciles, FailsStart, StaleRunning
<1>3. ASSUME NEW e \in Exec, ExecutionEffect(e)
      PROVE  row' = row
  BY <1>1, <1>3 DEF ExecutionEffect, Claims, Writes, WritesCore, CanFinish
<1>4. QED
  BY <1>2, <1>3 DEF StepEffect, Rests

\* Completed and conflicted records are never written again.
THEOREM TerminalIsFinal == Spec => TerminalStays
<1>1. IInv /\ [Next]_vars =>
        [row.status = "completed" \/ TerminalConflict(row) => row' = row]_vars
  BY StepIInv, TerminalStep
<1>2. QED
  BY <1>1, Invariance, PTL DEF Spec, TerminalStays

LEMMA HolderKeptStep ==
    ASSUME IInv, StepEffect
    PROVE  /\ row.status = "starting" /\ row'.attempt # row.attempt => row.lease < now
           /\ row.status = "running" /\ row'.error = "STALE_RUNNING_EXECUTION"
                => row.deadline < now
<1>0. /\ now \in Nat /\ row.deadline \in Nat \cup {None}
      /\ \A r \in Req : req[r].time \in Nat /\ req[r].time <= now
      /\ row.status = "running" => row.error = "none"
  BY AttemptTypes DEF IInv, SamplesPast, LiveIsClean, TypeOK, WorkflowTypeOK, Record
<1>1. ASSUME NEW r \in Req, RequestEffect(r)
      PROVE  /\ row.status = "starting" /\ row'.attempt # row.attempt => row.lease < now
             /\ row.status = "running" /\ row'.error = "STALE_RUNNING_EXECUTION"
                  => row.deadline < now
  <2>1. CASE Leases(r)
    BY <1>0, <2>1 DEF Leases
  <2>2. CASE Reconciles(r)
    BY <1>0, <2>2 DEF Reconciles, StaleRunning
  <2>3. CASE FailsStart \/ row' = row
    BY <1>0, <2>3 DEF FailsStart, SameAttempt
  <2>4. QED
    BY <1>1, <2>1, <2>2, <2>3 DEF RequestEffect
<1>2. ASSUME NEW e \in Exec, ExecutionEffect(e)
      PROVE  row'.attempt = row.attempt
             /\ (row.status = "running" => row'.error # "STALE_RUNNING_EXECUTION")
  <2>1. At(e, "mark_failed") => exec[e].cause # "STALE_RUNNING_EXECUTION"
    BY DEF IInv, FailureStages, FailureStage, At
  <2>2. QED
    BY <1>0, <1>2, <2>1 DEF ExecutionEffect, Claims, Writes, Commits, Completes,
       FailsStage, WritesCore, CanFinish
<1>3. CASE Rests
  BY <1>0, <1>3 DEF Rests
<1>4. QED
  BY <1>1, <1>2, <1>3 DEF StepEffect

\* A live holder keeps its attempt until its own lease, or deadline, has passed.
THEOREM LiveHolderIsKept == Spec => LiveHolderKept
<1>1. IInv /\ [Next]_vars =>
        [/\ row.status = "starting" /\ row'.attempt # row.attempt => row.lease < now
         /\ row.status = "running" /\ row'.error = "STALE_RUNNING_EXECUTION"
              => row.deadline < now]_vars
  BY StepIInv, HolderKeptStep
<1>2. QED
  BY <1>1, Invariance, PTL DEF Spec, LiveHolderKept

LEMMA SupersededStep ==
    ASSUME IInv, StepEffect, NEW e \in Exec, exec[e].attempt < row.attempt,
           exec'[e] # exec[e]
    PROVE  row' = row
<1>1. CASE \E r \in Req : RequestEffect(r)
  BY <1>1 DEF RequestEffect
<1>2. ASSUME NEW x \in Exec, ExecutionEffect(x)
      PROVE  row' = row
  <2>1. x = e
    BY <1>2 DEF ExecutionEffect, ExecutionFrame
  <2>2. exec[e].attempt # row.attempt
    BY AttemptTypes DEF IInv
  <2>3. QED
    BY <1>2, <2>1, <2>2 DEF ExecutionEffect, Claims, Writes, WritesCore, CanFinish, Owned
<1>3. QED
  BY <1>1, <1>2 DEF StepEffect, Rests

\* A superseded execution is fenced off the record.
THEOREM SupersededIsFenced == Spec => SupersededWritesNothing
<1>1. IInv /\ [Next]_vars =>
        [\A e \in Exec :
           exec[e].attempt < row.attempt /\ exec'[e] # exec[e] => row' = row]_vars
  BY StepIInv, SupersededStep
<1>2. QED
  BY <1>1, Invariance, PTL DEF Spec, SupersededWritesNothing

-----------------------------------------------------------------------------
(* A running record has its execution *)

\* After a refused or unanswered write of its own an execution has the attempt
\* no longer, or the checkpoint it was after is there.
Confirms(e) ==
    /\ exec[e].pc \in {"confirm_completed", "confirm_failed"} =>
         ~CanFinish(row, e, exec[e].attempt)
    /\ exec[e].pc = "confirm_core" =>
         (CanFinish(row, e, exec[e].attempt) => row.committed)

Confirming == {"confirm_completed", "confirm_failed", "confirm_core"}

WorkInv == \A e \in Exec : Confirms(e)

\* Nobody gives an execution back the attempt it has lost.
LEMMA OthersConfirm ==
    ASSUME IInv, StepEffect, NEW x \in Exec, Confirms(x),
           exec'[x] = exec[x] \/ exec'[x].pc \notin Confirming
    PROVE  Confirms(x)'
<1>1. CASE exec'[x].pc \notin Confirming
  BY <1>1 DEF Confirms, Confirming
<1>2. CASE exec'[x] = exec[x] /\ exec[x].pc \in Confirming
  <2>1. row.committed => row'.committed
    BY Monotone
  <2>2. ASSUME NEW r \in Req, RequestEffect(r), CanFinish(row', x, exec[x].attempt)
        PROVE  CanFinish(row, x, exec[x].attempt)
    BY <2>2 DEF RequestEffect, Leases, Reconciles, FailsStart, CanFinish
  <2>3. ASSUME NEW e \in Exec, ExecutionEffect(e), CanFinish(row', x, exec[x].attempt)
        PROVE  CanFinish(row, x, exec[x].attempt)
    <3>1. row' = row \/ Claims(e) \/ Writes(e)
      BY <2>3 DEF ExecutionEffect, WritesCore
    <3>2. Claims(e) => e = x
      BY <2>3 DEF Claims, CanFinish, Owned
    <3>3. Claims(e) => exec[e].pc \notin Confirming
      BY DEF Claims, At, Confirming
    <3>4. Writes(e) => e = x
      BY <2>3 DEF Writes, CanFinish, Owned
    <3>5. Writes(e) => exec[e].pc \notin Confirming
      BY DEF Writes, Commits, Completes, FailsStage, At, Confirming
    <3>6. QED
      BY <1>2, <2>3, <3>1, <3>2, <3>3, <3>4, <3>5
  <2>4. CanFinish(row', x, exec[x].attempt) => CanFinish(row, x, exec[x].attempt)
    BY <2>2, <2>3 DEF StepEffect, Rests
  <2>5. QED
    BY <1>2, <2>1, <2>4 DEF Confirms
<1>3. CASE exec'[x] = exec[x] /\ exec[x].pc \notin Confirming
  BY <1>3 DEF Confirms, Confirming
<1>4. QED
  BY <1>1, <1>2, <1>3

\* An execution goes to a confirming read only when its write did not apply, or
\* did without an answer.
LEMMA ConfirmsMove ==
    ASSUME IInv, NEW e \in Exec, ExecutionStep(e) \/ ExecutionFault(e), UNCHANGED req
    PROVE  Confirms(e)'
<1>0. TypeOK
  BY DEF IInv
<1>1. ASSUME NEW pc \in Stages \ Confirming, GoTo(e, pc) \/ Stop(e)
      PROVE  Confirms(e)'
  BY <1>0, <1>1, GoToFrame, StopFrame DEF Confirms, Confirming
<1>2. ASSUME NEW c \in Errors, Fail(e, c)
      PROVE  Confirms(e)'
  BY <1>0, <1>2, FailFrame DEF Confirms
<1>3. /\ AfterRunning(e) \in Stages \ Confirming /\ AfterCommit(e) \in Stages \ Confirming
      /\ {"confirm_running", "mark_core", "reread_core", "decide", "mark_completed", "alert"}
            \subseteq Stages \ Confirming
      /\ Confirming \subseteq Stages
      /\ {"STAGE", "CORE_IDENTITY_CONFLICT", "RECOVERY_CORE_MISSING"} \subseteq Errors
  BY DEF AfterRunning, AfterCommit, Stages, Confirming, Errors
<1>4. CASE \/ MarkRunning(e) \/ MarkRunningLost(e) \/ MarkRunningRefused(e)
           \/ ConfirmRunning(e) \/ MarkCoreCommitted(e) \/ ConfirmCoreCommitted(e)
  BY <1>1, <1>3, <1>4 DEF MarkRunning, MarkRunningLost, MarkRunningRefused, ConfirmRunning,
     MarkCoreCommitted, ConfirmCoreCommitted
<1>5. CASE \/ PutCore(e) \/ PutCoreLost(e) \/ PublishFastPathReady(e) \/ MarkCompleted(e)
           \/ ConfirmCompleted(e) \/ HandleCoreIdentityConflict(e) \/ CrashExecution(e)
           \/ MarkProcessingFailed(e) \/ ConfirmProcessingFailed(e)
  BY <1>1, <1>3, <1>5 DEF PutCore, PutCoreLost, PublishFastPathReady, MarkCompleted,
     ConfirmCompleted, HandleCoreIdentityConflict, CrashExecution, MarkProcessingFailed,
     ConfirmProcessingFailed, AfterFailure
<1>6. CASE RereadCore(e) \/ RecoveryGate(e) \/ StageFails(e)
  BY <1>1, <1>2, <1>3, <1>6 DEF RereadCore, RecoveryGate, StageFails
<1>7. CASE Decide(e)
  BY <1>0, <1>7, DecideFrame DEF Confirms
<1>8. CASE MarkCoreCommittedLost(e)
  <2>1. Writes(e) /\ At(e, "mark_core") /\ GoTo(e, "confirm_core")
    BY <1>0, <1>8, WriteEffect DEF MarkCoreCommittedLost, CommitCore
  <2>2. row'.committed
    BY <2>1 DEF Writes, Commits, Completes, FailsStage, At
  <2>3. QED
    BY <1>0, <1>3, <2>1, <2>2, GoToFrame DEF Confirms, Confirming
<1>9. CASE MarkCoreCommittedRefused(e)
  <2>1. /\ row' = row /\ GoTo(e, "confirm_core")
        /\ CanFinish(row, e, exec[e].attempt) => row.committed
    BY <1>9 DEF MarkCoreCommittedRefused, CanMarkCoreCommitted, tables
  <2>2. exec'[e].pc = "confirm_core" /\ exec'[e].attempt = exec[e].attempt
    BY <1>0, <1>3, <2>1, GoToFrame DEF Confirming
  <2>3. QED
    BY <2>1, <2>2 DEF Confirms
<1>10. CASE MarkCompletedLost(e) \/ MarkProcessingFailedLost(e)
  <2>1. /\ Writes(e) /\ (At(e, "mark_completed") \/ At(e, "mark_failed"))
        /\ GoTo(e, "confirm_completed") \/ GoTo(e, "confirm_failed")
    BY <1>0, <1>10, WriteEffect DEF MarkCompletedLost, Complete, MarkProcessingFailedLost,
       RecordFailure
  <2>2. row'.status # "running"
    BY <2>1 DEF Writes, Commits, Completes, FailsStage, At
  <2>3. exec'[e].pc # "confirm_core"
    BY <1>0, <1>3, <2>1, GoToFrame DEF Confirming
  <2>4. QED
    BY <2>2, <2>3 DEF Confirms, CanFinish
<1>11. CASE MarkCompletedRefused(e) \/ MarkProcessingFailedRefused(e)
  <2>1. /\ row' = row /\ ~CanFinish(row, e, exec[e].attempt)
        /\ GoTo(e, "confirm_completed") \/ GoTo(e, "confirm_failed")
    BY <1>11 DEF MarkCompletedRefused, MarkProcessingFailedRefused, tables
  <2>2. exec'[e].pc # "confirm_core" /\ exec'[e].attempt = exec[e].attempt
    BY <1>0, <1>3, <2>1, GoToFrame DEF Confirming
  <2>3. QED
    BY <2>1, <2>2 DEF Confirms
<1>12. QED
  BY <1>4, <1>5, <1>6, <1>7, <1>8, <1>9, <1>10, <1>11 DEF ExecutionStep, ExecutionFault

LEMMA WorkStep ==
    ASSUME IInv, WorkInv, [Next]_vars
    PROVE  WorkInv'
<1>0. StepEffect /\ TypeOK
  BY StepIInv DEF IInv
<1>1. ASSUME NEW x \in Exec
      PROVE  Confirms(x)'
  <2>1. CASE \E e \in Exec : (ExecutionStep(e) \/ ExecutionFault(e)) /\ UNCHANGED req
    <3>1. PICK e \in Exec : (ExecutionStep(e) \/ ExecutionFault(e)) /\ UNCHANGED req
      BY <2>1
    <3>2. x # e => exec'[x] = exec[x]
      BY <1>0, <3>1, ExecutionEffects DEF ExecutionEffect, ExecutionFrame
    <3>3. QED
      BY <1>0, <3>1, <3>2, ConfirmsMove, OthersConfirm DEF WorkInv
  <2>2. CASE \E r \in Req : RequestStep(r) \/ RequestFault(r) \/ Arrive(r)
    <3>1. exec'[x] = exec[x] \/ exec'[x].pc = "mark_running"
      BY <2>2, RequestEffects DEF IInv, RequestEffect, Launches
    <3>2. QED
      BY <1>0, <3>1, OthersConfirm DEF WorkInv, Confirming
  <2>3. CASE Tick \/ UNCHANGED vars
    <3>1. exec' = exec
      BY <2>3 DEF Tick, vars
    <3>2. QED
      BY <1>0, <3>1, OthersConfirm DEF WorkInv
  <2>4. QED
    BY <2>1, <2>2, <2>3 DEF Next, Progress, Fault
<1>2. QED
  BY <1>1 DEF WorkInv

\* The execution of the running record goes on, or the record runs no longer.
LEMMA OwnerGoesOn ==
    ASSUME IInv, WorkInv, NEW e \in Exec, ExecutionStep(e), UNCHANGED req,
           row'.status = "running", row'.arn = e,
           row.status = "running" /\ row.arn = e => exec[e].attempt = row.attempt
    PROVE  exec'[e].pc \in Stages /\ exec'[e].attempt = row'.attempt
<1>0. TypeOK /\ Confirms(e) /\ FailureStage(e) /\ ExecutionEffect(e)
  BY ExecutionEffects DEF IInv, WorkInv, FailureStages
<1>1. exec[e].attempt = row'.attempt
  BY <1>0 DEF ExecutionEffect, Claims, Writes, WritesCore, CanFinish, Owned
<1>2. ASSUME NEW pc \in Stages, GoTo(e, pc)
      PROVE  exec'[e].pc \in Stages /\ exec'[e].attempt = row'.attempt
  BY <1>0, <1>1, <1>2, GoToFrame
<1>3. ASSUME NEW c \in Errors, Fail(e, c)
      PROVE  exec'[e].pc \in Stages /\ exec'[e].attempt = row'.attempt
  BY <1>0, <1>1, <1>3, FailFrame DEF Stages
<1>4. row' = row => CanFinish(row, e, exec[e].attempt)
  BY <1>1 DEF CanFinish, Owned
<1>5. /\ AfterRunning(e) \in Stages /\ AfterCommit(e) \in Stages
      /\ {"CORE_IDENTITY_CONFLICT", "RECOVERY_CORE_MISSING"} \subseteq Errors
  BY BranchStages DEF Errors
<1>6. CASE MarkRunning(e) \/ MarkCoreCommitted(e)
  BY <1>2, <1>5, <1>6 DEF MarkRunning, MarkCoreCommitted
<1>7. CASE \/ MarkRunningRefused(e) \/ MarkCoreCommittedRefused(e)
           \/ MarkCompletedRefused(e) \/ MarkProcessingFailedRefused(e)
           \/ PublishFastPathReady(e) \/ PutCore(e)
  <2>1. \E pc \in Stages : GoTo(e, pc)
    <3>1. {"confirm_running", "confirm_core", "confirm_completed", "confirm_failed",
           "mark_completed", "mark_core", "reread_core"} \subseteq Stages
      BY DEF Stages
    <3>2. QED
      BY <1>7, <3>1 DEF MarkRunningRefused, MarkCoreCommittedRefused, MarkCompletedRefused,
         MarkProcessingFailedRefused, PublishFastPathReady, PutCore
  <2>2. QED
    BY <1>2, <2>1
<1>8. CASE ConfirmRunning(e)
  BY <1>2, <1>4, <1>5, <1>8 DEF ConfirmRunning, tables
<1>9. CASE ConfirmCoreCommitted(e)
  <2>1. row' = row /\ At(e, "confirm_core")
    BY <1>9 DEF ConfirmCoreCommitted, tables
  <2>2. Owned(row, e, exec[e].attempt) /\ row.committed
    BY <1>0, <1>4, <2>1 DEF Confirms, At, CanFinish
  <2>3. QED
    BY <1>2, <1>5, <1>9, <2>2 DEF ConfirmCoreCommitted
<1>10. CASE ConfirmCompleted(e) \/ ConfirmProcessingFailed(e)
  <2>1. row' = row /\ (At(e, "confirm_completed") \/ At(e, "confirm_failed"))
    BY <1>10 DEF ConfirmCompleted, ConfirmProcessingFailed, tables
  <2>2. QED
    BY <1>0, <1>4, <2>1 DEF Confirms, At
<1>11. CASE HandleCoreIdentityConflict(e)
  <2>1. row' = row /\ At(e, "alert")
    BY <1>11 DEF HandleCoreIdentityConflict, tables
  <2>2. QED
    BY <1>0, <2>1 DEF FailureStage, ConflictRecorded, At
<1>12. CASE MarkCompleted(e) \/ MarkProcessingFailed(e)
  <2>1. Writes(e) /\ (At(e, "mark_completed") \/ At(e, "mark_failed"))
    BY <1>0, <1>12, WriteEffect DEF MarkCompleted, Complete, MarkProcessingFailed, RecordFailure
  <2>2. QED
    BY <2>1 DEF Writes, Commits, Completes, FailsStage, At
<1>13. CASE Decide(e)
  BY <1>0, <1>1, <1>13, DecideFrame DEF Stages
<1>14. CASE RereadCore(e) \/ RecoveryGate(e)
  <2>1. "mark_core" \in Stages
    BY DEF Stages
  <2>2. QED
    BY <1>2, <1>3, <1>5, <1>14, <2>1 DEF RereadCore, RecoveryGate
<1>15. QED
  BY <1>6, <1>7, <1>8, <1>9, <1>10, <1>11, <1>12, <1>13, <1>14 DEF ExecutionStep

LEMMA AttendedStep ==
    ASSUME IInv, WorkInv, Attended, Progress
    PROVE  Attended'
<1>0. /\ TypeOK /\ AbsentIsNew
      /\ row.status = "running" => row.arn \in Exec
  BY AttemptTypes DEF IInv, CurrentClaim
<1>1. ASSUME NEW r \in Req, RequestStep(r)
      PROVE  Attended'
  <2>1. RequestEffect(r)
    BY <1>0, <1>1, RequestEffects
  <2>2. CASE row' = row /\ row.status = "running"
    <3>1. exec[row.arn].pc \in Stages /\ exec[row.arn].pc # "unused"
      BY <2>2 DEF Attended, Stages
    <3>2. exec'[row.arn] = exec[row.arn]
      BY <1>0, <2>1, <2>2, <3>1 DEF RequestEffect, Launches
    <3>3. QED
      BY <2>2, <3>2 DEF Attended
  <2>3. CASE row' = row /\ row.status # "running"
    BY <2>3 DEF Attended
  <2>4. CASE row' # row
    <3>1. row'.status # "running"
      BY <2>1, <2>4 DEF RequestEffect, Leases, Reconciles, FailsStart
    <3>2. QED
      BY <3>1 DEF Attended
  <2>5. QED
    BY <2>2, <2>3, <2>4
<1>2. ASSUME NEW e \in Exec, ExecutionStep(e), UNCHANGED req, row'.status = "running"
      PROVE  exec'[row'.arn].pc \in Stages /\ exec'[row'.arn].attempt = row'.attempt
  <2>1. ExecutionEffect(e)
    BY <1>0, <1>2, ExecutionEffects
  <2>2. CASE row'.arn = e
    <3>1. row.status = "running" /\ row.arn = e => exec[e].attempt = row.attempt
      BY DEF Attended
    <3>2. QED
      BY <1>2, <2>2, <3>1, OwnerGoesOn
  <2>3. CASE row'.arn # e
    <3>1. row' = row
      BY <2>1, <2>3 DEF ExecutionEffect, Claims, Writes, WritesCore, CanFinish, Owned
    <3>2. exec'[row.arn] = exec[row.arn]
      BY <1>0, <1>2, <2>1, <2>3, <3>1 DEF ExecutionEffect, ExecutionFrame
    <3>3. QED
      BY <1>2, <3>1, <3>2 DEF Attended
  <2>4. QED
    BY <2>2, <2>3
<1>3. QED
  BY <1>1, <1>2 DEF Progress, Attended

\* For any executions and requests, a running record loses its execution only
\* to a fault: the confirming reads of applyOrConfirm never stop a healthy one.
THEOREM RunsAreNotAbandoned == Spec => RunIsNotAbandoned
<1>1. Init => WorkInv
  BY DEF Init, WorkflowInit, WorkInv, Confirms, Idle
<1>2. IInv /\ WorkInv /\ [Next]_vars => WorkInv'
  BY WorkStep
<1>3. IInv /\ WorkInv /\ [Next]_vars => [Attended /\ ~Attended' => ~Progress]_vars
  BY AttendedStep
<1>4. QED
  BY <1>1, <1>2, <1>3, Invariance, PTL DEF Spec, RunIsNotAbandoned

-----------------------------------------------------------------------------
(* InjectionFlow implements SingleDecision *)

\* The outcome is read off two conditions on the record.
LEMMA OutcomeCases ==
    ASSUME IInv
    PROVE  Outcome = IF row.status = "completed" THEN "completed"
                     ELSE IF ConflictRecorded THEN "conflict" ELSE "open"
  BY DEF IInv, FailureStages, ConflictRecorded, Outcome, TerminalConflict

LEMMA InitRefines == Init => Abstract!AbstractInit
  BY DEF Init, WorkflowInit, NoRecord, Abstract!AbstractInit, Outcome, TerminalConflict

\* A request only ever opens a new attempt.
LEMMA RequestRefines ==
    ASSUME IInv, IInv', NEW r \in Req, RequestEffect(r)
    PROVE  [Abstract!AbstractNext]_Abstract!abstractVars
<1>0. UNCHANGED <<core, claims, announced>>
  BY DEF RequestEffect
<1>1. CASE Leases(r)
  <2>1. Outcome = "open"
    BY <1>1, OutcomeCases DEF Leases, ConflictRecorded, IInv, FailureStages
  <2>2. Outcome' = "open" /\ row'.attempt = row.attempt + 1
    BY <1>1 DEF Leases, Outcome, TerminalConflict
  <2>3. Abstract!NewAttempt
    BY <1>0, <2>1, <2>2 DEF Abstract!NewAttempt
  <2>4. QED
    BY <2>3 DEF Abstract!AbstractNext
<1>2. CASE Reconciles(r) \/ FailsStart
  <2>1. Outcome = "open" /\ Outcome' = "open" /\ row'.attempt = row.attempt
    BY <1>2 DEF Reconciles, FailsStart, SameAttempt, StaleRunning, Outcome, TerminalConflict
  <2>2. QED
    BY <1>0, <2>1 DEF Abstract!abstractVars
<1>3. CASE row' = row
  BY <1>0, <1>3 DEF Abstract!abstractVars, Outcome
<1>4. QED
  BY <1>1, <1>2, <1>3 DEF RequestEffect

LEMMA ClaimRefines ==
    ASSUME IInv, NEW e \in Exec, ExecutionEffect(e), Claims(e)
    PROVE  [Abstract!AbstractNext]_Abstract!abstractVars
<1>1. Outcome = "open" /\ Outcome' = "open"
  BY DEF Claims, Outcome, TerminalConflict
<1>2. row.attempt > 0 /\ ~Abstract!Claimed
  <2>1. row.attempt > 0
    BY DEF IInv, AbsentIsNew, Claims
  <2>2. \A x \in Exec : <<row.attempt, x>> \notin claims
    BY DEF IInv, CurrentClaim, Claims
  <2>3. QED
    BY <2>1, <2>2 DEF Abstract!Claimed
<1>3. core' = core /\ announced' = announced
  BY DEF ExecutionEffect, Claims, WritesCore, At
<1>4. Abstract!Claim(e)
  BY <1>1, <1>2, <1>3 DEF Abstract!Claim, Claims
<1>5. QED
  BY <1>4 DEF Abstract!AbstractNext

LEMMA WriteRefines ==
    ASSUME IInv, IInv', NEW e \in Exec, ExecutionEffect(e), Writes(e)
    PROVE  [Abstract!AbstractNext]_Abstract!abstractVars
<1>0. UNCHANGED <<claims, core, announced>> /\ row'.attempt = row.attempt
  BY DEF ExecutionEffect, Writes, Commits, Completes, FailsStage, WritesCore, Claims, At
<1>1. Outcome = "open" /\ Abstract!Claimed
  <2>1. row.status = "running" /\ row.arn = e
    BY DEF Writes, CanFinish, Owned
  <2>2. <<row.attempt, e>> \in claims
    BY <2>1 DEF IInv, CurrentClaim
  <2>3. QED
    BY <2>1, <2>2 DEF Outcome, TerminalConflict, Abstract!Claimed
<1>2. CASE Commits(e)
  <2>1. Outcome' = "open"
    BY <1>2 DEF Commits, Outcome, TerminalConflict
  <2>2. QED
    BY <1>0, <1>1, <2>1 DEF Abstract!abstractVars
<1>3. CASE Completes(e)
  <2>1. Outcome' = "completed" /\ core # None
    BY <1>3 DEF Completes, Outcome, IInv, CoreStages, CoreStage, At, CompletedIsCommitted
  <2>2. Abstract!Close("completed")
    BY <1>0, <1>1, <2>1 DEF Abstract!Close
  <2>3. QED
    BY <2>2 DEF Abstract!AbstractNext
<1>4. CASE FailsStage(e)
  <2>1. CASE exec[e].cause = "CORE_IDENTITY_CONFLICT"
    <3>1. Outcome' = "conflict" /\ core # None
      BY <1>4, <2>1 DEF FailsStage, Outcome, TerminalConflict, IInv, FailureStages,
         FailureStage, At
    <3>2. Abstract!Close("conflict")
      BY <1>0, <1>1, <3>1 DEF Abstract!Close
    <3>3. QED
      BY <3>2 DEF Abstract!AbstractNext
  <2>2. CASE exec[e].cause # "CORE_IDENTITY_CONFLICT"
    <3>1. Outcome' = "open"
      BY <1>4, <2>2 DEF FailsStage, Outcome, TerminalConflict
    <3>2. QED
      BY <1>0, <1>1, <3>1 DEF Abstract!abstractVars
  <2>3. QED
    BY <2>1, <2>2
<1>5. QED
  BY <1>2, <1>3, <1>4 DEF Writes

LEMMA ChooseRefines ==
    ASSUME IInv, NEW e \in Exec, ExecutionEffect(e), WritesCore(e)
    PROVE  [Abstract!AbstractNext]_Abstract!abstractVars
<1>1. /\ exec[e].ident \in Identities /\ claims # {}
      /\ UNCHANGED <<announced, claims>>
  BY DEF ExecutionEffect, WritesCore, At, IInv, CoreStages, CoreStage, TypeOK,
     WorkflowTypeOK, Execution
<1>2. row' = row /\ row.status # "completed" /\ ~ConflictRecorded
  BY DEF WritesCore, IInv, CompletedIsCommitted, FailureStages
<1>3. Outcome = "open" /\ Outcome' = Outcome
  BY <1>2, OutcomeCases DEF Outcome
<1>4. Abstract!Choose(exec[e].ident)
  BY <1>1, <1>2, <1>3 DEF WritesCore, Abstract!Choose
<1>5. QED
  BY <1>1, <1>4 DEF Abstract!AbstractNext

LEMMA ExecutionRefines ==
    ASSUME IInv, IInv', NEW e \in Exec, ExecutionEffect(e)
    PROVE  [Abstract!AbstractNext]_Abstract!abstractVars
<1>1. CASE row' = row /\ claims' = claims /\ core' = core
  <2>1. CASE announced' = announced
    BY <1>1, <2>1 DEF Abstract!abstractVars, Outcome
  <2>2. CASE At(e, "announce") /\ announced' = announced \cup {exec[e].ident}
    <3>1. core # None /\ exec[e].ident = core
      BY <2>2 DEF IInv, CoreStages, CoreStage, At
    <3>2. announced' = {core}
      BY <2>2, <3>1 DEF IInv, AnnouncedIsStored
    <3>3. Abstract!Announce
      BY <1>1, <3>1, <3>2 DEF Abstract!Announce, Outcome
    <3>4. QED
      BY <3>3 DEF Abstract!AbstractNext
  <2>3. QED
    BY <2>1, <2>2 DEF ExecutionEffect
<1>2. QED
  BY <1>1, ClaimRefines, WriteRefines, ChooseRefines DEF ExecutionEffect

\* Every behaviour of the requests and executions of a key, for any number of
\* either, is one decision per key as SingleDecision promises it.
THEOREM Refinement == Spec => ImplementsSingleDecision
<1>1. IInv /\ [Next]_vars => [Abstract!AbstractNext]_Abstract!abstractVars
  <2>1. SUFFICES ASSUME IInv, [Next]_vars
                 PROVE  [Abstract!AbstractNext]_Abstract!abstractVars
    OBVIOUS
  <2>2. IInv' /\ StepEffect
    BY <2>1, StepIInv
  <2>3. CASE Rests
    BY <2>3 DEF Rests, Abstract!abstractVars, Outcome
  <2>4. QED
    BY <2>1, <2>2, <2>3, RequestRefines, ExecutionRefines DEF StepEffect
<1>2. QED
  BY InitRefines, <1>1, Invariance, PTL
     DEF Spec, ImplementsSingleDecision, Abstract!AbstractSpec
=============================================================================
