---------------------------- MODULE BedrockInvoke ---------------------------
(***************************************************************************)
(* BedrockAdapter.invoke: the primary model and its fallbacks, one after   *)
(* the other, each under a timeout, all under one budget.  A call that     *)
(* times out is aborted; the answer of an aborted request goes nowhere.    *)
(*                                                                         *)
(* Time is a discrete clock that cannot pass a due timer.                  *)
(***************************************************************************)
EXTENDS Naturals

CONSTANTS
    Models,         \* number of model ids, the primary one first
    PerCall,        \* DEFAULT_TIMEOUT_MS
    Budget,         \* DEFAULT_TOTAL_BUDGET_MS
    MaxClock        \* bound on the clock, for model checking only

ASSUME ModelsAssumption == Models \in Nat \ {0}
ASSUME TimeAssumption == PerCall \in Nat \ {0} /\ Budget \in Nat \ {0} /\ MaxClock \in Nat

Reasons == {"timeout", "model_not_supported", "throttled", "unexpected_error"}

VARIABLES
    clock,      \* Date.now()
    phase,      \* "idle", "next" before a model is tried, "waiting", "done"
    deadline,   \* end of the budget
    model,      \* the model being tried
    due,        \* when the timer of the current call fires
    open,       \* models whose request is still open
    lastReason, \* reason of the last failure
    answer      \* the result: [ok, raw] or the failure reason

invokeVars == <<clock, phase, deadline, model, due, open, lastReason, answer>>

Pending == [ok |-> FALSE, reason |-> "pending"]

InvokeInit ==
    /\ clock = 0 /\ phase = "idle" /\ deadline = 0 /\ model = 1 /\ due = 0
    /\ open = {} /\ lastReason = "unexpected_error" /\ answer = Pending

StartInvoke ==
    /\ phase = "idle"
    /\ phase' = "next" /\ deadline' = clock + Budget
    /\ UNCHANGED <<clock, model, due, open, lastReason, answer>>

CallTimeout_PerCallOnly(remaining) == PerCall
CallTimeout(remaining) == IF remaining < PerCall THEN remaining ELSE PerCall

TryModel ==
    /\ phase = "next" /\ model <= Models /\ clock < deadline
    /\ phase' = "waiting"
    /\ due' = clock + CallTimeout(deadline - clock)
    /\ open' = open \cup {model}
    /\ UNCHANGED <<clock, deadline, model, lastReason, answer>>

GiveUp(reason) ==
    /\ phase' = "done"
    /\ answer' = [ok |-> FALSE, reason |-> reason]
    /\ UNCHANGED <<clock, deadline, model, due, open, lastReason>>

BudgetExhausted ==
    /\ phase = "next" /\ model <= Models /\ clock >= deadline
    /\ GiveUp("timeout")

ListExhausted ==
    /\ phase = "next" /\ model > Models
    /\ GiveUp(lastReason)

\* A failure of any kind moves on to the next model of the list.
Fails(reason) ==
    /\ phase' = "next" /\ model' = model + 1 /\ lastReason' = reason
    /\ UNCHANGED <<clock, deadline, due, answer>>

ModelAnswers(raw) ==
    /\ phase = "waiting"
    /\ phase' = "done" /\ open' = open \ {model}
    /\ answer' = [ok |-> TRUE, raw |-> raw]
    /\ UNCHANGED <<clock, deadline, model, due, lastReason>>

\* An error of the service, or a reply without a text block.
ModelFails(reason) ==
    /\ phase = "waiting" /\ reason # "timeout"
    /\ open' = open \ {model}
    /\ Fails(reason)

CallTimesOut_NoTimer ==
    /\ phase = "waiting" /\ FALSE
    /\ open' = open \ {model}
    /\ Fails("timeout")

CallTimesOut ==
    /\ phase = "waiting" /\ clock = due
    /\ open' = open \ {model}
    /\ Fails("timeout")

Tick ==
    /\ phase \in {"next", "waiting"} /\ clock < MaxClock
    /\ phase = "waiting" => clock < due
    /\ clock' = clock + 1
    /\ UNCHANGED <<phase, deadline, model, due, open, lastReason, answer>>

\* The steps that need no outside help.
InvokeProgress == TryModel \/ BudgetExhausted \/ ListExhausted \/ CallTimesOut

-----------------------------------------------------------------------------
InvokeTypeOK ==
    /\ clock \in 0..MaxClock /\ deadline \in Nat /\ due \in Nat
    /\ phase \in {"idle", "next", "waiting", "done"}
    /\ model \in 1..(Models + 1) /\ open \subseteq 1..Models
    /\ lastReason \in Reasons

\* No request is open past the budget, whatever each model does with the time
\* before it and however late the loop gets to the next one, and two are never
\* open at once (invoke caps each timeout by what is left and stops when
\* nothing is; tryModel aborts a call it gives up on).
CallsAreBounded ==
    /\ open # {} => clock <= deadline
    /\ \A m, n \in open : m = n
=============================================================================
