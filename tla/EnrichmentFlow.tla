--------------------------- MODULE EnrichmentFlow ---------------------------
(***************************************************************************)
(* Enrichment of one decision: concurrent runs of recoverMissingNarratives *)
(* after their recovery gate, the DecisionNarrativeTable they share, the   *)
(* push of decision.enriched, and a client that polls the read model.      *)
(*                                                                         *)
(* A run renders the branches its gate found missing concurrently, reads   *)
(* the table again and announces a complete set.  Rendering a branch       *)
(* touches nothing shared before its conditional Put, so it is part of     *)
(* the Put; NarrativeBranch says what the payload can be.                  *)
(*                                                                         *)
(* A fault is a Put, a read or a push that fails, a Put that is applied    *)
(* though its answer is lost, or a run that dies.                          *)
(***************************************************************************)
EXTENDS Naturals, FiniteSets

CONSTANTS
    Runs,       \* invocations of the recovery
    Clients,    \* dashboards, connected and polling
    NoItem,     \* absence of a narrative
    MaxFaults   \* bound on the faults, for model checking only

ASSUME NoItemAssumption == NoItem \notin Runs
ASSUME FaultsAssumption == MaxFaults \in Nat

RequiredTypes == {"REPORT", "PUBLIC_ALERT", "EXPLANATION"}

VARIABLES
    core,       \* whether the DecisionCore is committed
    item,       \* DecisionNarrativeTable: the run whose text is stored, by type
    run,        \* what each run is doing
    announced,  \* whether some run announced decision.enriched
    client,     \* what each client knows
    faults      \* faults so far

vars == <<core, item, run, announced, client, faults>>

\* `missing': the branches a run has still to settle, those its gate found
\* missing.  What became of a branch is reported and read by nobody here.
Run == [pc: {"gate", "render", "push", "done", "unannounced", "dead"},
        missing: SUBSET RequiredTypes]

AtGate == [pc |-> "gate", missing |-> {}]

\* `told': reached by the push; `polling': the two reads of a poll that matter
\* here, the core and whether the narratives are complete; `told_first': the
\* push came before the poll started; `status': data_status of the last answer.
Client == [told: BOOLEAN, told_first: BOOLEAN,
           polling: [core: {"unread", "yes", "no"}, complete: {"unread", "yes", "no"}],
           status: {"none", "insufficient_data", "partial", "ready"}]

NotPolling == [core |-> "unread", complete |-> "unread"]

TypeOK ==
    /\ core \in BOOLEAN /\ announced \in BOOLEAN
    /\ item \in [RequiredTypes -> Runs \cup {NoItem}]
    /\ run \in [Runs -> Run]
    /\ client \in [Clients -> Client]
    /\ faults \in 0..MaxFaults

Init ==
    /\ core = FALSE /\ announced = FALSE /\ faults = 0
    /\ item = [t \in RequiredTypes |-> NoItem]
    /\ run = [r \in Runs |-> AtGate]
    /\ client = [c \in Clients |-> [told |-> FALSE, told_first |-> FALSE,
                                    polling |-> NotPolling, status |-> "none"]]

-----------------------------------------------------------------------------
Existing == {t \in RequiredTypes : item[t] # NoItem}
isNarrativeSetComplete_NonEmpty(types) == types # {}

isNarrativeSetComplete(types) == RequiredTypes \subseteq types

Fault == faults < MaxFaults /\ faults' = faults + 1

GoTo(r, pc) == run' = [run EXCEPT ![r] = [pc |-> pc, missing |-> {}]]

CommitCore ==
    /\ ~core /\ core' = TRUE
    /\ UNCHANGED <<item, run, announced, client, faults>>

Gate_OnlyWhenEmpty(r) ==
    /\ run[r].pc = "gate" /\ core
    /\ run' = [run EXCEPT ![r] = [pc |-> "render",
                   missing |-> IF Existing = {} THEN RequiredTypes ELSE {}]]
    /\ UNCHANGED <<core, item, announced, client, faults>>

\* The gate and the guards of recoverMissingNarratives: without a core the
\* recommendation is FULL_WORKFLOW and the run refuses.  The core never goes
\* away and a narrative needs it, so the gate's two concurrent reads answer
\* like one at the time of the second.
Gate(r) ==
    /\ run[r].pc = "gate" /\ core
    /\ run' = [run EXCEPT ![r] = [pc |-> "render", missing |-> RequiredTypes \ Existing]]
    /\ UNCHANGED <<core, item, announced, client, faults>>

GateRefuses(r) ==
    /\ run[r].pc = "gate" /\ ~core
    /\ GoTo(r, "done")
    /\ UNCHANGED <<core, item, announced, client, faults>>

Settles(r, t) == run' = [run EXCEPT ![r].missing = @ \ {t}]

Rendering(r, t) == run[r].pc = "render" /\ t \in run[r].missing

\* conditionalPut with attribute_not_exists.
PutNarrative_Overwrites(r, t) ==
    /\ Rendering(r, t)
    /\ item' = [item EXCEPT ![t] = r]
    /\ Settles(r, t)
    /\ UNCHANGED <<core, announced, client, faults>>

PutNarrative(r, t) ==
    /\ Rendering(r, t) /\ item[t] = NoItem
    /\ item' = [item EXCEPT ![t] = r]
    /\ Settles(r, t)
    /\ UNCHANGED <<core, announced, client, faults>>

PutRefused(r, t) ==
    /\ Rendering(r, t) /\ item[t] # NoItem
    /\ Settles(r, t)
    /\ UNCHANGED <<core, item, announced, client, faults>>

\* Any other error is the branch's "failed"; the item may be there all the same.
PutFails(r, t) ==
    /\ Rendering(r, t) /\ Fault
    /\ \/ UNCHANGED item
       \/ /\ item[t] = NoItem
          /\ item' = [item EXCEPT ![t] = r]
    /\ Settles(r, t)
    /\ UNCHANGED <<core, announced, client>>

Rendered(r) == run[r].pc = "render" /\ run[r].missing = {}

\* The table is read again, and only a complete set is announced.
RereadNarratives_OwnOutcomes(r) ==
    /\ Rendered(r)
    /\ GoTo(r, IF \A t \in RequiredTypes : item[t] = r
               THEN "push" ELSE "done")
    /\ UNCHANGED <<core, item, announced, client, faults>>

RereadNarratives(r) ==
    /\ Rendered(r)
    /\ GoTo(r, IF isNarrativeSetComplete(Existing) THEN "push" ELSE "done")
    /\ UNCHANGED <<core, item, announced, client, faults>>

\* publishDecisionEnriched: each connection gets it or fails on its own.
Push(r) ==
    /\ run[r].pc = "push"
    /\ GoTo(r, "done")
    /\ announced' = TRUE
    /\ \E reached \in SUBSET Clients :
           client' = [c \in Clients |-> [client[c] EXCEPT !.told = @ \/ c \in reached]]
    /\ UNCHANGED <<core, item, faults>>

\* The connections cannot be listed: swallowed, the run ends all the same.
PushFails(r) ==
    /\ run[r].pc = "push" /\ Fault
    /\ GoTo(r, "unannounced")
    /\ UNCHANGED <<core, item, announced, client>>

\* A read that fails is thrown, and the invocation may die anywhere.
Dies(r) ==
    /\ run[r].pc \in {"gate", "render", "push"} /\ Fault
    /\ GoTo(r, "dead")
    /\ UNCHANGED <<core, item, announced, client>>

\* A further request of the key starts the recovery again.
RunAgain(r) ==
    /\ run[r].pc \in {"done", "unannounced", "dead"}
    /\ ~announced
    /\ run' = [run EXCEPT ![r] = AtGate]
    /\ UNCHANGED <<core, item, announced, client, faults>>

-----------------------------------------------------------------------------
(* aggregateDecisionReadModel: concurrent reads, then one status. *)

YesNo(b) == IF b THEN "yes" ELSE "no"

PollCore(c) ==
    /\ client[c].polling.core = "unread"
    /\ client' = [client EXCEPT ![c].polling.core = YesNo(core),
                      ![c].told_first = IF client[c].polling = NotPolling
                                        THEN client[c].told ELSE @]
    /\ UNCHANGED <<core, item, run, announced, faults>>

PollNarratives(c) ==
    /\ client[c].polling.complete = "unread"
    /\ client' = [client EXCEPT ![c].polling.complete = YesNo(Existing = RequiredTypes),
                      ![c].told_first = IF client[c].polling = NotPolling
                                        THEN client[c].told ELSE @]
    /\ UNCHANGED <<core, item, run, announced, faults>>

DataStatus(p) ==
    IF p.core = "no" THEN "insufficient_data"
    ELSE IF p.complete = "yes" THEN "ready" ELSE "partial"

PollAnswers(c) ==
    /\ client[c].polling.core # "unread" /\ client[c].polling.complete # "unread"
    /\ client' = [client EXCEPT ![c].status = DataStatus(client[c].polling),
                                ![c].polling = NotPolling,
                               ![c].told_first = FALSE]
    /\ UNCHANGED <<core, item, run, announced, faults>>

-----------------------------------------------------------------------------
Branch(r, t) == PutNarrative(r, t) \/ PutRefused(r, t)

RunStep(r) ==
    \/ Gate(r) \/ GateRefuses(r)
    \/ \E t \in RequiredTypes : Branch(r, t)
    \/ RereadNarratives(r) \/ Push(r)

Disturbed(r) ==
    \/ \E t \in RequiredTypes : PutFails(r, t)
    \/ PushFails(r) \/ Dies(r)

Poll(c) == PollCore(c) \/ PollNarratives(c) \/ PollAnswers(c)

Next ==
    \/ CommitCore
    \/ \E r \in Runs : RunStep(r) \/ Disturbed(r) \/ RunAgain(r)
    \/ \E c \in Clients : Poll(c)

\* A Lambda that has been started goes on by itself.  Nobody promises that a
\* client polls, or that a recovery is requested again.
Fairness == \A r \in Runs : WF_vars(RunStep(r))

Spec == Init /\ [][Next]_vars /\ Fairness

-----------------------------------------------------------------------------
NarrativesPromise == INSTANCE NarrativeSet WITH
    Types <- RequiredTypes, Items <- Runs

\* Concurrent and repeated recoveries behave like one write-once set: no run
\* replaces the text another one stored, and decision.enriched is only ever
\* announced of the complete set (conditionalPut, the confirming read).
ImplementsNarrativeSet == NarrativesPromise!Spec

\* When every run has come to its end, none of them by dying or by a push that
\* failed, and between them the narratives are complete, then it has been
\* announced: whoever finishes last sees the whole set, although each run
\* wrote only a part of it and some of its Puts may have failed.
LastWriterAnnounces ==
    (\A r \in Runs : run[r].pc = "done") /\ Existing = RequiredTypes => announced

\* A recovery that starts after the last fault, with the core committed, ends
\* with the set complete and announced, whatever earlier runs left behind.
RecoveryRepairs ==
    \A r \in Runs :
        (run[r].pc = "gate" /\ core /\ faults = MaxFaults)
            ~> (Existing = RequiredTypes /\ announced)

\* The answers a client gets never go back, and one that was told of the
\* enrichment before it polled gets the whole set: the push never runs ahead
\* of what the read model can see, though it reads its tables one by one.
Rank(status) ==
    CASE status = "none" -> 0 [] status = "insufficient_data" -> 1
      [] status = "partial" -> 2 [] status = "ready" -> 3
ReaderKeepsUp ==
    [][\A c \in Clients :
          /\ Rank(client[c].status) <= Rank(client'[c].status)
          /\ PollAnswers(c) /\ client[c].told_first => client'[c].status = "ready"]_vars
=============================================================================
