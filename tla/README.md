# City Response Commander: TLA+ models and proofs

The backend of this repository turns an injected traffic incident into one
decision, has language models narrate it, lets commanders publish it, and has to
do all of that on DynamoDB conditional writes, at-least-once Step Functions
Express executions and Lambda invocations that may die between any two awaits.
What it decides comes from a rule engine over files that carry a digest and over
policies a configuration chooses. The modules here model that machinery and those
rules, check them with TLC on small instances, and prove with TLAPS what the safety
runs check of the injection protocol, publishing, the enrichment, a narrative, the
rules over the official files and the what-if request: for any number of requests,
executions, handlers, runs and clients, and for files of any length.

Paths below are relative to `src/packages/backend/src/` unless they say otherwise.

## The system

| Component | State | Operations | Works with |
|---|---|---|---|
| `inject/` | none of its own | first lease, same-key routing, recovery leases, stale-running orchestration, launch | the idempotency table, the recovery gate, StartExecution |
| `repository/` | the tables: IdempotencyTable, DecisionCoreTable, DecisionNarrativeTable, PublishRecordTable | conditional Put and Update, consistent reads | everyone |
| `workflow/` | none | MARK_RUNNING, MARK_CORE_COMMITTED, MARK_COMPLETED, MARK_PROCESSING_FAILED, RECONCILE_STALE_RUNNING, each a conditional update and, if refused, a confirming read (`apply_or_confirm.ts`); the asynchronous conflict handler | the idempotency table |
| `decision/` | none | DecisionFn: rule engine, conditional Put of the core, reread and identity classification | DecisionCoreTable, `packages/domain` |
| `recovery/` | none | the read-only recovery gate; rendering of missing narratives | three tables, `packages/rag`, WebSocket |
| `publish/` | none | POST publish: state machine, audit trail, dispatch claim, channels | PublishRecordTable, claims, channels, WebSocket |
| `events/`, `realtime/` | none | pushes: fast_path_ready, decision.enriched, publish.status_changed | WebSocket connections |
| `read_model/`, `handlers/` | none | GET handlers: the decision's read model, the four dashboard queries | the four tables; the official files |
| `resilience/`, `errors/` | none | bounded retry (called by nothing), error classification | handlers |
| `whatif/` | none | parse, validate, recompute and explain a hypothetical scenario | a model, the rule engine, `packages/rag` |
| `metrics/`, `logging/`, `observability/`, `security/`, `time/` | counters | observers | all |
| `packages/domain` | none | ingestion behind the manifest gate, strategies A to F, rule engine, clearance time (ETE) | DecisionFn, the dashboard |
| `packages/rag` | none | SOP retrieval, composers, Bedrock adapter, schema validator, narrative writer | Bedrock, DecisionNarrativeTable |
| `packages/config`, `packages/shared-schemas`, `packages/ai-generator` | read-only | configuration, types, model wrappers | all |
| `packages/frontend`, `infra/` | none | placeholders | |

Three things that matter are not in the repository: the InjectFn handler that
calls the modules of `inject/` in order, the state machine definition that
orders the workflow's actions, and the code that retrieves citations and hands
them to a composer. Their order is taken from the doc comments of the modules they
call and is marked external in `PROJECT.json`.

### What is hard, and what makes each part correct

*Injection.* Several requests carry the same idempotency key, several executions
serve it, every one of them acts on a record it read earlier, responses get lost,
Express delivers twice, and leases and run deadlines expire while their holders
live. Correct means: one execution per attempt, one lease holder per attempt, one
decision core per key and only that one announced, no recovery that completes a
record without its core, finality of completion and of a reported conflict, no
live holder robbed early, and no write from a superseded execution. And the key
always settles if the faults stop.

*Publishing.* Handlers of several commanders interleave between reading the
record, claiming a dispatch, sending, and writing with an optimistic version.
Correct means: an append-only audit trail that tells the record's whole story, at
most one dispatch under an approval, no alert without a recorded approval of a
committed decision, `published` only after full delivery and for good, pushes only
about persisted transitions.

*Enrichment.* Concurrent and repeated recoveries each render the narratives they
found missing; Puts fail or land without an answer, pushes fail, runs die, and
clients poll a read model that reads its tables one by one. Correct means: each
narrative is written once, the complete set is announced by whoever finishes last
and never before, a later recovery repairs what was left, and what a client sees
never goes back.

*One narrative.* A knowledge base may throw, mislabel, repeat or miss an article,
an S3 object may be another article's, a model may hang, be throttled or answer
anything. Correct means: the citations are accounted for article by article, the
calls stay in their budget, every text that must exist exists in every language it
must, says when it quotes the fallback, and holds nothing a model was not asked for.

*The operational picture.* Files can be damaged, lost and put back between two
requests; rows lie before, at and after the event; readings are missing or stale;
a location text may name several intersections; several policies are in force.
Correct means: no answer comes from a file that is not the official one, nothing
later than the event is used, the evacuation crosses the closed road upstream of
the one place the report can mean, the clearance time is about one instant, and
the dashboard and the decision agree.

*What-if.* A model turns a question into assumptions. Correct means: the rules are
rerun only on assumptions that can mean one thing, and the explanation quotes what
was found and nothing else.

`PROJECT.json` lists every hazard with its line and the properties that cover it.

## The modules

```
IdempotencyTable            the record, its writes, the routing decision (no variables)
   DecisionWorkflow         executions over the record and the core
      InjectionFlow         requests + executions: the whole protocol
         InjectionRefinement   ... implements SingleDecision (abstract)
            MCInjectionFlow    TLC
            InjectionProofs    frame lemmas, the theorems  (TLAPS)
         InjectionLiveness     fairness, bounded faults, patient clients
            MCInjectionLiveness  TLC
PublishFlow                 handlers over the publish record, claims, channels;
   |                        implements PublishLifecycle (abstract)
   |- MCPublishFlow         TLC
   |- PublishProofs         the theorems                   (TLAPS)
   |- PublishRetries        PublishFlow + which call wrote which transition
         MCPublishRetries   TLC
EnrichmentFlow              recoveries, the narrative table, pushes, polling clients;
   |                        implements NarrativeSet (abstract)
   |- MCEnrichmentFlow      TLC
   |- EnrichmentProofs      the theorems                   (TLAPS)
Induction                   induction and sorting for proofs about data (TLAPS)
SopRetrieval, BedrockInvoke, NarrativeComposers
   |- RetrievalProofs       what a retrieval returns       (TLAPS)
   NarrativeBranch          citations, model call and payload of one narrative
      MCNarrativeBranch     TLC
      NarrativeProofs       the theorems                   (TLAPS)
RoadNetwork                 the map
   Configuration            profiles, providers, the policy section of the schema
      Ingestion             the manifest gate and the parsers
      PolicyStrategies      strategies A to F
         RuleEngine         the seven articles
            DecisionPipeline   the facts of one incident
            Dashboard          the four queries
               OperationalPicture   all of them over files that go bad and come back
                  MCOperationalPicture   TLC
                  PictureProofs          the theorems      (TLAPS)
SopRetrieval, NarrativeComposers
   WhatIf                   one hypothetical question
      MCWhatIf              TLC
      WhatIfProofs          the theorems                   (TLAPS)
```

### Injection

`row` is the IdempotencyTable item and `core` the DecisionCoreTable item of one
key; `req[r]` and `exec[e]` are the local state of a request and an execution:
the call it is about to make and what it remembers of its last read. `claims`,
`announced` and `alerted` are histories. Each action is one table access (or one
push), so everything interleaves between any two accesses:

- a conditional write has three actions: it succeeds (`MarkRunning`), its
  condition fails (`MarkRunningRefused`), or it lands and the response is lost
  (`MarkRunningLost`); the client's resend then fails its own condition, and the
  code takes the path it takes after any refused write. `apply_or_confirm.ts` rereads
  then (`ConfirmRunning`).
- guards and mutations are operators of `IdempotencyTable`, one per write of the
  code: `CanMarkRunning`/`Running`, `CanFinish`/`Completed`, `CanReconcile`, ...
- `RouteSameKeyRequest` is `routeSameKeyRequest`: what a request that found the key
  taken does next. The gate's two reads are two actions, the reconciliation and
  the re-lease two more.
- `Decide` picks any identity: the official data may change between two runs.
- `LaunchDelivered2x` starts two executions; `LaunchFails` reports a failed start,
  whether or not the service accepted it.
- `StageFails` is a task error that reaches the Catch; `CrashExecution` and
  `CrashRequest` kill without a trace.

Left out: `recovery_stage`, the previous error, the evidence source, display times
and audit pairs, which no code reads to decide anything; the completion witnesses,
which only choose between two reports of an execution that ends either way; record
TTL.

`SingleDecision` is what a key promises: numbered attempts, one claim each, at most
one decision, announcements of that decision only, and one final outcome.
`InjectionRefinement` maps `attempt` to `row.attempt`, `decision` to `core`, and
the outcome to what the record's status and error say.

### Publishing

`record` is the PublishRecordTable item with its audit trail, `claimed` the
versions whose dispatch claim is taken, `handler[h]` an invocation of
`createPublishHandler` between two awaits: the call it serves, the record it read
(`seen`) and the record it wants to write (`next`). `sent` and `pushed` are
histories. `ReadPublishRecord` is everything from the read to the next await:
target, idempotency check, reason, legality, audit entry. The claim, the
synchronous dispatch and the write are separate; each may be followed by a crash,
and the claim and the write may lose their response. `CommitDecision` and
`WriteAlertText` are the other pipelines, as far as publishing reads them.

The `VERSION_DRIFT` answer of `publish_idempotency.ts` has no action: the handler
passes the version of the very record it checks, so the two never differ.

`PublishLifecycle` is the promise: a log of legal transitions that only grows, one
alert at most per approval on it, `published` only over a delivered alert.

### Enrichment and narratives

`item` is the DecisionNarrativeTable of one decision, by type, and `run[r]` an
invocation of `recoverMissingNarratives` (`recovery/enrichment_recovery.ts`): its
gate, the branches it still has to settle, the confirming read, the push. The
branches are concurrent, so any of them may settle next. `PutNarrative` and
`PutRefused` are `conditionalPut` of `packages/rag/src/narrative_writer.ts`;
`PutFails` is every other error, with the item stored or not. `Push` reaches any
subset of the clients, `PushFails` is a connection list that cannot be read, and
`Dies` a thrown read or a dead Lambda. A client's poll is the two reads behind
`data_status` of `read_model/read_model_aggregator.ts`, in any order, and the
answer. What a branch became is reported by the code and read by nobody, so it is
left out, as are key and TTL attributes.

`CommitCore`, `RunAgain` and `Dies` are the surroundings: the decision's pipeline, a
further request of the key, the platform.

What is written is the matter of `NarrativeBranch`. `SopRetrieval` has the state of
`SopRetriever.retrieve`: one query for all articles, then a read from S3 for each
article that is not covered, in order. `BedrockInvoke` is `BedrockAdapter.invoke`: the
list of models, the budget's deadline, the timer of the open call. `NarrativeComposers`
holds the schema validator and the three composers as operators on parsed replies; a
text is where its body comes from and whether it carries the fallback disclosure.

### The operational picture

The pure code of `packages/domain` is operators, with the names of the code:
`RoadNetwork`, `PolicyStrategies` (strategies A to F and the bundle that reads them
from a configuration), `RuleEngine` (the articles, the evacuation, the clearance time),
`DecisionPipeline` (`runDeterministicDecision` and the adapter around it), `Ingestion`,
`Dashboard`, `Configuration`. `OperationalPicture` puts them behind actions: a file is
damaged, lost or restored, DecisionFn is asked for an event, the dashboard for one of
its four views; each ingests the files anew. `case` is fixed by `Init` and holds the
official files, their expected digests, the deployment, the events that are asked for.

Shares and rates are percentages, the penalty of the clearance time a fraction in
fifths of a minute, instants are minutes, a location text is the set of road names it
contains, and a field that does not parse as what its column holds is `None`. What is
thrown inside a decision ends as an error result. `SourceDamaged`, `SourceRestored`
and `Truncated` are the surroundings.

### What-if

`WhatIf` is one request: authorisation and parsing of the request, the model's
assumptions, loading and validation, citations, explanation; each action ends at an
await, and `Throws` is the catch around them. The facade that loads a baseline and
reruns the rules is injected and has no implementation in the repository: a baseline
is any catalog of entities, a rerun concludes any article set.

## The runs

| Run | Instance | Shows |
|---|---|---|
| `injection` | 3 requests, 2 executions, 2 identities, clock 0..2, lease and deadline 1 | 5 safety invariants and types, 4 action properties, refinement of `SingleDecision`; 1.16 million states |
| `injection_liveness` | 3 requests, 3 executions, 2 faults, clock 0..12 | `EventuallySettled`, `EventuallyCompleted` |
| `publish` | 2 invocations, 2 commanders, every body, versions to 4 | 5 safety invariants and types, 2 action properties, refinement of `PublishLifecycle`; 377 thousand states |
| `enrichment` | 2 runs, as often as it takes, 2 faults, 1 polling client | `LastWriterAnnounces`, `ReaderKeepsUp`, refinement of `NarrativeSet`, and `RecoveryRepairs` under fairness; 78 thousand states |
| `narrative_branch` | each type, every required language set, citation sets of 0 to 2 articles, 85 knowledge-base rankings, 3 models under a budget of 1.5 timeouts, every shape of reply | 6 safety invariants, and `BranchEnds` under fairness; 575 thousand states |
| `operational_picture` | 1147 cases of 5 files, map, place, policy and deployment; 3 instants; at most one bad file at a time | 5 safety invariants; 37 thousand states |
| `whatif` | every caller, up to 2 assumptions of 19, 2 baselines, 3 conclusions, rankings of 0 or 1 chunk | 2 safety invariants; 21 thousand states |
| `staged_recovery` | as `injection` | violation: a full re-run is leased for a committed core |
| `start_failed_core` | as `injection` | violation: `start_failed` beside a stored core |
| `publish_at_most_once` | as `publish` | violation: the alert goes out in full twice |
| `publish_retry` | 2 invocations, 1 commander, bodies without a target | violation: a redelivered request moves the record again |
| `unmeasured_road` | as `operational_picture` | violation: a road without a reading is preferred to a measured one |

*Why the bounds are enough.* Three requests give a first attempt and two recoveries,
and two requests that compete for the second one; two executions give a duplicate
delivery, or a run and its recovery, with the first one still alive as a zombie; two
identities are a decision and a different one; with lease and deadline 1, clock 0..2
lets both expire under a live holder. The proofs below remove these bounds for
all safety properties of the injection protocol. In the publish run a version bound
of 4 stops new invocations at version 4, so one that arrived at version 3 may still
write: none, draft, approved, published or failed, re-approved; the proofs remove that
bound and the one on the handlers. Every property is broken by a mutant of the code in
these instances.

Two enrichment runs are one that writes and one that overtakes it; a third would only
repeat either. Two faults let a Put and a push fail in one story; the proofs remove both
bounds and that on the clients. Three models under a budget of one and a half timeouts
give every way to run out: the list before the budget, the budget in the middle of a
call, the budget between two calls. The proofs allow any number of models, any timeouts
and any rankings and replies. Rankings of up to three chunks over four kinds hold
every tie, repetition and wrong label for two articles. The rules compare a reading with
thresholds and with other readings, so the cases hold values at each threshold and on
either side of it, rows before, at and after the event, a map for every position of an
alternative around the place, a text that names none, one or two of the crossings, and
a deployment for every way a configuration can be odd; the proofs are about files of any
length with any values and any configuration. In the what-if run the values are
at the bounds of each field, as shares and as percentages, and pairs of assumptions are
the smallest contradiction.

`CHECK_DEADLOCK FALSE`: the runs really end, with a settled key or a spent bound.
Symmetry permutes values that are only compared for equality, and the run with
liveness properties uses none.

*Fairness* (`InjectionLiveness`). Weak fairness of each request's and execution's
own steps: Lambda and Step Functions run what was started. Faults have no
fairness and are at most `MaxFaults`. Weak fairness of `PatientArrive` says that
clients repeat a request until the key settles, after the lease or deadline they
were told about; `TimelyTick` lets time pass when everybody waits for a timeout,
which is the assumption that timeouts are longer than the work they bound. The
safety run does not make it: there time passes at any moment. `EventuallySettled`
needs one retry more than there are faults, so a fault costs the client one retry.

`EnrichmentFlow` assumes weak fairness of each run's own steps, for the same reason, and
none of the clients, of a further request or of the faults: `RecoveryRepairs` is about a
run that has started after the last of them. `NarrativeBranch` assumes that the stores
answer or fail, that time passes and that the handler goes on; a model need not ever
answer, and `BranchEnds` is what the timers promise then. `OperationalPicture` and
`WhatIf` have no liveness property: each is one call after the other.

## What the violations show

1. *A committed decision is re-run* (`StagedRecovery`). The header of
   `inject/recovery_transitions.ts` promises FULL_WORKFLOW only when no core is
   committed. The mode is graded on the gate's read, and the guard of the re-lease is
   status and attempt only. The old execution can commit its core in between.
   A `start_failed` or expired lease of an ENRICHMENT_ONLY attempt also leads to
   FULL_WORKFLOW. The core itself is safe (`AnnouncedIsStored`, `ImplementsSingleDecision`),
   but the re-run may end in a terminal conflict with the decision it had already.
2. *`start_failed` does not mean that no core exists* (`StartFailedMeansNoCore`),
   although two comments say so: the failed start may be that of a recovery.
3. *An alert is sent twice* (`SentAtMostOnce`), although `publish/publish_fn.ts`
   says at most once: the claim is per approved version, and the only way out of a
   crash between dispatch and write is a new approval, hence a new version.
4. *A retried publish request moves the record again* (`RetryMovesOnce`): without a
   `target_state` the target is inferred from the state the retry finds.

5. *A road nobody measured is preferred* (`UnmeasuredIsNotPreferred`). The plan accepts
   the snapshot policy only if missing data fails closed
   (`.kiro/specs/impl1/tasks.md:556`). The pipeline puts a saturation of 0 in the place of
   a missing or stale reading of an alternative, and the evacuation takes the lowest.

Noticed on the way, and not worth a run: `.kiro/specs/impl1/design.md` clears `lease_owner` on a start
failure, the code keeps it; nothing depends on it, because the status is in every
guard that names the owner. The `retryable` that a start failure records is read by
nobody: a `start_failed` record is recovered either way. `withRetry` is called by no code of the repository, and
`validateConfig` and `createConfigProvider` only by tests. The schema accepts two sets
for the clearance time that `createPolicyStrategyBundle` rejects, so such a
configuration makes every decision an error while the dashboard works; an unknown
alignment mode makes both fail. The schema bounds no number: a staleness limit that is
no number cuts nothing off on the dashboard while decisions fail. An override from the
environment for a key the file lacks lands under another key. `policy.ete.snapshot_mode`
is read by nobody. The pipeline passes the strategies a mode and never the explicit
mapping, set or station list, so the explicit modes resolve nothing. In `whatif`, a field
named like an inherited one (`toString`) ends as an error 500 and not as a
clarification. A report whose reply lacks `report_text` is stored with the template's
text and the source `bedrock`.

## The proofs

The first half of `InjectionProofs` proves what each write leaves in the record and what
each move changes; the second half never expands them again. Constants are arbitrary: any
sets of requests, executions and identities, any positive lease and deadline. The
assumptions are the named ones of the modules (`None` is none of the others, the
durations are positive), and TLC evaluates them in the runs.

The properties are not inductive alone. That two executions cannot claim one
attempt, for example, needs that a claim leaves `starting`, that nothing returns to
`starting` with the same attempt, and that no claim is ahead of the record. The
invariant `IInv` gathers, beside the types:

- attempts: no request, execution or claim is ahead of `row.attempt`, an absent
  record has attempt 0, a record that is starting is not claimed;
- ownership: the record's owner, ARN and claim agree, one request holds the lease;
- stages: what an execution past a stage may rely on (a core is stored once it is
  past the Put, its own identity is the stored one past the reread);
- grades: `effective` and ENRICHMENT_ONLY imply a core, which never disappears;
- failures: a conflict is recorded by the execution whose attempt it is, and an
  alert is behind a recorded conflict.

`Init => IInv` and `IInv /\ [Next]_vars => IInv'` are proved part by part, each part
from the effect lemmas (`RequestEffects`, `ExecutionEffects`) that summarise every
action. From `IInv` follow the invariants (`SingleClaim`, `SingleHolder`,
`CommittedCompletion`, `HonestPush`, `GradedRecovery`, `AlertedConflict`), the action
properties (`TerminalIsFinal`, `LiveHolderIsKept`, `SupersededIsFenced`) and
`Refinement`. `GradedRecovery` is a consequence of the grades that is proved and has no
run of its own.

`RunsAreNotAbandoned` (a lost response is never taken for the loss of the attempt) needs
one thing more, `WorkInv`: an execution that confirms its own write has lost its attempt,
or the checkpoint it was after is there. A read that confirms can then end the
execution only when the record is no longer its own, and a live one goes on.

`EnrichmentProofs` does the same for `EnrichmentFlow`, with any runs, any clients and any
number of faults (assumptions: `NoItem` is no run, `MaxFaults` is a number). Its
invariant says that a core comes before any narrative, that a run about to push has seen
the whole set and so is any announcement of one, and what a client in the middle of a
poll may rely on: its reads are true by now, not older than its last answer, and not
older than a push that came before them. Narratives only accumulate (`ItemsStay`), a
narrative that appears was put by a run that still has to read the table again
(`WrittenWhileRendering`), and a run ends without a fault only by announcing or by
seeing an incomplete set (`RunMoves`); from these `LastWriterAnnounces` is inductive.
`Refinement` maps the table and the announcement to `NarrativeSet`.

`PublishProofs` covers `PublishFlow` for any handlers, calls and commanders and versions
without end (assumptions: a call has an actor, a target or none, and a reason or none;
`None` is no actor and no state). A handler writes what it made of a record it read some
awaits ago, so the invariant is about what may be said of such a record: it is well-formed
(`WellFormed`: its trail chains by legal transitions and gives its state and approver), the
record has only grown since (`Extends`), and what the handler holds is one transition
further (`Succeeds`). When the version condition lets the write through, the record *is*
the one that was read, and the write appends to it (`Written`). Beside this, a version
under dispatch is claimed, by one handler, and no alert had it (`ClaimsAreExclusive`);
what was found committed and written stays so (`GatesHold`); and a handler that holds a
publication to write has seen every channel deliver (`DeliveredFirst`). All invariants and
action properties of the publish run and the refinement of `PublishLifecycle` follow.
`MaxVersion` only keeps TLC finite: no proof uses it.

### Proofs about data

The other four components compute: they sort, filter and sum sequences. No library
theorem that takes an operator can be used here, so `Induction` gets induction from sets:
every nonempty set of numbers has a least member, and the least counterexample has a
predecessor (`EveryNumber`). From it come functions defined along 0..n (`DefinedAlong`),
with which a filter or a sum is compared step by step, the least value of a set
(`LowestExists`) and the sorted sequence of a finite set (`SortedExists`). The models
define such helpers as recursive functions or by what they return, so that these apply.

`RetrievalProofs` (assumption: the knowledge base answers with sequences of chunks) keeps
`RetrievalInv` through every step of a retrieval: each wanted article is covered once, still
to fetch or missing, never two of these; the outcome tells which store it came from; no
chunk of the answer scores higher for an article than the one that is quoted
(`QuotesTheBest`). `BestIsKept` says that the scan of a prefix of the ranking has kept the
best of that prefix. It contains `CitationsAccountedFor` and `CitationIsBestOfItsArticle`.

`NarrativeProofs` (also: `Models` and the two timeouts are positive, citation sets are of
the seven articles) adds the call and the payload. `OneCallAtATime` bounds the open request
by its timer and the timer by the budget (`TimerWithinBudget`), which gives
`CallsAreBounded`. What is stored is `renderNarrativeBranch` of the citations and the answer
still at hand (`ComposedAtTheEnd`), so the three promises about texts become lemmas about
the composers for replies of any shape: `AlertTexts`, `ExplanationText`,
`OverstepLeavesTemplate`. A model's reply needs no assumption.

`WhatIfProofs` (also: a parsed reply is a list of items, a rerun concludes articles)
shows by `ValidMeansOneThing` that what the validator lets through means one thing,
whatever the request, the parser and the baseline; `RunBeforeAnswer` carries it across
the awaits, and `Grounded` ties the answer to the retrieval it quotes.

`PictureProofs` covers the five invariants of the operational picture for any cases. The
assumptions say what the columns of a file hold (`CasesAssumption`: a number or `None`
where the code has a number or null; no crossing is `None`; a damaged file has another
digest; a setting marked as a number is one) and that `None` is no road, number or role
(`NoneAssumption`). The inductive invariant `PictureInv` is one idea: a file is the
official one, cut off or missing, hence (`GateIsSound`) an ingestion gives the official
data or a stop, hence every decision and every view is a function of the official data or
of the stop. From there on nothing moves, and what is left is what the rules compute:

- `AnswersAreVerified`: the gate's argument, with the three causes for which an accepted
  configuration still fails (`ErrorsHaveACause`).
- `ClearanceIsOfOneInstant`: what `selectLatestCommonExactSnapshot` picks is the latest
  instant with a reading for each road (`CommonInstants`, `CommonSnapshot`), the first
  reading of a road counts (`FirstReading`), and the candidates of a map are its
  alternatives in their order (`CandidatesOfTheMap`).
- `EvacuationsAreQualified`: a candidate's role depends on the map alone
  (`RoleIgnoresReadings`), PRIMARY is to cross upstream of the one place (`PrimaryIsBefore`),
  and the choice is of the least saturation among these (`RoutesByRole`).
- `TheFutureIsUnused`: the rows of the past are embedded in the file in their order
  (`Embeds`); every selection an article makes finds the same row there, by its position
  (`FirstOfThePast`, `SelectedInThePast`, `SnapshotInThePast`), and evaluations that do not
  trigger leave no mark (`OnlyTriggersCount`).
- `DashboardAgrees`: the two selectors are the same function (`SelectorsAgree`), the
  dashboard's cutoff is the event's instant, and so each shown class is a concluded one and
  each flag has its triggered article.

`TakenInOrder` is what they share: a filter of a sequence takes the places that pass, in
order, leaving none out.

Only model-checked: the liveness properties (fairness and ENABLED are beyond the
prover), and the five violations, which are counterexamples. Every invariant and every
action property of the passing runs is a theorem, and so are the three refinements. What
holds for every value of the constants still holds of the models only: the atomicity of
their steps and their abstraction of data are as described above.

## Not modelled

- *Key and execution-name derivation*: pure string functions; every injection model is
  about one key.
- *Bounded retry and error mapping*: nothing calls `withRetry`; the mapping from errors
  to status codes is a table.
- *Metrics, logging, latency reports, security alerting, clock*: observers; the one that
  matters, the alert of a conflict, is part of `DecisionWorkflow`.
- *Within modelled parts*: the fan-out of a push over connections, the assembly and hash
  of the core item, wording and layout of texts, the splitting of CSV lines, the manifest
  of derived artifacts, the report handler and the publish half of the read model, the
  sections of the configuration other than policy, TTL deletion of the record.
  `ingestData` reads each file twice, for the gate and for the parser; a file that changes
  between the two is not covered, since `ingestData` is one step.
- *Shared schemas, AI generator, frontend, infrastructure*: types, wrappers of one call,
  placeholders.

## Plan

1. Theorems that no run states, about the rules alone: the thresholds of `determineRole` and
   of the articles, and that `aggregateArticles` cites what it triggered and what it applied.
2. Safety that `PublishRetries` could promise of a request with a target: its proof needs
   the invariant of `PublishProofs` and the history variable.
3. The two reads of each file in `ingestData`, if a provider that can change between them
   comes into use; the fan-out of pushes over connections, and the record's TTL.
