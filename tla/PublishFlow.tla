---------------------------- MODULE PublishFlow ----------------------------
(***************************************************************************)
(* POST /decisions/{id}/publish for one decision: concurrent handlers of   *)
(* createPublishHandler over the PublishRecordTable item, the dispatch     *)
(* claims and the alert channels.                                          *)
(*                                                                         *)
(* A handler awaits between its reads and its writes, so each await is a   *)
(* step; what runs without an await is one action.  A request that is not  *)
(* from a commander, or names no decision, answers before it reads         *)
(* anything and is left out, and so are the texts of the messages.         *)
(*                                                                         *)
(* The claim adapter, the table and the channels are external; their       *)
(* contracts are the doc comments of the ports publish_fn.ts declares.     *)
(***************************************************************************)
EXTENDS Naturals, Sequences, FiniteSets

CONSTANTS
    Handlers,   \* concurrent invocations
    Calls,      \* client calls; a retry delivers the same call again
    Actors,     \* commanders
    None,       \* an absent value
    MaxVersion  \* bound on the record's version, for model checking only

States == {"draft", "approved", "published", "publish_failed"}

\* The effectful channels, and the two that only produce output.
Outbound == {"CMS_MOCK", "SMS_MOCK"}
Channels == Outbound \cup {"COPY", "EXPORT_JSON"}

\* `target' is the body's target_state or None; `reason' whether it carries a
\* failure_reason; `id' tells two calls with the same body apart.
ASSUME CallAssumption ==
    \A c \in Calls : /\ c.actor \in Actors
                     /\ c.target \in States \cup {None}
                     /\ c.reason \in BOOLEAN
ASSUME VersionAssumption == MaxVersion \in Nat
ASSUME AbsenceAssumption == None \notin Actors \cup States

Entry == [actor: Actors, from: States \cup {"none"}, to: States]

PublishRecord == [state: States \cup {"none"}, version: Nat,
                  approvedBy: Actors \cup {None}, channels: SUBSET Channels,
                  trail: Seq(Entry)]

NoRecord == [state |-> "none", version |-> 0, approvedBy |-> None,
             channels |-> {}, trail |-> <<>>]

VARIABLES
    record,         \* the PublishRecordTable item
    claimed,        \* versions whose dispatch claim has been taken
    coreCommitted,  \* what readDecisionCoreStatus finds
    alertReady,     \* whether a PUBLIC_ALERT narrative has text
    handler,        \* what each invocation is doing
    sent,           \* history: every dispatch, as [version, channels]
    pushed          \* history: the <<version, state>> of each status_changed push

vars == <<record, claimed, coreCommitted, alertReady, handler, sent, pushed>>

Steps == {"read_core", "read_record", "read_alert", "claim", "dispatch", "write"}

Invocation == [pc: Steps \cup {"idle"}, call: Calls \cup {None},
               seen: PublishRecord, next: PublishRecord]

Idle == [pc |-> "idle", call |-> None, seen |-> NoRecord, next |-> NoRecord]

TypeOK ==
    /\ record \in PublishRecord
    /\ claimed \subseteq Nat
    /\ coreCommitted \in BOOLEAN /\ alertReady \in BOOLEAN
    /\ handler \in [Handlers -> Invocation]
    /\ sent \in Seq([version: Nat, channels: SUBSET Channels])
    /\ pushed \subseteq (Nat \X States)

Init ==
    /\ record = NoRecord
    /\ claimed = {}
    /\ coreCommitted = FALSE /\ alertReady = FALSE
    /\ handler = [h \in Handlers |-> Idle]
    /\ sent = <<>>
    /\ pushed = {}

-----------------------------------------------------------------------------
(* publish_transitions.ts *)

\* Mutants: a draft may be published; the published state may be left.
PUBLISH_TRANSITIONS_Draft ==
    [none |-> {"draft"}, draft |-> {"approved", "published"},
     approved |-> {"published", "publish_failed"},
     publish_failed |-> {"approved"}, published |-> {}]

PUBLISH_TRANSITIONS_Reopen ==
    [none |-> {"draft"}, draft |-> {"approved"},
     approved |-> {"published", "publish_failed"},
     publish_failed |-> {"approved"}, published |-> {"approved"}]

PUBLISH_TRANSITIONS ==
    [none |-> {"draft"}, draft |-> {"approved"},
     approved |-> {"published", "publish_failed"},
     publish_failed |-> {"approved"}, published |-> {}]

isLegalPublishTransition(from, to) == to \in PUBLISH_TRANSITIONS[from]

\* Recovery from a failure is never inferred.
inferNextPublishState(state) ==
    CASE state = "none" -> "draft"
      [] state = "draft" -> "approved"
      [] state = "approved" -> "published"
      [] OTHER -> None

(* audit_trail.ts *)

\* Mutant: the trail restarts at every approval.
appendAuditEntry_Restart(existing, actor, to) ==
    [state |-> to, version |-> existing.version + 1,
     approvedBy |-> IF to = "approved" THEN actor ELSE existing.approvedBy,
     channels |-> existing.channels,
     trail |-> Append(IF to = "approved" THEN <<>> ELSE existing.trail,
                      [actor |-> actor, from |-> existing.state, to |-> to])]

\* Mutant: the publisher is recorded as the approver.
appendAuditEntry_Publisher(existing, actor, to) ==
    [state |-> to, version |-> existing.version + 1,
     approvedBy |-> IF to \in {"approved", "published"} THEN actor ELSE None,
     channels |-> existing.channels,
     trail |-> Append(existing.trail,
                      [actor |-> actor, from |-> existing.state, to |-> to])]

appendAuditEntry(existing, actor, to) ==
    [state |-> to, version |-> existing.version + 1,
     approvedBy |-> CASE to = "approved" -> actor
                      [] to = "published" -> IF existing.approvedBy = None
                                             THEN actor ELSE existing.approvedBy
                      [] OTHER -> None,
     channels |-> existing.channels,
     trail |-> Append(existing.trail,
                      [actor |-> actor, from |-> existing.state, to |-> to])]

(* channels.ts *)

\* Mutant: a partial success counts.
evaluateChannelOutcome_Partial(succeeded) == succeeded # {}

\* evaluateChannelOutcome(_, false): every channel has to succeed.
evaluateChannelOutcome(succeeded) == succeeded = Channels

-----------------------------------------------------------------------------
(* The handler *)

On(h, pc) == handler[h].pc = pc

Answer(h) == handler' = [handler EXCEPT ![h] = Idle]

GoOn(h, pc) == handler' = [handler EXCEPT ![h].pc = pc]

item == <<record, claimed>>
history == <<sent, pushed>>
decision == <<coreCommitted, alertReady>>

Arrive(h) ==
    /\ On(h, "idle")
    /\ record.version < MaxVersion
    /\ \E c \in Calls :
         handler' = [handler EXCEPT ![h].pc = "read_core", ![h].call = c]
    /\ UNCHANGED <<item, decision, history>>

ReadDecisionCoreStatus(h) ==
    /\ On(h, "read_core")
    /\ IF coreCommitted THEN GoOn(h, "read_record") ELSE Answer(h)
    /\ UNCHANGED <<item, decision, history>>

\* The body's target, or the inferred one; None is INVALID_TARGET_STATE.
TargetOf(call, state) ==
    IF call.target # None THEN call.target ELSE inferNextPublishState(state)

\* Not ALREADY_PUBLISHED (the target state is the record's own: the version the
\* check compares is the record's too), a reason for a failure, a legal step.
Admitted(call, seen) ==
    LET target == TargetOf(call, seen.state) IN
    /\ target # None
    /\ seen.state # target
    /\ target = "publish_failed" => call.reason
    /\ isLegalPublishTransition(seen.state, target)

ReadPublishRecord(h) ==
    /\ On(h, "read_record")
    /\ LET call == handler[h].call
           target == TargetOf(call, record.state) IN
       IF Admitted(call, record)
       THEN handler' = [handler EXCEPT
              ![h].pc = IF target = "published" THEN "read_alert" ELSE "write",
              ![h].seen = record,
              ![h].next = appendAuditEntry(record, call.actor, target)]
       ELSE Answer(h)
    /\ UNCHANGED <<item, decision, history>>

ReadPublicAlertText(h) ==
    /\ On(h, "read_alert")
    /\ IF alertReady THEN GoOn(h, "claim") ELSE Answer(h)
    /\ UNCHANGED <<item, decision, history>>

\* Mutants: the claim is not exclusive; it is keyed on the approver.
AcquirePublishDispatch_Shared(h) ==
    /\ On(h, "claim")
    /\ claimed' = claimed \cup {handler[h].seen.version}
    /\ GoOn(h, "dispatch")
    /\ UNCHANGED <<record, decision, history>>

AcquirePublishDispatch_PerApprover(h) ==
    /\ On(h, "claim")
    /\ handler[h].seen.approvedBy \notin claimed
    /\ claimed' = claimed \cup {handler[h].seen.approvedBy}
    /\ GoOn(h, "dispatch")
    /\ UNCHANGED <<record, decision, history>>

AcquirePublishDispatch(h) ==
    /\ On(h, "claim")
    /\ IF handler[h].seen.version \in claimed
       THEN Answer(h) /\ UNCHANGED claimed          \* ALREADY_CLAIMED
       ELSE /\ claimed' = claimed \cup {handler[h].seen.version}
            /\ GoOn(h, "dispatch")
    /\ UNCHANGED <<record, decision, history>>

\* The claim landed, its response did not: the resend is refused.
AcquirePublishDispatchLost(h) ==
    /\ On(h, "claim")
    /\ claimed' = claimed \cup {handler[h].seen.version}
    /\ Answer(h)
    /\ UNCHANGED <<record, decision, history>>

\* The channels run without an await; each outbound one may fail.  A failed
\* dispatch is recorded as publish_failed, on the state that was persisted.
DispatchChannels(h) ==
    /\ On(h, "dispatch")
    /\ \E failing \in SUBSET Outbound :
         LET seen == handler[h].seen
             succeeded == Channels \ failing IN
         /\ sent' = Append(sent, [version |-> seen.version, channels |-> succeeded])
         /\ handler' = [handler EXCEPT
              ![h].pc = "write",
              ![h].next = IF evaluateChannelOutcome(succeeded)
                          THEN [@ EXCEPT !.channels = succeeded]
                          ELSE appendAuditEntry(seen, handler[h].call.actor,
                                                "publish_failed")]
    /\ UNCHANGED <<item, decision, pushed>>

\* Mutant: the update without its version condition.
CanWrite_Unversioned(h) == handler[h].seen.version > 0 \/ record.state = "none"

\* attribute_not_exists for the first record, version = expected after that.
CanWrite(h) ==
    IF handler[h].seen.version = 0
    THEN record.state = "none"
    ELSE record.version = handler[h].seen.version

\* applyPublishTransition checks the transition again before it writes.
Persist(h) ==
    LET next == handler[h].next IN
    /\ On(h, "write")
    /\ isLegalPublishTransition(next.trail[Len(next.trail)].from, next.state)
    /\ CanWrite(h)
    /\ record' = next

\* The push is not awaited; a push that fails is the ...Lost action's outcome too.
ApplyPublishTransition(h) ==
    /\ Persist(h)
    /\ pushed' = pushed \cup {<<record'.version, record'.state>>}
    /\ Answer(h)
    /\ UNCHANGED <<claimed, decision, sent>>

\* The write landed, its response did not: VERSION_CONFLICT, and no push.
ApplyPublishTransitionLost(h) ==
    /\ Persist(h)
    /\ Answer(h)
    /\ UNCHANGED <<claimed, decision, sent, pushed>>

\* Mutant: the push goes out whatever the write returned.
VersionConflict_Pushes(h) ==
    /\ On(h, "write")
    /\ ~CanWrite(h)
    /\ pushed' = pushed \cup {<<handler[h].next.version, handler[h].next.state>>}
    /\ Answer(h)
    /\ UNCHANGED <<item, decision, sent>>

VersionConflict(h) ==
    /\ On(h, "write")
    /\ ~CanWrite(h)
    /\ Answer(h)
    /\ UNCHANGED <<item, decision, history>>

\* An exception, INTERNAL_ERROR or a dead Lambda.
Crash(h) ==
    /\ handler[h].pc \in Steps
    /\ Answer(h)
    /\ UNCHANGED <<item, decision, history>>

\* The decision's own pipeline commits the core and writes the alert text.
CommitDecision ==
    /\ ~coreCommitted
    /\ coreCommitted' = TRUE
    /\ UNCHANGED <<item, alertReady, handler, history>>

WriteAlertText ==
    /\ coreCommitted /\ ~alertReady
    /\ alertReady' = TRUE
    /\ UNCHANGED <<item, coreCommitted, handler, history>>

HandlerStep(h) ==
    \/ Arrive(h) \/ ReadDecisionCoreStatus(h) \/ ReadPublishRecord(h)
    \/ ReadPublicAlertText(h) \/ AcquirePublishDispatch(h) \/ DispatchChannels(h)
    \/ ApplyPublishTransition(h) \/ VersionConflict(h)

HandlerFault(h) ==
    \/ AcquirePublishDispatchLost(h) \/ ApplyPublishTransitionLost(h) \/ Crash(h)

Next ==
    \/ \E h \in Handlers : HandlerStep(h) \/ HandlerFault(h)
    \/ CommitDecision \/ WriteAlertText

Spec == Init /\ [][Next]_vars

-----------------------------------------------------------------------------
(* Safety *)

\* The persisted trail tells the whole story of the record: it chains, ends in
\* the record's state, has one entry per version, and the record names as its
\* approver the actor of the approval the publication rests on.
TrailTellsTheRecord ==
    LET n == Len(record.trail) IN
    /\ n = record.version
    /\ record.state = IF n = 0 THEN "none" ELSE record.trail[n].to
    /\ \A i \in 1..n :
         record.trail[i].from = IF i = 1 THEN "none" ELSE record.trail[i - 1].to
    /\ record.state = "published" => record.approvedBy = record.trail[n - 1].actor

\* However many commanders publish at once, crash or retry, the channels are
\* run at most once under each approval.
OneDispatchPerApproval ==
    \A i, j \in 1..Len(sent) : sent[i].version = sent[j].version => i = j

\* No alert leaves without an approval that is on record, of a committed
\* decision whose public text is written, even if the sender read long ago.
AlertWasApproved ==
    \A i \in 1..Len(sent) :
        /\ sent[i].version \in 1..record.version
        /\ record.trail[sent[i].version].to = "approved"
        /\ coreCommitted /\ alertReady

\* A record that says published rests on a dispatch, under the very approval it
\* follows, that reached every channel.
PublishedWasDelivered ==
    record.state = "published" =>
        /\ record.channels = Channels
        /\ \E i \in 1..Len(sent) :
             sent[i].version = record.version - 1 /\ sent[i].channels = Channels

\* Every status_changed push is about a transition that is on record, also when
\* the handler that pushed it was overtaken.
PushedIsPersisted ==
    \A p \in pushed : p[1] \in 1..record.version /\ record.trail[p[1]].to = p[2]

\* The audit trail only ever grows, one entry at a time, whatever stale record
\* a handler holds.
TrailAppendOnly ==
    [][record' = record \/ (/\ Len(record'.trail) = Len(record.trail) + 1
                            /\ SubSeq(record'.trail, 1, Len(record.trail)) = record.trail)]_vars

\* published is final: no late handler moves the record or alters it.
PublishedIsFinal == [][record.state = "published" => record' = record]_vars

\* PublishFlow implements the lifecycle.
Lifecycle == INSTANCE PublishLifecycle WITH
    log <- record.trail,
    alerted <- {sent[i].version : i \in 1..Len(sent)},
    delivered <- {sent[i].version : i \in {j \in 1..Len(sent) : sent[j].channels = Channels}}

\* Whatever the handlers interleave, the table and the channels together behave
\* as the lifecycle promises.
ImplementsLifecycle == Lifecycle!LifecycleSpec

-----------------------------------------------------------------------------
(* What the comments of the code say and the code does not keep *)

\* "The external side effect happens at most once": the alert of a decision is
\* sent out in full at most once.
SentAtMostOnce ==
    Cardinality({i \in 1..Len(sent) : sent[i].channels = Channels}) <= 1
=============================================================================
