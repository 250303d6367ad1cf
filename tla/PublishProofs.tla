---------------------------- MODULE PublishProofs ---------------------------
(***************************************************************************)
(* The safety of PublishFlow for any set of handlers, calls, commanders    *)
(* and versions.  A handler writes what it made of the record it read, so  *)
(* the invariant says what is true of a record that was read long ago.     *)
(***************************************************************************)
EXTENDS PublishFlow, TLAPS

\* A record whose trail tells its story, by legal transitions.
WellFormed(rec) ==
    /\ rec \in PublishRecord
    /\ Len(rec.trail) = rec.version
    /\ rec.state = IF rec.version = 0 THEN "none" ELSE rec.trail[rec.version].to
    /\ \A i \in 1..rec.version :
         /\ rec.trail[i].from = IF i = 1 THEN "none" ELSE rec.trail[i - 1].to
         /\ rec.trail[i].to \in PUBLISH_TRANSITIONS[rec.trail[i].from]
    /\ rec.state = "approved" => rec.approvedBy = rec.trail[rec.version].actor
    /\ rec.state = "published" => rec.approvedBy = rec.trail[rec.version - 1].actor

\* The record later, and the record read before: the trail has only grown.
Extends(later, earlier) ==
    /\ earlier.version <= later.version
    /\ earlier.version = later.version => earlier.trail = later.trail
    /\ \A i \in 1..earlier.version : later.trail[i] = earlier.trail[i]

\* One transition after the record that was read.
Succeeds(next, seen) ==
    /\ next.version = seen.version + 1
    /\ next.state \in PUBLISH_TRANSITIONS[seen.state]
    /\ \E actor \in Actors :
         next.trail = Append(seen.trail, [actor |-> actor, from |-> seen.state, to |-> next.state])

Planned == {"read_alert", "claim", "dispatch", "write"}

PlansAreSound ==
    \A h \in Handlers : handler[h].pc \in Planned =>
        /\ WellFormed(handler[h].seen) /\ WellFormed(handler[h].next)
        /\ Extends(record, handler[h].seen)
        /\ Succeeds(handler[h].next, handler[h].seen)
        /\ handler[h].pc # "write" => handler[h].next.state = "published"

CallsAreReal == \A h \in Handlers : handler[h].pc # "idle" => handler[h].call \in Calls

\* What a handler found committed and written stays so.
GatesHold ==
    \A h \in Handlers :
        /\ handler[h].pc \in Planned \cup {"read_record"} => coreCommitted
        /\ handler[h].pc \in {"claim", "dispatch"} => alertReady

\* A dispatch, made or about to be made, holds its claim alone.
ClaimsAreExclusive ==
    /\ \A i \in 1..Len(sent) : sent[i].version \in claimed
    /\ \A h \in Handlers : handler[h].pc = "dispatch" =>
         /\ handler[h].seen.version \in claimed
         /\ \A i \in 1..Len(sent) : sent[i].version # handler[h].seen.version
         /\ \A g \in Handlers : handler[g].pc = "dispatch" /\ g # h =>
              handler[g].seen.version # handler[h].seen.version

Sent(version) == \E i \in 1..Len(sent) : sent[i].version = version /\ sent[i].channels = Channels

\* published is only written after a full delivery.
DeliveredFirst ==
    \A h \in Handlers : handler[h].pc = "write" /\ handler[h].next.state = "published" =>
        handler[h].next.channels = Channels /\ Sent(handler[h].seen.version)

IInv ==
    /\ TypeOK /\ WellFormed(record) /\ CallsAreReal /\ PlansAreSound /\ GatesHold
    /\ ClaimsAreExclusive /\ DeliveredFirst
    /\ OneDispatchPerApproval /\ AlertWasApproved /\ PublishedWasDelivered /\ PushedIsPersisted

-----------------------------------------------------------------------------
(* Records *)

\* The four states of a transition and what each may follow.
LEMMA Transitions ==
    ASSUME NEW from \in States \cup {"none"}, NEW to \in PUBLISH_TRANSITIONS[from]
    PROVE  /\ to \in States
           /\ to = "published" => from = "approved"
           /\ from # "published"
BY DEF States, PUBLISH_TRANSITIONS

\* A transition leaves a record that has the type of one.
LEMMA AppendType ==
    ASSUME NEW rec \in PublishRecord, NEW actor \in Actors, NEW to \in States
    PROVE  /\ appendAuditEntry(rec, actor, to) \in PublishRecord
           /\ appendAuditEntry(rec, actor, to).state = to
           /\ appendAuditEntry(rec, actor, to).version = rec.version + 1
           /\ appendAuditEntry(rec, actor, to).trail =
                Append(rec.trail, [actor |-> actor, from |-> rec.state, to |-> to])
<1> DEFINE e == [actor |-> actor, from |-> rec.state, to |-> to]
<1>1. e \in Entry
    BY DEF Entry, PublishRecord
<1>2. Append(rec.trail, e) \in Seq(Entry)
    BY <1>1 DEF PublishRecord
<1>3. rec.version + 1 \in Nat /\ rec.channels \in SUBSET Channels
    BY DEF PublishRecord
<1>4. rec.approvedBy \in Actors \cup {None}
    BY DEF PublishRecord
<1> QED
    BY <1>2, <1>3, <1>4 DEF appendAuditEntry, PublishRecord

\* A legal transition of a well-formed record leaves a well-formed one.
LEMMA AppendWellFormed ==
    ASSUME NEW rec, WellFormed(rec), NEW actor \in Actors,
           NEW to \in PUBLISH_TRANSITIONS[rec.state]
    PROVE  /\ WellFormed(appendAuditEntry(rec, actor, to))
           /\ Succeeds(appendAuditEntry(rec, actor, to), rec)
           /\ appendAuditEntry(rec, actor, to).state = to
<1> DEFINE e == [actor |-> actor, from |-> rec.state, to |-> to]
           nxt == appendAuditEntry(rec, actor, to)
           n == rec.version
<1>1. rec \in PublishRecord /\ rec.state \in States \cup {"none"} /\ n \in Nat
      /\ rec.trail \in Seq(Entry) /\ Len(rec.trail) = n
    BY DEF WellFormed, PublishRecord
<1>2. to \in States /\ (to = "published" => rec.state = "approved")
    BY <1>1, Transitions
<1>3. /\ nxt \in PublishRecord /\ nxt.state = to /\ nxt.version = n + 1
      /\ nxt.trail = Append(rec.trail, e)
    BY <1>1, <1>2, AppendType
<1>4. Succeeds(nxt, rec)
    BY <1>3 DEF Succeeds
<1>5. /\ Len(nxt.trail) = n + 1
      /\ nxt.trail[n + 1] = e
      /\ \A i \in 1..n : nxt.trail[i] = rec.trail[i]
    BY <1>1, <1>3
<1>6. \A i \in 1..(n + 1) :
          /\ nxt.trail[i].from = IF i = 1 THEN "none" ELSE nxt.trail[i - 1].to
          /\ nxt.trail[i].to \in PUBLISH_TRANSITIONS[nxt.trail[i].from]
    <2>1. ASSUME NEW i \in 1..n
          PROVE  /\ nxt.trail[i].from = IF i = 1 THEN "none" ELSE nxt.trail[i - 1].to
                 /\ nxt.trail[i].to \in PUBLISH_TRANSITIONS[nxt.trail[i].from]
        <3>1. i = 1 \/ i - 1 \in 1..n
            BY <1>1
        <3> QED
            BY <1>5, <3>1 DEF WellFormed
    <2>2. e.from = IF n + 1 = 1 THEN "none" ELSE nxt.trail[n].to
        <3>1. n = 0 \/ n \in 1..n
            BY <1>1
        <3> QED
            BY <1>1, <1>5, <3>1 DEF WellFormed
    <2>3. e.to \in PUBLISH_TRANSITIONS[e.from]
        OBVIOUS
    <2>4. \A i \in 1..(n + 1) : i \in 1..n \/ i = n + 1
        BY <1>1
    <2>5. (n + 1) - 1 = n
        BY <1>1
    <2> QED
        BY <1>5, <2>1, <2>2, <2>3, <2>4, <2>5
<1>7. to = "approved" => nxt.approvedBy = nxt.trail[n + 1].actor
    BY <1>5 DEF appendAuditEntry
<1>8. to = "published" => nxt.approvedBy = nxt.trail[n].actor
    <2> SUFFICES ASSUME to = "published" PROVE nxt.approvedBy = nxt.trail[n].actor
        OBVIOUS
    <2>1. rec.state = "approved" /\ rec.approvedBy = rec.trail[n].actor /\ n # 0
        BY <1>2 DEF WellFormed
    <2>2. n \in 1..n
        BY <1>1, <2>1
    <2>3. rec.trail[n] \in Entry
        BY <1>1, <2>2
    <2>4. rec.approvedBy # None
        BY <2>1, <2>3, AbsenceAssumption DEF Entry, AbsenceAssumption
    <2>5. nxt.approvedBy = rec.approvedBy
        BY <2>4 DEF appendAuditEntry
    <2> QED
        BY <1>5, <2>1, <2>2, <2>5
<1>9. nxt.state = IF nxt.version = 0 THEN "none" ELSE nxt.trail[nxt.version].to
    BY <1>1, <1>3, <1>5
<1>10. nxt.version - 1 = n
    BY <1>1, <1>3
<1> HIDE DEF nxt, n
<1>11. WellFormed(nxt)
    BY <1>3, <1>5, <1>6, <1>7, <1>8, <1>9, <1>10 DEF WellFormed
<1> QED
    BY <1>3, <1>4, <1>11 DEF nxt

\* A record extends itself.
LEMMA ExtendsItself ==
    ASSUME NEW rec, WellFormed(rec)
    PROVE  Extends(rec, rec)
BY DEF WellFormed, PublishRecord, Extends

\* Versions and states belong together.
LEMMA StateOfVersion ==
    ASSUME NEW rec, WellFormed(rec)
    PROVE  /\ rec.version \in Nat
           /\ rec.version = 0 <=> rec.state = "none"
           /\ rec.trail \in Seq(Entry)
           /\ \A i \in 1..rec.version : rec.trail[i] \in Entry
<1>1. rec.version \in Nat /\ rec.trail \in Seq(Entry) /\ Len(rec.trail) = rec.version
    BY DEF WellFormed, PublishRecord
<1>2. \A i \in 1..rec.version : rec.trail[i] \in Entry
    BY <1>1
<1>3. ASSUME rec.version # 0 PROVE rec.state # "none"
    <2>1. rec.version \in 1..rec.version
        BY <1>1, <1>3
    <2>2. rec.trail[rec.version].to \in States
        BY <1>2, <2>1 DEF Entry
    <2> QED
        BY <1>3, <2>2 DEF WellFormed, States
<1> QED
    BY <1>1, <1>2, <1>3 DEF WellFormed

\* Writing what succeeds the record that was read, on a record of the same
\* version, appends one entry to the trail that is there.
LEMMA WriteExtends ==
    ASSUME NEW rec, WellFormed(rec), NEW seen, WellFormed(seen), NEW next, WellFormed(next),
           Extends(rec, seen), Succeeds(next, seen), rec.version = seen.version
    PROVE  /\ rec.trail = seen.trail /\ rec.state = seen.state
           /\ Succeeds(next, rec)
           /\ \A old : WellFormed(old) /\ Extends(rec, old) =>
                Extends(next, old) /\ old.version < next.version
<1>1. rec.trail = seen.trail /\ rec.state = seen.state
    BY DEF Extends, WellFormed
<1>2. Succeeds(next, rec)
    BY <1>1 DEF Succeeds
<1>3. ASSUME NEW old, WellFormed(old), Extends(rec, old)
      PROVE  Extends(next, old) /\ old.version < next.version
    <2>1. old.version \in Nat /\ rec.version \in Nat /\ next.version = rec.version + 1
          /\ rec.trail \in Seq(Entry) /\ Len(rec.trail) = rec.version
        BY <1>2, <1>3, StateOfVersion DEF Succeeds, WellFormed
    <2>2. old.version <= rec.version
        BY <1>3 DEF Extends
    <2>3. PICK e : next.trail = Append(rec.trail, e)
        BY <1>2 DEF Succeeds
    <2>4. \A i \in 1..rec.version : next.trail[i] = rec.trail[i]
        BY <2>1, <2>3
    <2>5. \A i \in 1..old.version : i \in 1..rec.version
        BY <2>1, <2>2
    <2>6. \A i \in 1..old.version : next.trail[i] = old.trail[i]
        BY <1>3, <2>4, <2>5 DEF Extends
    <2> QED
        BY <2>1, <2>2, <2>6 DEF Extends
<1> QED
    BY <1>1, <1>2, <1>3

-----------------------------------------------------------------------------
(* What a step changes *)

\* A handler's step leaves the other handlers alone.
LEMMA OthersUntouched ==
    ASSUME TypeOK, NEW h \in Handlers, HandlerStep(h) \/ HandlerFault(h),
           NEW g \in Handlers, g # h
    PROVE  handler'[g] = handler[g]
<1> USE DEF TypeOK, Answer, GoOn
<1>1. CASE Arrive(h)
    BY <1>1 DEF Arrive
<1>2. CASE ReadDecisionCoreStatus(h)
    BY <1>2 DEF ReadDecisionCoreStatus
<1>3. CASE ReadPublishRecord(h)
    BY <1>3 DEF ReadPublishRecord
<1>4. CASE ReadPublicAlertText(h)
    BY <1>4 DEF ReadPublicAlertText
<1>5. CASE AcquirePublishDispatch(h)
    BY <1>5 DEF AcquirePublishDispatch
<1>6. CASE DispatchChannels(h)
    BY <1>6 DEF DispatchChannels
<1>7. CASE ApplyPublishTransition(h) \/ ApplyPublishTransitionLost(h) \/ VersionConflict(h)
           \/ AcquirePublishDispatchLost(h) \/ Crash(h)
    BY <1>7 DEF ApplyPublishTransition, ApplyPublishTransitionLost, VersionConflict,
                AcquirePublishDispatchLost, Crash
<1> QED
    BY <1>1, <1>2, <1>3, <1>4, <1>5, <1>6, <1>7 DEF HandlerStep, HandlerFault

\* The record changes by a write alone, after which its handler is idle.
LEMMA RecordMoves ==
    ASSUME TypeOK, [Next]_vars
    PROVE  record' = record \/ \E h \in Handlers : Persist(h) /\ handler'[h] = Idle
<1>1. ASSUME NEW h \in Handlers, HandlerStep(h) \/ HandlerFault(h)
      PROVE  record' = record \/ (Persist(h) /\ handler'[h] = Idle)
    <2>1. CASE ApplyPublishTransition(h) \/ ApplyPublishTransitionLost(h)
        BY <2>1 DEF ApplyPublishTransition, ApplyPublishTransitionLost, Answer, TypeOK
    <2>2. CASE ~(ApplyPublishTransition(h) \/ ApplyPublishTransitionLost(h))
        BY <1>1, <2>2 DEF HandlerStep, HandlerFault, item, Arrive, ReadDecisionCoreStatus,
            ReadPublishRecord, ReadPublicAlertText, AcquirePublishDispatch, DispatchChannels,
            VersionConflict, AcquirePublishDispatchLost, Crash
    <2> QED
        BY <2>1, <2>2
<1>2. CASE CommitDecision \/ WriteAlertText \/ UNCHANGED vars
    BY <1>2 DEF CommitDecision, WriteAlertText, vars, item
<1> QED
    BY <1>1, <1>2 DEF Next

\* Alerts are only sent by a dispatch, and the claims and the gates stay.
LEMMA HistoryMoves ==
    ASSUME TypeOK, [Next]_vars
    PROVE  /\ sent' = sent \/ \E h \in Handlers : DispatchChannels(h)
           /\ pushed' = pushed \/ \E h \in Handlers : ApplyPublishTransition(h)
           /\ \A v \in claimed : v \in claimed'
           /\ coreCommitted => coreCommitted'
           /\ alertReady => alertReady'
<1>1. ASSUME NEW h \in Handlers, HandlerStep(h) \/ HandlerFault(h)
      PROVE  /\ sent' = sent \/ DispatchChannels(h)
             /\ pushed' = pushed \/ ApplyPublishTransition(h)
             /\ \A v \in claimed : v \in claimed'
             /\ UNCHANGED decision
    <2>1. CASE Arrive(h) \/ ReadDecisionCoreStatus(h) \/ ReadPublishRecord(h)
               \/ ReadPublicAlertText(h) \/ VersionConflict(h) \/ Crash(h)
        BY <2>1 DEF Arrive, ReadDecisionCoreStatus, ReadPublishRecord, ReadPublicAlertText,
                    VersionConflict, Crash, item, history
    <2>2. CASE AcquirePublishDispatch(h) \/ AcquirePublishDispatchLost(h)
        BY <2>2 DEF AcquirePublishDispatch, AcquirePublishDispatchLost, history
    <2>3. CASE DispatchChannels(h)
        BY <2>3 DEF DispatchChannels, item
    <2>4. CASE ApplyPublishTransition(h) \/ ApplyPublishTransitionLost(h)
        BY <2>4 DEF ApplyPublishTransition, ApplyPublishTransitionLost
    <2> QED
        BY <1>1, <2>1, <2>2, <2>3, <2>4 DEF HandlerStep, HandlerFault
<1>2. CASE CommitDecision \/ WriteAlertText \/ UNCHANGED vars
    BY <1>2 DEF CommitDecision, WriteAlertText, vars, item, history, decision
<1> QED
    BY <1>1, <1>2 DEF Next, decision

\* How a handler gets where it has a record in its hands: it reads one, goes
\* on with the one it has, or dispatches.
LEMMA HandlerMoves ==
    ASSUME TypeOK, [Next]_vars, NEW g \in Handlers
    PROVE  \/ handler'[g] = handler[g]
           \/ handler'[g] = Idle
           \/ Arrive(g)
           \/ ReadDecisionCoreStatus(g) /\ coreCommitted
           \/ ReadPublishRecord(g) /\ Admitted(handler[g].call, record)
           \/ ReadPublicAlertText(g) /\ alertReady
           \/ AcquirePublishDispatch(g) /\ handler[g].seen.version \notin claimed
           \/ DispatchChannels(g)
<1>1. ASSUME NEW h \in Handlers, HandlerStep(h) \/ HandlerFault(h), g # h
      PROVE  handler'[g] = handler[g]
    BY <1>1, OthersUntouched
<1>2. ASSUME HandlerStep(g) \/ HandlerFault(g)
      PROVE  \/ handler'[g] = Idle
             \/ Arrive(g)
             \/ ReadDecisionCoreStatus(g) /\ coreCommitted
             \/ ReadPublishRecord(g) /\ Admitted(handler[g].call, record)
             \/ ReadPublicAlertText(g) /\ alertReady
             \/ AcquirePublishDispatch(g) /\ handler[g].seen.version \notin claimed
             \/ DispatchChannels(g)
    <2> USE DEF TypeOK, Answer
    <2>1. CASE Arrive(g) \/ DispatchChannels(g)
        BY <2>1
    <2>2. CASE ReadDecisionCoreStatus(g)
        BY <2>2 DEF ReadDecisionCoreStatus
    <2>3. CASE ReadPublishRecord(g)
        BY <2>3 DEF ReadPublishRecord
    <2>4. CASE ReadPublicAlertText(g)
        BY <2>4 DEF ReadPublicAlertText
    <2>5. CASE AcquirePublishDispatch(g)
        BY <2>5 DEF AcquirePublishDispatch
    <2>6. CASE ApplyPublishTransition(g) \/ ApplyPublishTransitionLost(g) \/ VersionConflict(g)
               \/ AcquirePublishDispatchLost(g) \/ Crash(g)
        BY <2>6 DEF ApplyPublishTransition, ApplyPublishTransitionLost, VersionConflict,
                    AcquirePublishDispatchLost, Crash
    <2> QED
        BY <1>2, <2>1, <2>2, <2>3, <2>4, <2>5, <2>6 DEF HandlerStep, HandlerFault
<1>3. CASE CommitDecision \/ WriteAlertText \/ UNCHANGED vars
    BY <1>3 DEF CommitDecision, WriteAlertText, vars
<1> QED
    BY <1>1, <1>2, <1>3 DEF Next

\* What each of these moves makes of a handler.
LEMMA HandlerBecomes ==
    ASSUME TypeOK, NEW g \in Handlers
    PROVE  /\ Arrive(g) =>
                \E c \in Calls : handler'[g] = [handler[g] EXCEPT !.pc = "read_core", !.call = c]
           /\ ReadDecisionCoreStatus(g) /\ coreCommitted =>
                handler[g].pc = "read_core" /\ handler'[g] = [handler[g] EXCEPT !.pc = "read_record"]
           /\ ReadPublishRecord(g) /\ Admitted(handler[g].call, record) =>
                LET call == handler[g].call
                    target == TargetOf(call, record.state) IN
                /\ handler[g].pc = "read_record"
                /\ record' = record
                /\ handler'[g] = [handler[g] EXCEPT
                     !.pc = IF target = "published" THEN "read_alert" ELSE "write",
                     !.seen = record,
                     !.next = appendAuditEntry(record, call.actor, target)]
           /\ ReadPublicAlertText(g) /\ alertReady =>
                handler[g].pc = "read_alert" /\ handler'[g] = [handler[g] EXCEPT !.pc = "claim"]
           /\ AcquirePublishDispatch(g) /\ handler[g].seen.version \notin claimed =>
                /\ handler[g].pc = "claim" /\ handler'[g] = [handler[g] EXCEPT !.pc = "dispatch"]
                /\ claimed' = claimed \cup {handler[g].seen.version}
                /\ sent' = sent
           /\ DispatchChannels(g) =>
                \E failing \in SUBSET Outbound :
                  LET seen == handler[g].seen
                      succeeded == Channels \ failing IN
                  /\ handler[g].pc = "dispatch"
                  /\ sent' = Append(sent, [version |-> seen.version, channels |-> succeeded])
                  /\ record' = record /\ claimed' = claimed
                  /\ handler'[g] = [handler[g] EXCEPT
                       !.pc = "write",
                       !.next = IF evaluateChannelOutcome(succeeded)
                                THEN [@ EXCEPT !.channels = succeeded]
                                ELSE appendAuditEntry(seen, handler[g].call.actor,
                                                      "publish_failed")]
<1>1. Arrive(g) =>
          \E c \in Calls : handler'[g] = [handler[g] EXCEPT !.pc = "read_core", !.call = c]
    BY DEF Arrive, TypeOK
<1>2. ReadDecisionCoreStatus(g) /\ coreCommitted =>
          handler[g].pc = "read_core" /\ handler'[g] = [handler[g] EXCEPT !.pc = "read_record"]
    BY DEF ReadDecisionCoreStatus, GoOn, On, TypeOK
<1>3. ReadPublishRecord(g) /\ Admitted(handler[g].call, record) =>
          LET call == handler[g].call
              target == TargetOf(call, record.state) IN
          /\ handler[g].pc = "read_record"
          /\ record' = record
          /\ handler'[g] = [handler[g] EXCEPT
               !.pc = IF target = "published" THEN "read_alert" ELSE "write",
               !.seen = record,
               !.next = appendAuditEntry(record, call.actor, target)]
    BY DEF ReadPublishRecord, On, TypeOK, item
<1>4. ReadPublicAlertText(g) /\ alertReady =>
          handler[g].pc = "read_alert" /\ handler'[g] = [handler[g] EXCEPT !.pc = "claim"]
    BY DEF ReadPublicAlertText, GoOn, On, TypeOK
<1>5. AcquirePublishDispatch(g) /\ handler[g].seen.version \notin claimed =>
          /\ handler[g].pc = "claim" /\ handler'[g] = [handler[g] EXCEPT !.pc = "dispatch"]
          /\ claimed' = claimed \cup {handler[g].seen.version}
          /\ sent' = sent
    BY DEF AcquirePublishDispatch, GoOn, On, TypeOK, history
<1>6. DispatchChannels(g) =>
          \E failing \in SUBSET Outbound :
            LET seen == handler[g].seen
                succeeded == Channels \ failing IN
            /\ handler[g].pc = "dispatch"
            /\ sent' = Append(sent, [version |-> seen.version, channels |-> succeeded])
            /\ record' = record /\ claimed' = claimed
            /\ handler'[g] = [handler[g] EXCEPT
                 !.pc = "write",
                 !.next = IF evaluateChannelOutcome(succeeded)
                          THEN [@ EXCEPT !.channels = succeeded]
                          ELSE appendAuditEntry(seen, handler[g].call.actor,
                                                "publish_failed")]
    BY DEF DispatchChannels, On, TypeOK, item
<1> QED
    BY <1>1, <1>2, <1>3, <1>4, <1>5, <1>6

-----------------------------------------------------------------------------
(* The record and the alerts over a step *)

\* What a handler may write is the successor of the record that is there.
LEMMA Written ==
    ASSUME WellFormed(record), PlansAreSound, NEW h \in Handlers, Persist(h)
    PROVE  /\ record' = handler[h].next
           /\ record.version = handler[h].seen.version
           /\ WellFormed(record')
           /\ Succeeds(record', record)
           /\ \A old : WellFormed(old) /\ Extends(record, old) =>
                Extends(record', old) /\ old.version < record'.version
<1> DEFINE seen == handler[h].seen
           next == handler[h].next
<1>1. On(h, "write") /\ CanWrite(h) /\ record' = next
    BY DEF Persist
<1>2. WellFormed(seen) /\ WellFormed(next) /\ Extends(record, seen) /\ Succeeds(next, seen)
    BY <1>1 DEF PlansAreSound, Planned, On
<1>3. record.version = seen.version
    <2>1. CASE seen.version = 0
        BY <1>1, <2>1, StateOfVersion DEF CanWrite
    <2>2. CASE seen.version # 0
        BY <1>1, <2>2 DEF CanWrite
    <2> QED
        BY <2>1, <2>2
<1> HIDE DEF seen, next
<1>4. /\ Succeeds(next, record)
      /\ \A old : WellFormed(old) /\ Extends(record, old) =>
           Extends(next, old) /\ old.version < next.version
    BY <1>2, <1>3, WriteExtends
<1> QED
    BY <1>1, <1>2, <1>3, <1>4 DEF seen, next

\* Over any step the record stays well-formed and extends what it extended.
LEMMA RecordGrows ==
    ASSUME TypeOK, WellFormed(record), PlansAreSound, [Next]_vars
    PROVE  /\ WellFormed(record')
           /\ record' = record \/ Succeeds(record', record)
           /\ \A old : WellFormed(old) /\ Extends(record, old) => Extends(record', old)
           /\ record.version <= record'.version
           /\ \A v \in 1..record.version :
                v \in 1..record'.version /\ record'.trail[v] = record.trail[v]
<1>1. /\ WellFormed(record')
      /\ record' = record \/ Succeeds(record', record)
      /\ \A old : WellFormed(old) /\ Extends(record, old) => Extends(record', old)
    BY RecordMoves, Written
<1>2. Extends(record', record)
    BY <1>1, ExtendsItself
<1>3. record.version \in Nat /\ record'.version \in Nat
    BY <1>1 DEF WellFormed, PublishRecord
<1> QED
    BY <1>1, <1>2, <1>3 DEF Extends

\* An alert that is sent stays sent; a new one is that of a dispatching handler.
LEMMA SentGrows ==
    ASSUME TypeOK, [Next]_vars
    PROVE  /\ Len(sent) \in Nat /\ Len(sent') \in Nat
           /\ \A i \in 1..Len(sent) : i \in 1..Len(sent') /\ sent'[i] = sent[i]
           /\ \/ sent' = sent
              \/ \E h \in Handlers, failing \in SUBSET Outbound :
                   /\ DispatchChannels(h)
                   /\ handler[h].pc = "dispatch" /\ handler'[h].pc = "write"
                   /\ record' = record
                   /\ Len(sent') = Len(sent) + 1
                   /\ \A i \in 1..Len(sent') : i \in 1..Len(sent) \/ i = Len(sent')
                   /\ sent'[Len(sent')] = [version |-> handler[h].seen.version,
                                           channels |-> Channels \ failing]
<1>1. sent \in Seq([version: Nat, channels: SUBSET Channels]) /\ Len(sent) \in Nat
    BY DEF TypeOK
<1>2. CASE sent' = sent
    BY <1>1, <1>2
<1>3. ASSUME NEW h \in Handlers, DispatchChannels(h)
      PROVE  \E failing \in SUBSET Outbound :
                   /\ handler[h].pc = "dispatch" /\ handler'[h].pc = "write"
                   /\ record' = record
                   /\ Len(sent') = Len(sent) + 1
                   /\ \A i \in 1..Len(sent) : sent'[i] = sent[i]
                   /\ sent'[Len(sent')] = [version |-> handler[h].seen.version,
                                           channels |-> Channels \ failing]
    <2>1. PICK failing \in SUBSET Outbound :
              /\ handler[h].pc = "dispatch"
              /\ sent' = Append(sent, [version |-> handler[h].seen.version,
                                       channels |-> Channels \ failing])
              /\ record' = record
              /\ handler'[h].pc = "write"
        <3>1. handler[h] \in Invocation
            BY DEF TypeOK
        <3> QED
            BY <1>3, <3>1, HandlerBecomes DEF Invocation
    <2> DEFINE e == [version |-> handler[h].seen.version, channels |-> Channels \ failing]
    <2> HIDE DEF e
    <2>2. sent' = Append(sent, e)
        BY <2>1 DEF e
    <2>3. /\ Len(sent') = Len(sent) + 1
          /\ \A i \in 1..Len(sent) : sent'[i] = sent[i]
          /\ sent'[Len(sent')] = e
        BY <1>1, <2>2
    <2> QED
        BY <2>1, <2>3 DEF e
<1>4. CASE \E h \in Handlers : DispatchChannels(h)
    <2>1. PICK h \in Handlers : DispatchChannels(h)
        BY <1>4
    <2>2. PICK failing \in SUBSET Outbound :
                   /\ handler[h].pc = "dispatch" /\ handler'[h].pc = "write"
                   /\ record' = record
                   /\ Len(sent') = Len(sent) + 1
                   /\ \A i \in 1..Len(sent) : sent'[i] = sent[i]
                   /\ sent'[Len(sent')] = [version |-> handler[h].seen.version,
                                           channels |-> Channels \ failing]
        BY <1>3, <2>1
    <2>3. /\ Len(sent') \in Nat
          /\ \A i \in 1..Len(sent) : i \in 1..Len(sent')
          /\ \A i \in 1..Len(sent') : i \in 1..Len(sent) \/ i = Len(sent')
        BY <1>1, <2>2
    <2> QED
        BY <1>1, <2>1, <2>2, <2>3
<1> QED
    BY <1>2, <1>4, HistoryMoves

\* The one alert a step can add is that of a handler that was about to dispatch.
LEMMA NewAlert ==
    ASSUME TypeOK, [Next]_vars, NEW i \in 1..Len(sent'), i \notin 1..Len(sent)
    PROVE  \E h \in Handlers : /\ handler[h].pc = "dispatch" /\ handler'[h].pc = "write"
                               /\ sent'[i].version = handler[h].seen.version
                               /\ i = Len(sent')
<1>1. sent' # sent
    OBVIOUS
<1>2. PICK h \in Handlers, failing \in SUBSET Outbound :
          /\ handler[h].pc = "dispatch" /\ handler'[h].pc = "write"
          /\ \A k \in 1..Len(sent') : k \in 1..Len(sent) \/ k = Len(sent')
          /\ sent'[Len(sent')] = [version |-> handler[h].seen.version,
                                  channels |-> Channels \ failing]
    BY <1>1, SentGrows, Zenon
<1>3. sent'[Len(sent')].version = handler[h].seen.version
    BY <1>2
<1> QED
    BY <1>2, <1>3

-----------------------------------------------------------------------------
(* The parts of the invariant, one lemma each *)

\* Calls stay calls.
LEMMA CallsStay ==
    ASSUME TypeOK, CallsAreReal, [Next]_vars
    PROVE  CallsAreReal'
<1> SUFFICES ASSUME NEW g \in Handlers, handler'[g].pc # "idle"
             PROVE  handler'[g].call \in Calls
    BY DEF CallsAreReal
<1>1. handler[g] \in Invocation
    BY DEF TypeOK
<1>2. handler[g].pc # "idle" => handler[g].call \in Calls
    BY DEF CallsAreReal
<1>3. CASE handler'[g] = handler[g] \/ handler'[g] = Idle
    BY <1>2, <1>3 DEF Idle
<1>4. CASE Arrive(g)
    BY <1>1, <1>4, HandlerBecomes DEF Invocation
<1>5. ASSUME handler[g].pc # "idle", handler'[g].call = handler[g].call
      PROVE  handler'[g].call \in Calls
    BY <1>2, <1>5
<1>6. CASE ReadDecisionCoreStatus(g) /\ coreCommitted
    BY <1>1, <1>5, <1>6, HandlerBecomes DEF Invocation
<1>7. CASE ReadPublishRecord(g) /\ Admitted(handler[g].call, record)
    BY <1>1, <1>5, <1>7, HandlerBecomes DEF Invocation
<1>8. CASE ReadPublicAlertText(g) /\ alertReady
    BY <1>1, <1>5, <1>8, HandlerBecomes DEF Invocation
<1>9. CASE AcquirePublishDispatch(g) /\ handler[g].seen.version \notin claimed
    BY <1>1, <1>5, <1>9, HandlerBecomes DEF Invocation
<1>10. CASE DispatchChannels(g)
    BY <1>1, <1>5, <1>10, HandlerBecomes DEF Invocation
<1> QED
    BY <1>3, <1>4, <1>6, <1>7, <1>8, <1>9, <1>10, HandlerMoves

\* What was found committed and written stays so.
LEMMA GatesStay ==
    ASSUME TypeOK, GatesHold, [Next]_vars
    PROVE  GatesHold'
<1> SUFFICES ASSUME NEW g \in Handlers
             PROVE  /\ handler'[g].pc \in Planned \cup {"read_record"} => coreCommitted'
                    /\ handler'[g].pc \in {"claim", "dispatch"} => alertReady'
    BY DEF GatesHold
<1> USE DEF Planned
<1>1. handler[g] \in Invocation
    BY DEF TypeOK
<1>2. /\ handler[g].pc \in Planned \cup {"read_record"} => coreCommitted'
      /\ handler[g].pc \in {"claim", "dispatch"} => alertReady'
      /\ coreCommitted => coreCommitted'
      /\ alertReady => alertReady'
    BY HistoryMoves DEF GatesHold
<1>3. CASE handler'[g] = handler[g] \/ handler'[g] = Idle
    BY <1>2, <1>3 DEF Idle
<1>4. CASE Arrive(g)
    BY <1>1, <1>4, HandlerBecomes DEF Invocation
<1>5. CASE ReadDecisionCoreStatus(g) /\ coreCommitted
    <2>1. handler'[g].pc = "read_record"
        BY <1>1, <1>5, HandlerBecomes DEF Invocation
    <2> QED
        BY <1>2, <1>5, <2>1
<1>6. CASE ReadPublishRecord(g) /\ Admitted(handler[g].call, record)
    <2>1. handler[g].pc = "read_record" /\ handler'[g].pc \in {"read_alert", "write"}
        BY <1>1, <1>6, HandlerBecomes DEF Invocation
    <2> QED
        BY <1>2, <2>1
<1>7. CASE ReadPublicAlertText(g) /\ alertReady
    <2>1. handler[g].pc = "read_alert" /\ handler'[g].pc = "claim"
        BY <1>1, <1>7, HandlerBecomes DEF Invocation
    <2> QED
        BY <1>2, <1>7, <2>1
<1>8. CASE AcquirePublishDispatch(g) /\ handler[g].seen.version \notin claimed
    <2>1. handler[g].pc = "claim" /\ handler'[g].pc = "dispatch"
        BY <1>1, <1>8, HandlerBecomes DEF Invocation
    <2> QED
        BY <1>2, <2>1
<1>9. CASE DispatchChannels(g)
    <2>1. handler[g].pc = "dispatch" /\ handler'[g].pc = "write"
        BY <1>1, <1>9, HandlerBecomes DEF Invocation
    <2> QED
        BY <1>2, <2>1
<1> QED
    BY <1>3, <1>4, <1>5, <1>6, <1>7, <1>8, <1>9, HandlerMoves

\* The channels of a record are no part of its story.
LEMMA ChannelsAside ==
    ASSUME NEW rec, WellFormed(rec), NEW cs \in SUBSET Channels
    PROVE  /\ WellFormed([rec EXCEPT !.channels = cs])
           /\ [rec EXCEPT !.channels = cs].state = rec.state
           /\ [rec EXCEPT !.channels = cs].channels = cs
           /\ \A seen : Succeeds(rec, seen) => Succeeds([rec EXCEPT !.channels = cs], seen)
<1> DEFINE new == [rec EXCEPT !.channels = cs]
<1>1. rec \in PublishRecord
    BY DEF WellFormed
<1>2. /\ new \in PublishRecord /\ new.channels = cs
      /\ new.state = rec.state /\ new.version = rec.version
      /\ new.approvedBy = rec.approvedBy /\ new.trail = rec.trail
    BY <1>1 DEF PublishRecord
<1> HIDE DEF new
<1>3. WellFormed(new)
    BY <1>2 DEF WellFormed
<1>4. \A seen : Succeeds(rec, seen) => Succeeds(new, seen)
    BY <1>2 DEF Succeeds
<1> QED
    BY <1>2, <1>3, <1>4 DEF new

\* What a dispatch plans to write: the publication that was planned, if every
\* channel delivered, else the failure of the approval it read.
LEMMA DispatchPlans ==
    ASSUME TypeOK, WellFormed(record), CallsAreReal, PlansAreSound,
           NEW g \in Handlers, DispatchChannels(g)
    PROVE  /\ handler'[g].pc = "write"
           /\ handler'[g].seen = handler[g].seen
           /\ WellFormed(handler'[g].next)
           /\ Succeeds(handler'[g].next, handler[g].seen)
           /\ handler'[g].next.state = "published" =>
                /\ handler'[g].next.channels = Channels
                /\ Len(sent') \in Nat \ {0}
                /\ sent'[Len(sent')] = [version |-> handler[g].seen.version, channels |-> Channels]
<1> DEFINE seen == handler[g].seen
           next == handler[g].next
           actor == handler[g].call.actor
<1>1. handler[g] \in Invocation /\ sent \in Seq([version: Nat, channels: SUBSET Channels])
    BY DEF TypeOK
<1>2. PICK failing \in SUBSET Outbound :
          /\ handler[g].pc = "dispatch"
          /\ sent' = Append(sent, [version |-> seen.version, channels |-> Channels \ failing])
          /\ handler'[g] = [handler[g] EXCEPT
               !.pc = "write",
               !.next = IF evaluateChannelOutcome(Channels \ failing)
                        THEN [next EXCEPT !.channels = Channels \ failing]
                        ELSE appendAuditEntry(seen, actor, "publish_failed")]
    BY HandlerBecomes
<1>3. actor \in Actors
    BY <1>2, CallAssumption DEF CallsAreReal, CallAssumption
<1>4. /\ WellFormed(seen) /\ WellFormed(next) /\ Succeeds(next, seen)
      /\ next.state = "published"
    BY <1>2 DEF PlansAreSound, Planned
<1>5. seen.state = "approved"
    <2>1. seen.state \in States \cup {"none"}
        BY <1>4 DEF WellFormed, PublishRecord
    <2> QED
        BY <1>4, <2>1, Transitions DEF Succeeds
<1>6. "publish_failed" \in PUBLISH_TRANSITIONS[seen.state]
    BY <1>5 DEF PUBLISH_TRANSITIONS
<1>7. handler'[g].pc = "write" /\ handler'[g].seen = seen
    BY <1>1, <1>2 DEF Invocation
<1>8. handler'[g].next = IF evaluateChannelOutcome(Channels \ failing)
                         THEN [next EXCEPT !.channels = Channels \ failing]
                         ELSE appendAuditEntry(seen, actor, "publish_failed")
    BY <1>1, <1>2 DEF Invocation
<1>9. /\ Len(sent') \in Nat \ {0}
      /\ sent'[Len(sent')] = [version |-> seen.version, channels |-> Channels \ failing]
    BY <1>1, <1>2
<1> HIDE DEF seen, next, actor
<1>10. CASE Channels \ failing = Channels
    <2>1. handler'[g].next = [next EXCEPT !.channels = Channels]
        BY <1>8, <1>10 DEF evaluateChannelOutcome
    <2>2. /\ WellFormed(handler'[g].next) /\ Succeeds(handler'[g].next, seen)
          /\ handler'[g].next.channels = Channels
        BY <1>4, <2>1, ChannelsAside
    <2> QED
        BY <1>7, <1>9, <1>10, <2>2 DEF seen
<1>11. CASE Channels \ failing # Channels
    <2>1. handler'[g].next = appendAuditEntry(seen, actor, "publish_failed")
        BY <1>8, <1>11 DEF evaluateChannelOutcome
    <2>2. /\ WellFormed(handler'[g].next) /\ Succeeds(handler'[g].next, seen)
          /\ handler'[g].next.state = "publish_failed"
        BY <1>3, <1>4, <1>6, <2>1, AppendWellFormed
    <2> QED
        BY <1>7, <2>2 DEF seen
<1> QED
    BY <1>10, <1>11

\* What a read plans to write.
LEMMA ReadPlans ==
    ASSUME TypeOK, WellFormed(record), CallsAreReal,
           NEW g \in Handlers, ReadPublishRecord(g), Admitted(handler[g].call, record)
    PROVE  /\ record' = record
           /\ handler'[g].seen = record
           /\ WellFormed(handler'[g].next)
           /\ Succeeds(handler'[g].next, record)
           /\ \/ handler'[g].pc = "read_alert" /\ handler'[g].next.state = "published"
              \/ handler'[g].pc = "write" /\ handler'[g].next.state # "published"
<1> DEFINE call == handler[g].call
           target == TargetOf(call, record.state)
           new == appendAuditEntry(record, call.actor, target)
<1>1. handler[g] \in Invocation
    BY DEF TypeOK
<1>2. /\ handler[g].pc = "read_record" /\ record' = record
      /\ handler'[g] = [handler[g] EXCEPT
            !.pc = IF target = "published" THEN "read_alert" ELSE "write",
            !.seen = record,
            !.next = new]
    BY HandlerBecomes
<1>3. /\ handler'[g].seen = record /\ handler'[g].next = new
      /\ handler'[g].pc = IF target = "published" THEN "read_alert" ELSE "write"
    BY <1>1, <1>2 DEF Invocation
<1>4. call.actor \in Actors
    BY <1>2, CallAssumption DEF CallsAreReal, CallAssumption
<1>5. target \in PUBLISH_TRANSITIONS[record.state]
    BY DEF Admitted, isLegalPublishTransition
<1> HIDE DEF target, call
<1>6. WellFormed(new) /\ Succeeds(new, record) /\ new.state = target
    BY <1>4, <1>5, AppendWellFormed
<1> QED
    BY <1>2, <1>3, <1>6

\* Plans stay sound, however long their handlers wait.
LEMMA PlansStay ==
    ASSUME TypeOK, WellFormed(record), CallsAreReal, PlansAreSound, [Next]_vars
    PROVE  PlansAreSound'
<1> DEFINE Sound(inv, rec) ==
        /\ WellFormed(inv.seen) /\ WellFormed(inv.next)
        /\ Extends(rec, inv.seen)
        /\ Succeeds(inv.next, inv.seen)
        /\ inv.pc # "write" => inv.next.state = "published"
<1> SUFFICES ASSUME NEW g \in Handlers, handler'[g].pc \in Planned
             PROVE  Sound(handler'[g], record')
    BY DEF PlansAreSound
<1>1. handler[g] \in Invocation
    BY DEF TypeOK
<1>2. handler[g].pc \in Planned => Sound(handler[g], record')
    BY RecordGrows DEF PlansAreSound
<1>3. CASE handler'[g] = handler[g]
    BY <1>2, <1>3
<1>4. CASE handler'[g] = Idle \/ Arrive(g) \/ (ReadDecisionCoreStatus(g) /\ coreCommitted)
    <2>1. handler'[g] = Idle => handler'[g].pc = "idle"
        BY DEF Idle
    <2>2. Arrive(g) => handler'[g].pc = "read_core"
        BY <1>1, HandlerBecomes DEF Invocation
    <2>3. ReadDecisionCoreStatus(g) /\ coreCommitted => handler'[g].pc = "read_record"
        BY <1>1, HandlerBecomes DEF Invocation
    <2> QED
        BY <1>4, <2>1, <2>2, <2>3 DEF Planned
<1>5. CASE ReadPublishRecord(g) /\ Admitted(handler[g].call, record)
    BY <1>5, ReadPlans, ExtendsItself
<1>6. CASE \/ ReadPublicAlertText(g) /\ alertReady
           \/ AcquirePublishDispatch(g) /\ handler[g].seen.version \notin claimed
    <2>1. /\ handler[g].pc \in {"read_alert", "claim"}
          /\ handler'[g].seen = handler[g].seen /\ handler'[g].next = handler[g].next
        BY <1>1, <1>6, HandlerBecomes DEF Invocation
    <2>2. Sound(handler[g], record') /\ handler[g].next.state = "published"
        BY <1>2, <2>1 DEF Planned
    <2> QED
        BY <2>1, <2>2
<1>7. CASE DispatchChannels(g)
    <2>1. handler[g].pc = "dispatch"
        BY <1>7 DEF DispatchChannels, On
    <2>2. Extends(record', handler[g].seen) /\ WellFormed(handler[g].seen)
        BY <1>2, <2>1 DEF Planned
    <2> QED
        BY <1>7, <2>2, DispatchPlans
<1> QED
    BY <1>3, <1>4, <1>5, <1>6, <1>7, HandlerMoves

\* Claims are held, and each by one dispatch.
LEMMA ClaimsStay ==
    ASSUME TypeOK, ClaimsAreExclusive, [Next]_vars
    PROVE  ClaimsAreExclusive'
<1>1. \A v \in claimed : v \in claimed'
    BY HistoryMoves
<1>2. ASSUME NEW i \in 1..Len(sent') PROVE sent'[i].version \in claimed'
    <2>1. CASE i \in 1..Len(sent)
        BY <1>1, <2>1, SentGrows DEF ClaimsAreExclusive
    <2>2. CASE i \notin 1..Len(sent)
        <3>1. PICK h \in Handlers :
                handler[h].pc = "dispatch" /\ sent'[i].version = handler[h].seen.version
            BY <1>2, <2>2, NewAlert
        <3> QED
            BY <1>1, <3>1 DEF ClaimsAreExclusive
    <2> QED
        BY <2>1, <2>2
<1>3. ASSUME NEW g \in Handlers, handler'[g].pc = "dispatch"
      PROVE  \/ handler'[g] = handler[g]
             \/ /\ AcquirePublishDispatch(g) /\ handler[g].seen.version \notin claimed
                /\ handler'[g].seen = handler[g].seen
                /\ handler[g].seen.version \in claimed'
                /\ sent' = sent
    <2>1. handler[g] \in Invocation
        BY DEF TypeOK
    <2>2. handler'[g] # Idle
        BY <1>3 DEF Idle
    <2>3. ~Arrive(g)
        BY <1>3, <2>1, HandlerBecomes DEF Invocation
    <2>4. ~(ReadDecisionCoreStatus(g) /\ coreCommitted)
        BY <1>3, <2>1, HandlerBecomes DEF Invocation
    <2>5. ~(ReadPublishRecord(g) /\ Admitted(handler[g].call, record))
        BY <1>3, <2>1, HandlerBecomes DEF Invocation
    <2>6. ~(ReadPublicAlertText(g) /\ alertReady)
        BY <1>3, <2>1, HandlerBecomes DEF Invocation
    <2>7. ~DispatchChannels(g)
        BY <1>3, <2>1, HandlerBecomes DEF Invocation
    <2>8. AcquirePublishDispatch(g) /\ handler[g].seen.version \notin claimed =>
                /\ handler'[g].seen = handler[g].seen
                /\ handler[g].seen.version \in claimed'
                /\ sent' = sent
        BY <2>1, HandlerBecomes DEF Invocation
    <2> QED
        BY <2>2, <2>3, <2>4, <2>5, <2>6, <2>7, <2>8, HandlerMoves
<1>4. ASSUME NEW g \in Handlers, handler'[g].pc = "dispatch", handler'[g] = handler[g]
      PROVE  /\ handler'[g].seen.version \in claimed /\ handler'[g].seen.version \in claimed'
             /\ \A i \in 1..Len(sent') : sent'[i].version # handler'[g].seen.version
    <2>1. handler'[g].seen.version \in claimed /\ handler'[g].seen.version \in claimed'
        BY <1>1, <1>4 DEF ClaimsAreExclusive
    <2>2. ASSUME NEW i \in 1..Len(sent') PROVE sent'[i].version # handler'[g].seen.version
        <3>1. CASE i \in 1..Len(sent)
            BY <1>4, <3>1, SentGrows DEF ClaimsAreExclusive
        <3>2. CASE i \notin 1..Len(sent)
            <4>1. PICK h \in Handlers :
                    /\ handler[h].pc = "dispatch" /\ handler'[h].pc = "write"
                    /\ sent'[i].version = handler[h].seen.version
                BY <2>2, <3>2, NewAlert
            <4> QED
                BY <1>4, <4>1 DEF ClaimsAreExclusive
        <3> QED
            BY <3>1, <3>2
    <2> QED
        BY <2>1, <2>2
<1>5. ASSUME NEW g \in Handlers, handler'[g].pc = "dispatch",
             AcquirePublishDispatch(g), handler[g].seen.version \notin claimed,
             NEW k \in Handlers, k # g
      PROVE  handler'[k] = handler[k]
    BY <1>5, OthersUntouched DEF HandlerStep
<1>6. ASSUME NEW g \in Handlers, handler'[g].pc = "dispatch"
      PROVE  /\ handler'[g].seen.version \in claimed'
             /\ \A i \in 1..Len(sent') : sent'[i].version # handler'[g].seen.version
             /\ \A k \in Handlers : handler'[k].pc = "dispatch" /\ k # g =>
                  handler'[k].seen.version # handler'[g].seen.version
    <2>1. CASE handler'[g] = handler[g]
        <3>1. ASSUME NEW k \in Handlers, handler'[k].pc = "dispatch", k # g
              PROVE  handler'[k].seen.version # handler'[g].seen.version
            <4>1. CASE handler'[k] = handler[k]
                BY <1>6, <2>1, <3>1, <4>1 DEF ClaimsAreExclusive
            <4>2. CASE handler'[k] # handler[k]
                BY <1>3, <1>4, <1>6, <2>1, <3>1, <4>2
            <4> QED
                BY <4>1, <4>2
        <3> QED
            BY <1>4, <1>6, <2>1, <3>1
    <2>2. CASE handler'[g] # handler[g]
        <3>1. /\ AcquirePublishDispatch(g) /\ handler[g].seen.version \notin claimed
              /\ handler'[g].seen = handler[g].seen
              /\ handler[g].seen.version \in claimed'
              /\ sent' = sent
            BY <1>3, <1>6, <2>2
        <3>2. \A k \in Handlers : k # g => handler'[k] = handler[k]
            BY <1>5, <1>6, <3>1
        <3>3. \A k \in Handlers : handler[k].pc = "dispatch" => handler[k].seen.version \in claimed
            BY DEF ClaimsAreExclusive
        <3>4. \A k \in Handlers : handler'[k].pc = "dispatch" /\ k # g =>
                  handler'[k].seen.version # handler'[g].seen.version
            BY <3>1, <3>2, <3>3
        <3>5. \A i \in 1..Len(sent') : sent'[i].version # handler'[g].seen.version
            BY <3>1 DEF ClaimsAreExclusive
        <3> QED
            BY <3>1, <3>4, <3>5
    <2> QED
        BY <2>1, <2>2
<1> QED
    BY <1>2, <1>6 DEF ClaimsAreExclusive

\* A handler that is to write published has seen every channel deliver.
LEMMA DeliveryStays ==
    ASSUME TypeOK, WellFormed(record), CallsAreReal, PlansAreSound, DeliveredFirst, [Next]_vars
    PROVE  DeliveredFirst'
<1> SUFFICES ASSUME NEW g \in Handlers, handler'[g].pc = "write",
                    handler'[g].next.state = "published"
             PROVE  /\ handler'[g].next.channels = Channels
                    /\ \E i \in 1..Len(sent') : /\ sent'[i].version = handler'[g].seen.version
                                                /\ sent'[i].channels = Channels
    BY DEF DeliveredFirst, Sent
<1>1. handler[g] \in Invocation
    BY DEF TypeOK
<1>2. CASE handler'[g] = handler[g]
    <2>1. handler'[g].next.channels = Channels /\ Sent(handler'[g].seen.version)
        BY <1>2 DEF DeliveredFirst
    <2> QED
        BY <2>1, SentGrows DEF Sent
<1>3. CASE handler'[g] = Idle
    BY <1>3 DEF Idle
<1>4. CASE ReadPublishRecord(g) /\ Admitted(handler[g].call, record)
    BY <1>4, ReadPlans
<1>5. CASE DispatchChannels(g)
    <2>1. /\ handler'[g].next.channels = Channels
          /\ Len(sent') \in Nat \ {0}
          /\ handler'[g].seen = handler[g].seen
          /\ sent'[Len(sent')] = [version |-> handler[g].seen.version, channels |-> Channels]
        BY <1>5, DispatchPlans
    <2>2. Len(sent') \in 1..Len(sent')
        BY <2>1
    <2> QED
        BY <2>1, <2>2
<1>6. ~Arrive(g)
    BY <1>1, HandlerBecomes DEF Invocation
<1>7. ~(ReadDecisionCoreStatus(g) /\ coreCommitted)
    BY <1>1, HandlerBecomes DEF Invocation
<1>8. ~(ReadPublicAlertText(g) /\ alertReady)
    BY <1>1, HandlerBecomes DEF Invocation
<1>9. ~(AcquirePublishDispatch(g) /\ handler[g].seen.version \notin claimed)
    BY <1>1, HandlerBecomes DEF Invocation
<1> QED
    BY <1>2, <1>3, <1>4, <1>5, <1>6, <1>7, <1>8, <1>9, HandlerMoves

\* A dispatch has a version no alert had before.
LEMMA DispatchStaysSingle ==
    ASSUME TypeOK, ClaimsAreExclusive, OneDispatchPerApproval, [Next]_vars
    PROVE  OneDispatchPerApproval'
<1> SUFFICES ASSUME NEW i \in 1..Len(sent'), NEW j \in 1..Len(sent'),
                    sent'[i].version = sent'[j].version
             PROVE  i = j
    BY DEF OneDispatchPerApproval
<1>1. CASE i \in 1..Len(sent) /\ j \in 1..Len(sent)
    BY <1>1, SentGrows DEF OneDispatchPerApproval
<1>2. ASSUME NEW k \in 1..Len(sent'), k \notin 1..Len(sent), NEW m \in 1..Len(sent)
      PROVE  sent'[k].version # sent'[m].version
    <2>1. PICK h \in Handlers :
            handler[h].pc = "dispatch" /\ sent'[k].version = handler[h].seen.version
        BY <1>2, NewAlert
    <2>2. sent'[m] = sent[m] /\ sent[m].version # handler[h].seen.version
        BY <2>1, SentGrows DEF ClaimsAreExclusive
    <2> QED
        BY <2>1, <2>2
<1>3. CASE i \notin 1..Len(sent) /\ j \notin 1..Len(sent)
    BY <1>3, NewAlert
<1> QED
    BY <1>1, <1>2, <1>3

\* The approval a dispatching handler read is on record.
LEMMA AlertsStayApproved ==
    ASSUME TypeOK, WellFormed(record), PlansAreSound, GatesHold, AlertWasApproved, [Next]_vars
    PROVE  AlertWasApproved'
<1> SUFFICES ASSUME NEW i \in 1..Len(sent')
             PROVE  /\ sent'[i].version \in 1..record'.version
                    /\ record'.trail[sent'[i].version].to = "approved"
                    /\ coreCommitted' /\ alertReady'
    BY DEF AlertWasApproved
<1>1. ASSUME NEW v \in 1..record.version, record.trail[v].to = "approved",
             coreCommitted, alertReady
      PROVE  /\ v \in 1..record'.version /\ record'.trail[v].to = "approved"
             /\ coreCommitted' /\ alertReady'
    BY <1>1, RecordGrows, HistoryMoves
<1>2. CASE i \in 1..Len(sent)
    BY <1>1, <1>2, SentGrows DEF AlertWasApproved
<1>3. CASE i \notin 1..Len(sent)
    <2>1. PICK h \in Handlers :
            handler[h].pc = "dispatch" /\ sent'[i].version = handler[h].seen.version
        BY <1>3, NewAlert
    <2> DEFINE seen == handler[h].seen
               next == handler[h].next
    <2>2. /\ WellFormed(seen) /\ Succeeds(next, seen) /\ Extends(record, seen)
          /\ next.state = "published" /\ coreCommitted /\ alertReady
        BY <2>1 DEF PlansAreSound, Planned, GatesHold
    <2> HIDE DEF seen, next
    <2>3. seen.state = "approved"
        <3>1. seen.state \in States \cup {"none"}
            BY <2>2 DEF WellFormed, PublishRecord
        <3> QED
            BY <2>2, <3>1, Transitions DEF Succeeds
    <2>4. seen.version \in Nat \ {0} /\ record.version \in Nat
        BY <2>2, <2>3, StateOfVersion
    <2>5. seen.version \in 1..seen.version /\ seen.trail[seen.version].to = "approved"
        BY <2>2, <2>3, <2>4 DEF WellFormed
    <2>6. seen.version \in 1..record.version /\ record.trail[seen.version].to = "approved"
        BY <2>2, <2>4, <2>5 DEF Extends
    <2> QED
        BY <1>1, <2>1, <2>2, <2>6 DEF seen
<1> QED
    BY <1>2, <1>3

\* What is written as published has been delivered.
LEMMA PublicationStaysDelivered ==
    ASSUME TypeOK, WellFormed(record), PlansAreSound, DeliveredFirst, PublishedWasDelivered,
           [Next]_vars
    PROVE  PublishedWasDelivered'
<1> SUFFICES ASSUME record'.state = "published"
             PROVE  /\ record'.channels = Channels
                    /\ \E i \in 1..Len(sent') : /\ sent'[i].version = record'.version - 1
                                                /\ sent'[i].channels = Channels
    BY DEF PublishedWasDelivered
<1>1. CASE record' = record
    BY <1>1, SentGrows DEF PublishedWasDelivered
<1>2. CASE \E h \in Handlers : Persist(h)
    <2>1. PICK h \in Handlers : Persist(h)
        BY <1>2
    <2>2. /\ record' = handler[h].next /\ Succeeds(record', record)
          /\ record.version = handler[h].seen.version
        BY <2>1, Written
    <2>3. handler[h].pc = "write"
        BY <2>1 DEF Persist, On
    <2>4. record'.channels = Channels /\ Sent(record.version)
        BY <2>2, <2>3 DEF DeliveredFirst
    <2>5. record'.version - 1 = record.version
        <3>1. record'.version = record.version + 1 /\ record.version \in Nat
            BY <2>2, StateOfVersion DEF Succeeds
        <3> QED
            BY <3>1
    <2> QED
        BY <2>4, <2>5, SentGrows DEF Sent
<1> QED
    BY <1>1, <1>2, RecordMoves

\* A push is about the transition just written.
LEMMA PushesStayPersisted ==
    ASSUME TypeOK, WellFormed(record), PlansAreSound, PushedIsPersisted, [Next]_vars
    PROVE  PushedIsPersisted'
<1> SUFFICES ASSUME NEW p \in pushed'
             PROVE  p[1] \in 1..record'.version /\ record'.trail[p[1]].to = p[2]
    BY DEF PushedIsPersisted
<1>1. CASE p \in pushed
    BY <1>1, RecordGrows DEF PushedIsPersisted
<1>2. CASE p \notin pushed
    <2>1. PICK h \in Handlers : ApplyPublishTransition(h)
        BY <1>2, HistoryMoves
    <2>2. p = <<record'.version, record'.state>> /\ Persist(h)
        BY <1>2, <2>1 DEF ApplyPublishTransition
    <2>3. WellFormed(record') /\ Succeeds(record', record)
        BY <2>2, Written
    <2>4. record'.version = record.version + 1 /\ record.version \in Nat
        BY <2>3, StateOfVersion DEF Succeeds
    <2>5. record'.version \in 1..record'.version
          /\ record'.trail[record'.version].to = record'.state
        BY <2>3, <2>4 DEF WellFormed
    <2> QED
        BY <2>2, <2>5
<1> QED
    BY <1>1, <1>2

-----------------------------------------------------------------------------
(* Types *)

\* A step updates the entries of handler and nothing else of it.
LEMMA HandlerShape ==
    ASSUME TypeOK, [Next]_vars
    PROVE  handler' = [g \in Handlers |-> handler'[g]]
<1> USE DEF TypeOK, Answer, GoOn
<1>1. ASSUME NEW h \in Handlers, HandlerStep(h) \/ HandlerFault(h)
      PROVE  handler' = [g \in Handlers |-> handler'[g]]
    <2>1. CASE Arrive(h)
        BY <2>1 DEF Arrive
    <2>2. CASE ReadDecisionCoreStatus(h)
        BY <2>2 DEF ReadDecisionCoreStatus
    <2>3. CASE ReadPublishRecord(h)
        BY <2>3 DEF ReadPublishRecord
    <2>4. CASE ReadPublicAlertText(h)
        BY <2>4 DEF ReadPublicAlertText
    <2>5. CASE AcquirePublishDispatch(h)
        BY <2>5 DEF AcquirePublishDispatch
    <2>6. CASE DispatchChannels(h)
        BY <2>6 DEF DispatchChannels
    <2>7. CASE ApplyPublishTransition(h) \/ ApplyPublishTransitionLost(h) \/ VersionConflict(h)
               \/ AcquirePublishDispatchLost(h) \/ Crash(h)
        BY <2>7 DEF ApplyPublishTransition, ApplyPublishTransitionLost, VersionConflict,
                    AcquirePublishDispatchLost, Crash
    <2> QED
        BY <1>1, <2>1, <2>2, <2>3, <2>4, <2>5, <2>6, <2>7 DEF HandlerStep, HandlerFault
<1>2. CASE CommitDecision \/ WriteAlertText \/ UNCHANGED vars
    BY <1>2 DEF CommitDecision, WriteAlertText, vars
<1> QED
    BY <1>1, <1>2 DEF Next

\* Each handler keeps the type of one.
LEMMA InvocationStays ==
    ASSUME TypeOK, WellFormed(record), CallsAreReal, PlansAreSound, [Next]_vars,
           NEW g \in Handlers
    PROVE  handler'[g] \in Invocation
<1>1. handler[g] \in Invocation
    BY DEF TypeOK
<1>2. ASSUME NEW pc \in Steps PROVE [handler[g] EXCEPT !.pc = pc] \in Invocation
    BY <1>1 DEF Invocation
<1>3. CASE handler'[g] = handler[g]
    BY <1>1, <1>3
<1>4. CASE handler'[g] = Idle
    <2>1. NoRecord \in PublishRecord
        BY DEF NoRecord, PublishRecord
    <2> QED
        BY <1>4, <2>1 DEF Idle, Invocation
<1>5. CASE Arrive(g)
    <2>1. PICK c \in Calls : handler'[g] = [handler[g] EXCEPT !.pc = "read_core", !.call = c]
        BY <1>5, HandlerBecomes
    <2> QED
        BY <1>1, <2>1 DEF Invocation, Steps
<1>6. CASE ReadDecisionCoreStatus(g) /\ coreCommitted
    BY <1>2, <1>6, HandlerBecomes DEF Steps
<1>7. CASE ReadPublishRecord(g) /\ Admitted(handler[g].call, record)
    <2>1. WellFormed(handler'[g].next)
        BY <1>7, ReadPlans
    <2>2. PICK pc \in Steps :
            \E next : handler'[g] = [handler[g] EXCEPT !.pc = pc, !.seen = record, !.next = next]
        BY <1>7, HandlerBecomes DEF Steps
    <2>3. PICK next :
            handler'[g] = [handler[g] EXCEPT !.pc = pc, !.seen = record, !.next = next]
        BY <2>2
    <2>4. next \in PublishRecord
        BY <1>1, <2>1, <2>3 DEF Invocation, WellFormed
    <2>5. record \in PublishRecord
        BY DEF TypeOK
    <2> QED
        BY <1>1, <2>3, <2>4, <2>5 DEF Invocation
<1>8. CASE ReadPublicAlertText(g) /\ alertReady
    BY <1>2, <1>8, HandlerBecomes DEF Steps
<1>9. CASE AcquirePublishDispatch(g) /\ handler[g].seen.version \notin claimed
    BY <1>2, <1>9, HandlerBecomes DEF Steps
<1>10. CASE DispatchChannels(g)
    <2>1. WellFormed(handler'[g].next)
        BY <1>10, DispatchPlans
    <2>2. PICK next : handler'[g] = [handler[g] EXCEPT !.pc = "write", !.next = next]
        BY <1>10, HandlerBecomes
    <2>3. next \in PublishRecord
        BY <1>1, <2>1, <2>2 DEF Invocation, WellFormed
    <2> QED
        BY <1>1, <2>2, <2>3 DEF Invocation, Steps
<1> QED
    BY <1>3, <1>4, <1>5, <1>6, <1>7, <1>8, <1>9, <1>10, HandlerMoves

\* The types of the claims and the gates.
LEMMA ItemTypes ==
    ASSUME TypeOK, [Next]_vars
    PROVE  claimed' \subseteq Nat /\ coreCommitted' \in BOOLEAN /\ alertReady' \in BOOLEAN
<1>1. claimed \subseteq Nat /\ coreCommitted \in BOOLEAN /\ alertReady \in BOOLEAN
    BY DEF TypeOK
<1>2. ASSUME NEW h \in Handlers, HandlerStep(h) \/ HandlerFault(h)
      PROVE  /\ claimed' = claimed \/ claimed' = claimed \cup {handler[h].seen.version}
             /\ UNCHANGED decision
    <2>1. CASE AcquirePublishDispatch(h) \/ AcquirePublishDispatchLost(h)
        BY <2>1 DEF AcquirePublishDispatch, AcquirePublishDispatchLost
    <2>2. CASE ~(AcquirePublishDispatch(h) \/ AcquirePublishDispatchLost(h))
        BY <1>2, <2>2 DEF HandlerStep, HandlerFault, item, Arrive, ReadDecisionCoreStatus,
            ReadPublishRecord, ReadPublicAlertText, DispatchChannels, VersionConflict,
            ApplyPublishTransition, ApplyPublishTransitionLost, Crash
    <2> QED
        BY <2>1, <2>2
<1>3. \A h \in Handlers : handler[h].seen.version \in Nat
    BY DEF TypeOK, Invocation, PublishRecord
<1>4. CASE \E h \in Handlers : HandlerStep(h) \/ HandlerFault(h)
    BY <1>1, <1>2, <1>3, <1>4 DEF decision
<1>5. CASE CommitDecision \/ WriteAlertText \/ UNCHANGED vars
    BY <1>1, <1>5 DEF CommitDecision, WriteAlertText, vars, item
<1> QED
    BY <1>4, <1>5 DEF Next

\* Every variable keeps its type.
LEMMA TypeStays ==
    ASSUME TypeOK, WellFormed(record), CallsAreReal, PlansAreSound, [Next]_vars
    PROVE  TypeOK'
<1>1. record' \in PublishRecord
    BY RecordGrows DEF WellFormed
<1>2. handler' \in [Handlers -> Invocation]
    BY HandlerShape, InvocationStays
<1>3. sent' \in Seq([version: Nat, channels: SUBSET Channels])
    <2>1. sent \in Seq([version: Nat, channels: SUBSET Channels])
        BY DEF TypeOK
    <2>2. CASE \E h \in Handlers : DispatchChannels(h)
        <3>1. PICK h \in Handlers, failing \in SUBSET Outbound :
                sent' = Append(sent, [version |-> handler[h].seen.version,
                                      channels |-> Channels \ failing])
            BY <2>2 DEF DispatchChannels
        <3>2. handler[h].seen.version \in Nat
            BY DEF TypeOK, Invocation, PublishRecord
        <3> DEFINE e == [version |-> handler[h].seen.version, channels |-> Channels \ failing]
        <3>3. e \in [version: Nat, channels: SUBSET Channels]
            BY <3>2
        <3> HIDE DEF e
        <3>4. sent' = Append(sent, e)
            BY <3>1 DEF e
        <3> QED
            BY <2>1, <3>3, <3>4
    <2> QED
        BY <2>1, <2>2, HistoryMoves
<1>4. pushed' \subseteq Nat \X States
    <2>1. pushed \subseteq Nat \X States
        BY DEF TypeOK
    <2>2. CASE \E h \in Handlers : ApplyPublishTransition(h)
        <3>1. PICK h \in Handlers : Persist(h) /\ pushed' = pushed \cup {<<record'.version, record'.state>>}
            BY <2>2 DEF ApplyPublishTransition
        <3>2. Succeeds(record', record) /\ record'.version \in Nat
            BY <3>1, Written, StateOfVersion
        <3>3. record.state \in States \cup {"none"}
            BY DEF TypeOK, PublishRecord
        <3>4. record'.state \in States
            BY <3>2, <3>3, Transitions DEF Succeeds
        <3> QED
            BY <2>1, <3>1, <3>2, <3>4
    <2> QED
        BY <2>1, <2>2, HistoryMoves
<1> QED
    BY <1>1, <1>2, <1>3, <1>4, ItemTypes DEF TypeOK

-----------------------------------------------------------------------------
(* The theorems *)

\* Before the first request.
LEMMA Initially == Init => IInv
<1> SUFFICES ASSUME Init PROVE IInv
    OBVIOUS
<1> USE DEF Init
<1>1. NoRecord \in PublishRecord
    BY DEF NoRecord, PublishRecord
<1>2. Len(sent) = 0 /\ sent \in Seq([version: Nat, channels: SUBSET Channels])
    OBVIOUS
<1>3. \A h \in Handlers : handler[h] = Idle /\ handler[h].pc = "idle"
    BY DEF Idle
<1>4. TypeOK
    BY <1>1, <1>2 DEF TypeOK, Idle, Invocation
<1>5. WellFormed(record)
    BY <1>1 DEF WellFormed, NoRecord
<1>6. CallsAreReal /\ PlansAreSound /\ GatesHold /\ DeliveredFirst
    BY <1>3 DEF CallsAreReal, PlansAreSound, GatesHold, DeliveredFirst, Planned
<1>7. ClaimsAreExclusive /\ OneDispatchPerApproval /\ AlertWasApproved
    BY <1>2, <1>3 DEF ClaimsAreExclusive, OneDispatchPerApproval, AlertWasApproved
<1>8. PublishedWasDelivered /\ PushedIsPersisted
    BY DEF PublishedWasDelivered, PushedIsPersisted, NoRecord
<1> QED
    BY <1>4, <1>5, <1>6, <1>7, <1>8 DEF IInv

\* The invariant is inductive.
THEOREM Inductive == Spec => []IInv
<1>1. IInv /\ [Next]_vars => IInv'
    BY TypeStays, RecordGrows, CallsStay, PlansStay, GatesStay, ClaimsStay, DeliveryStays,
       DispatchStaysSingle, AlertsStayApproved, PublicationStaysDelivered, PushesStayPersisted
       DEF IInv
<1> QED
    BY Initially, <1>1, PTL DEF Spec

\* Every variable has its type.
THEOREM TypeCorrect == Spec => []TypeOK
<1>1. IInv => TypeOK
    BY DEF IInv
<1> QED
    BY Inductive, <1>1, PTL

\* The trail of the record tells its whole story.
THEOREM TrailIsFaithful == Spec => []TrailTellsTheRecord
<1>1. IInv => TrailTellsTheRecord
    <2> SUFFICES ASSUME WellFormed(record) PROVE TrailTellsTheRecord
        BY DEF IInv
    <2>1. Len(record.trail) = record.version
        BY DEF WellFormed
    <2> QED
        BY <2>1 DEF WellFormed, TrailTellsTheRecord
<1> QED
    BY Inductive, <1>1, PTL

\* The channels run at most once under each approval, whoever crashes or retries.
THEOREM DispatchedOnce == Spec => []OneDispatchPerApproval
<1>1. IInv => OneDispatchPerApproval
    BY DEF IInv
<1> QED
    BY Inductive, <1>1, PTL

\* No alert leaves without an approval on record, a committed core and a text.
THEOREM AlertsAreApproved == Spec => []AlertWasApproved
<1>1. IInv => AlertWasApproved
    BY DEF IInv
<1> QED
    BY Inductive, <1>1, PTL

\* published rests on a delivery by every channel under the approval it follows.
THEOREM PublicationsAreDelivered == Spec => []PublishedWasDelivered
<1>1. IInv => PublishedWasDelivered
    BY DEF IInv
<1> QED
    BY Inductive, <1>1, PTL

\* What is pushed is on record.
THEOREM PushesArePersisted == Spec => []PushedIsPersisted
<1>1. IInv => PushedIsPersisted
    BY DEF IInv
<1> QED
    BY Inductive, <1>1, PTL

\* A successor has one entry more than the record it succeeds.
LEMMA SuccessorAppends ==
    ASSUME NEW rec, WellFormed(rec), NEW next, Succeeds(next, rec)
    PROVE  /\ Len(next.trail) = Len(rec.trail) + 1
           /\ SubSeq(next.trail, 1, Len(rec.trail)) = rec.trail
<1>1. PICK e \in Entry : next.trail = Append(rec.trail, e)
    <2>1. PICK actor \in Actors :
            next.trail = Append(rec.trail, [actor |-> actor, from |-> rec.state, to |-> next.state])
        BY DEF Succeeds
    <2>2. rec.state \in States \cup {"none"}
        BY DEF WellFormed, PublishRecord
    <2>3. next.state \in States
        BY <2>2, Transitions DEF Succeeds
    <2> QED
        BY <2>1, <2>2, <2>3 DEF Entry
<1>2. rec.trail \in Seq(Entry)
    BY StateOfVersion
<1>3. Len(next.trail) = Len(rec.trail) + 1
    BY <1>1, <1>2
<1>4. SubSeq(next.trail, 1, Len(rec.trail)) = rec.trail
    BY <1>1, <1>2
<1> QED
    BY <1>3, <1>4

\* The audit trail only grows, one entry at a time.
THEOREM TrailOnlyGrows == Spec => TrailAppendOnly
<1>1. IInv /\ [Next]_vars =>
        [record' = record \/ (/\ Len(record'.trail) = Len(record.trail) + 1
                              /\ SubSeq(record'.trail, 1, Len(record.trail)) = record.trail)]_vars
    BY RecordGrows, SuccessorAppends DEF IInv
<1> QED
    BY Inductive, <1>1, PTL DEF Spec, TrailAppendOnly

\* published is never left or altered.
THEOREM PublishedStays == Spec => PublishedIsFinal
<1>1. IInv /\ [Next]_vars => [record.state = "published" => record' = record]_vars
    <2> SUFFICES ASSUME IInv, [Next]_vars, record.state = "published"
                 PROVE  record' = record
        OBVIOUS
    <2>1. record' = record \/ Succeeds(record', record)
        BY RecordGrows DEF IInv
    <2>2. ~Succeeds(record', record)
        BY DEF Succeeds, PUBLISH_TRANSITIONS
    <2> QED
        BY <2>1, <2>2
<1> QED
    BY Inductive, <1>1, PTL DEF Spec, PublishedIsFinal

-----------------------------------------------------------------------------
(* Refinement *)

\* A write is a transition of the lifecycle.
LEMMA WriteTransits ==
    ASSUME IInv, IInv', sent' = sent, Succeeds(record', record)
    PROVE  Lifecycle!LifecycleNext
<1>1. WellFormed(record) /\ PublishedWasDelivered'
    BY DEF IInv
<1>2. record.version \in Nat /\ record.trail \in Seq(Entry) /\ Len(record.trail) = record.version
    BY <1>1, StateOfVersion DEF WellFormed
<1>3. Lifecycle!Current = record.state
    BY <1>1, <1>2 DEF Lifecycle!Current, WellFormed
<1>4. PICK actor \in Actors :
        record'.trail = Append(record.trail,
                               [actor |-> actor, from |-> record.state, to |-> record'.state])
    BY DEF Succeeds
<1>5. record'.state \in PUBLISH_TRANSITIONS[record.state] /\ record'.version = record.version + 1
    BY DEF Succeeds
<1>6. record'.state \in States
    <2>1. record.state \in States \cup {"none"}
        BY <1>1 DEF WellFormed, PublishRecord
    <2> QED
        BY <1>5, <2>1, Transitions
<1>7. record'.state \in Lifecycle!Follows[record.state]
    BY <1>5 DEF PUBLISH_TRANSITIONS, Lifecycle!Follows
<1>8. ASSUME record'.state = "published"
      PROVE  Len(record.trail) \in
               {sent[i].version : i \in {j \in 1..Len(sent) : sent[j].channels = Channels}}
    <2>1. PICK i \in 1..Len(sent) :
            sent[i].version = record'.version - 1 /\ sent[i].channels = Channels
        BY <1>1, <1>8 DEF PublishedWasDelivered
    <2>2. record'.version - 1 = Len(record.trail)
        BY <1>2, <1>5
    <2> QED
        BY <2>1, <2>2
<1>9. Lifecycle!Transit(actor, record'.state)
    BY <1>3, <1>4, <1>7, <1>8 DEF Lifecycle!Transit
<1> QED
    BY <1>6, <1>9 DEF Lifecycle!LifecycleNext, States

\* A dispatch is the one alert of its approval.
LEMMA DispatchAlerts ==
    ASSUME IInv, IInv', [Next]_vars, sent' # sent
    PROVE  Lifecycle!LifecycleNext
<1>1. TypeOK /\ WellFormed(record) /\ ClaimsAreExclusive /\ AlertWasApproved'
    BY DEF IInv
<1>2. PICK h \in Handlers, failing \in SUBSET Outbound :
        /\ handler[h].pc = "dispatch"
        /\ record' = record
        /\ Len(sent') = Len(sent) + 1
        /\ \A i \in 1..Len(sent') : i \in 1..Len(sent) \/ i = Len(sent')
        /\ sent'[Len(sent')] = [version |-> handler[h].seen.version,
                                channels |-> Channels \ failing]
    BY <1>1, SentGrows, Zenon
<1> PICK v : v = handler[h].seen.version
    OBVIOUS
<1> DEFINE n == Len(sent')
<1>3. sent'[n].version = v /\ sent'[n].channels = Channels \ failing
    BY <1>2
<1>4. /\ n \in 1..n /\ Len(sent) \in Nat
      /\ \A i \in 1..Len(sent) : i \in 1..n /\ i # n /\ sent'[i] = sent[i]
    BY <1>1, <1>2, SentGrows
<1>5. \A i \in 1..n : i \in 1..Len(sent) \/ i = n
    BY <1>2
<1>6. v \notin {sent[i].version : i \in 1..Len(sent)}
    BY <1>1, <1>2 DEF ClaimsAreExclusive
<1>7. v \in 1..record.version /\ record.trail[v].to = "approved"
    BY <1>1, <1>2, <1>3, <1>4 DEF AlertWasApproved
<1>8. v \in 1..Len(record.trail)
    BY <1>1, <1>7 DEF WellFormed
<1> HIDE DEF n
<1>9. {sent'[i].version : i \in 1..n} = {sent[i].version : i \in 1..Len(sent)} \cup {v}
    BY <1>3, <1>4, <1>5
<1> DEFINE full == {j \in 1..Len(sent) : sent[j].channels = Channels}
           full1 == {j \in 1..n : sent'[j].channels = Channels}
<1>10. full1 = full \/ full1 = full \cup {n}
    BY <1>4, <1>5
<1>11. \A i \in full : sent'[i] = sent[i]
    BY <1>4
<1>12. {sent'[i].version : i \in full1} \in {{sent[i].version : i \in full},
                                             {sent[i].version : i \in full} \cup {v}}
    BY <1>3, <1>10, <1>11
<1>13. Lifecycle!SendAlert(v)
    BY <1>2, <1>6, <1>7, <1>9, <1>12 DEF Lifecycle!SendAlert, n
<1> QED
    BY <1>8, <1>13 DEF Lifecycle!LifecycleNext

\* PublishFlow implements the lifecycle, for any set of handlers and calls.
THEOREM Refinement == Spec => ImplementsLifecycle
<1>1. Init => Lifecycle!LifecycleInit
    BY DEF Init, NoRecord, Lifecycle!LifecycleInit
<1>2. IInv /\ IInv' /\ [Next]_vars => [Lifecycle!LifecycleNext]_(Lifecycle!lifecycleVars)
    <2> SUFFICES ASSUME IInv, IInv', [Next]_vars
                 PROVE  [Lifecycle!LifecycleNext]_(Lifecycle!lifecycleVars)
        OBVIOUS
    <2>1. record' = record \/ Succeeds(record', record)
        BY RecordGrows DEF IInv
    <2>2. CASE sent' # sent
        BY <2>2, DispatchAlerts
    <2>3. CASE sent' = sent /\ Succeeds(record', record)
        BY <2>3, WriteTransits
    <2>4. CASE sent' = sent /\ record' = record
        BY <2>4 DEF Lifecycle!lifecycleVars
    <2> QED
        BY <2>1, <2>2, <2>3, <2>4
<1> QED
    BY Inductive, <1>1, <1>2, PTL DEF Spec, ImplementsLifecycle, Lifecycle!LifecycleSpec
=============================================================================
