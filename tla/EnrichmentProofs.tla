-------------------------- MODULE EnrichmentProofs --------------------------
(***************************************************************************)
(* The safety of EnrichmentFlow for any set of runs, any set of clients    *)
(* and any number of faults.  The properties rest on one invariant: what a *)
(* run past its gate, a run about to push and a client in the middle of a  *)
(* poll may rely on.                                                       *)
(***************************************************************************)
EXTENDS EnrichmentFlow, TLAPS

Whole == \A t \in RequiredTypes : item[t] # NoItem

\* A narrative is only written, and a run only past its gate, with a core.
CoreComesFirst ==
    /\ \A r \in Runs : run[r].pc \in {"render", "push"} => core
    /\ \A t \in RequiredTypes : item[t] # NoItem => core

\* Who is about to push saw the whole set; an announcement is of one.
PushSeesAll ==
    /\ \A r \in Runs : run[r].pc = "push" => Whole
    /\ announced => Whole

\* What a client was told or has read is true by now, and the reads of a poll
\* are not older than its last answer, nor than a push that came before them.
Behind(k, committed, pushed, whole) ==
    /\ k.told => pushed
    /\ k.polling.core = "yes" => committed
    /\ k.polling.complete = "yes" => whole
    /\ k.status \in {"partial", "ready"} => committed /\ k.polling.core # "no"
    /\ k.status = "ready" => whole /\ k.polling.complete # "no"
    /\ k.told_first => k.told /\ k.polling.core # "no" /\ k.polling.complete # "no"

ClientIsBehind == \A c \in Clients : Behind(client[c], core, announced, Whole)

IInv == TypeOK /\ CoreComesFirst /\ PushSeesAll /\ LastWriterAnnounces /\ ClientIsBehind

-----------------------------------------------------------------------------
\* Existing is all of RequiredTypes when every type has its item.
LEMMA WholeExists ==
    /\ Existing = RequiredTypes <=> Whole
    /\ isNarrativeSetComplete(Existing) <=> Whole
BY DEF Existing, Whole, isNarrativeSetComplete

\* The types hold initially ...
LEMMA TypeInit == Init => TypeOK
<1> SUFFICES ASSUME Init PROVE TypeOK
    OBVIOUS
<1>1. AtGate \in Run
    BY DEF AtGate, Run
<1>2. [told |-> FALSE, told_first |-> FALSE, polling |-> NotPolling, status |-> "none"] \in Client
    BY DEF Client, NotPolling
<1>3. run \in [Runs -> Run] /\ client \in [Clients -> Client]
    BY <1>1, <1>2 DEF Init
<1>4. core \in BOOLEAN /\ announced \in BOOLEAN
    BY DEF Init
<1>5. item \in [RequiredTypes -> Runs \cup {NoItem}]
    BY DEF Init
<1>6. faults \in 0..MaxFaults
    BY FaultsAssumption DEF Init, FaultsAssumption
<1> QED
    BY <1>3, <1>4, <1>5, <1>6 DEF TypeOK

\* ... and after every step.
LEMMA TypeNext == TypeOK /\ [Next]_vars => TypeOK'
<1> SUFFICES ASSUME TypeOK, [Next]_vars PROVE TypeOK'
    OBVIOUS
<1> USE FaultsAssumption DEF FaultsAssumption
<1>1. CASE CommitCore
    BY <1>1 DEF CommitCore, TypeOK
<1>2. ASSUME NEW r \in Runs, RunStep(r) PROVE TypeOK'
    <2>1. CASE Gate(r)
        BY <2>1 DEF Gate, TypeOK, Run
    <2>2. CASE GateRefuses(r)
        BY <2>2 DEF GateRefuses, GoTo, TypeOK, Run
    <2>3. ASSUME NEW t \in RequiredTypes, Branch(r, t) PROVE TypeOK'
        BY <2>3 DEF Branch, PutNarrative, PutRefused, Rendering, Settles, TypeOK, Run
    <2>4. CASE RereadNarratives(r)
        BY <2>4 DEF RereadNarratives, GoTo, TypeOK, Run
    <2>5. CASE Push(r)
        <3>1. PICK reached \in SUBSET Clients :
                  client' = [c \in Clients |-> [client[c] EXCEPT !.told = @ \/ c \in reached]]
            BY <2>5 DEF Push
        <3>2. ASSUME NEW c \in Clients
              PROVE [client[c] EXCEPT !.told = @ \/ c \in reached] \in Client
            BY DEF TypeOK, Client
        <3>3. client' \in [Clients -> Client]
            BY <3>1, <3>2
        <3> QED
            BY <2>5, <3>3 DEF Push, GoTo, TypeOK, Run
    <2> QED
        BY <1>2, <2>1, <2>2, <2>3, <2>4, <2>5 DEF RunStep
<1>3. ASSUME NEW r \in Runs, Disturbed(r) PROVE TypeOK'
    <2>1. ASSUME NEW t \in RequiredTypes, PutFails(r, t) PROVE TypeOK'
        BY <2>1 DEF PutFails, Rendering, Settles, Fault, TypeOK, Run
    <2>2. CASE PushFails(r)
        BY <2>2 DEF PushFails, GoTo, Fault, TypeOK, Run
    <2>3. CASE Dies(r)
        BY <2>3 DEF Dies, GoTo, Fault, TypeOK, Run
    <2> QED
        BY <1>3, <2>1, <2>2, <2>3 DEF Disturbed
<1>4. ASSUME NEW r \in Runs, RunAgain(r) PROVE TypeOK'
    BY <1>4 DEF RunAgain, AtGate, TypeOK, Run
<1>5. ASSUME NEW c \in Clients, Poll(c) PROVE TypeOK'
    <2>1. CASE PollCore(c)
        <3>1. YesNo(core) \in {"unread", "yes", "no"}
            BY DEF YesNo
        <3>2. client[c] \in Client
            BY DEF TypeOK
        <3>3. client'[c] \in Client
            BY <2>1, <3>1, <3>2 DEF PollCore, TypeOK, Client
        <3> QED
            BY <2>1, <3>3 DEF PollCore, TypeOK
    <2>2. CASE PollNarratives(c)
        <3>1. YesNo(Existing = RequiredTypes) \in {"unread", "yes", "no"}
            BY DEF YesNo
        <3>2. client[c] \in Client
            BY DEF TypeOK
        <3>3. client'[c] \in Client
            BY <2>2, <3>1, <3>2 DEF PollNarratives, TypeOK, Client
        <3> QED
            BY <2>2, <3>3 DEF PollNarratives, TypeOK
    <2>3. CASE PollAnswers(c)
        BY <2>3 DEF PollAnswers, DataStatus, NotPolling, TypeOK, Client
    <2> QED
        BY <1>5, <2>1, <2>2, <2>3 DEF Poll
<1>6. CASE UNCHANGED vars
    BY <1>6 DEF vars, TypeOK
<1> QED
    BY <1>1, <1>2, <1>3, <1>4, <1>5, <1>6 DEF Next
-----------------------------------------------------------------------------
\* What no step takes away: the core, a narrative, an announcement.
LEMMA ItemsStay ==
    ASSUME TypeOK, [Next]_vars
    PROVE  /\ core => core'
           /\ \A t \in RequiredTypes : item[t] # NoItem => item'[t] = item[t]
           /\ announced => announced'
<1> USE NoItemAssumption DEF NoItemAssumption
<1>1. CASE CommitCore
    BY <1>1 DEF CommitCore
<1>2. ASSUME NEW r \in Runs, RunStep(r) \/ Disturbed(r)
      PROVE  /\ core' = core
             /\ \A t \in RequiredTypes : item[t] # NoItem => item'[t] = item[t]
             /\ announced => announced'
    <2>1. CASE Gate(r) \/ GateRefuses(r) \/ RereadNarratives(r) \/ PushFails(r) \/ Dies(r)
        BY <2>1 DEF Gate, GateRefuses, RereadNarratives, PushFails, Dies
    <2>2. ASSUME NEW t \in RequiredTypes, Branch(r, t)
          PROVE  /\ core' = core
                 /\ \A u \in RequiredTypes : item[u] # NoItem => item'[u] = item[u]
                 /\ announced => announced'
        BY <2>2 DEF Branch, PutNarrative, PutRefused, TypeOK
    <2>3. ASSUME NEW t \in RequiredTypes, PutFails(r, t)
          PROVE  /\ core' = core
                 /\ \A u \in RequiredTypes : item[u] # NoItem => item'[u] = item[u]
                 /\ announced => announced'
        BY <2>3 DEF PutFails, TypeOK
    <2>4. CASE Push(r)
        BY <2>4 DEF Push
    <2> QED
        BY <1>2, <2>1, <2>2, <2>3, <2>4 DEF RunStep, Disturbed
<1>3. ASSUME NEW r \in Runs, RunAgain(r)
      PROVE  UNCHANGED <<core, item, announced>>
    BY <1>3 DEF RunAgain
<1>4. ASSUME NEW c \in Clients, Poll(c)
      PROVE  UNCHANGED <<core, item, announced>>
    BY <1>4 DEF Poll, PollCore, PollNarratives, PollAnswers
<1>5. CASE UNCHANGED vars
    BY <1>5 DEF vars
<1> QED
    BY <1>1, <1>2, <1>3, <1>4, <1>5 DEF Next

\* A complete set stays complete.
LEMMA WholeStays ==
    ASSUME TypeOK, [Next]_vars, Whole
    PROVE  Whole'
BY ItemsStay DEF Whole

\* Where a step can take a run.
LEMMA RunMoves ==
    ASSUME TypeOK, [Next]_vars, NEW q \in Runs
    PROVE  \/ run'[q].pc = run[q].pc
           \/ run[q].pc = "gate" /\ core /\ run'[q].pc = "render"
           \/ run[q].pc = "gate" /\ ~core /\ run'[q].pc = "done"
           \/ run[q].pc = "render" /\ Whole /\ run'[q].pc = "push"
           \/ run[q].pc = "render" /\ ~Whole /\ run'[q].pc = "done"
           \/ run[q].pc = "push" /\ announced' /\ run'[q].pc = "done"
           \/ run'[q].pc \in {"gate", "unannounced", "dead"}
<1>1. CASE CommitCore
    BY <1>1 DEF CommitCore
<1>2. ASSUME NEW r \in Runs, RunStep(r) \/ Disturbed(r) \/ RunAgain(r)
      PROVE  \/ run'[q].pc = run[q].pc
             \/ run[q].pc = "gate" /\ core /\ run'[q].pc = "render"
             \/ run[q].pc = "gate" /\ ~core /\ run'[q].pc = "done"
             \/ run[q].pc = "render" /\ Whole /\ run'[q].pc = "push"
             \/ run[q].pc = "render" /\ ~Whole /\ run'[q].pc = "done"
             \/ run[q].pc = "push" /\ announced' /\ run'[q].pc = "done"
             \/ run'[q].pc \in {"gate", "unannounced", "dead"}
    <2>1. CASE Gate(r)
        BY <2>1 DEF Gate, TypeOK
    <2>2. CASE GateRefuses(r)
        BY <2>2 DEF GateRefuses, GoTo, TypeOK
    <2>3. ASSUME NEW t \in RequiredTypes, Branch(r, t) \/ PutFails(r, t)
          PROVE  run'[q].pc = run[q].pc
        BY <2>3 DEF Branch, PutNarrative, PutRefused, PutFails, Settles, TypeOK, Run
    <2>4. CASE RereadNarratives(r)
        BY <2>4, WholeExists DEF RereadNarratives, Rendered, GoTo, TypeOK
    <2>5. CASE Push(r)
        BY <2>5 DEF Push, GoTo, TypeOK
    <2>6. CASE PushFails(r) \/ Dies(r)
        BY <2>6 DEF PushFails, Dies, GoTo, TypeOK
    <2>7. CASE RunAgain(r)
        BY <2>7 DEF RunAgain, AtGate, TypeOK
    <2> QED
        BY <1>2, <2>1, <2>2, <2>3, <2>4, <2>5, <2>6, <2>7 DEF RunStep, Disturbed
<1>3. ASSUME NEW c \in Clients, Poll(c)
      PROVE  run' = run
    BY <1>3 DEF Poll, PollCore, PollNarratives, PollAnswers
<1>4. CASE UNCHANGED vars
    BY <1>4 DEF vars
<1> QED
    BY <1>1, <1>2, <1>3, <1>4 DEF Next

\* A narrative that appears was put by a run that is rendering, and stays so.
LEMMA WrittenWhileRendering ==
    ASSUME TypeOK, [Next]_vars, NEW t \in RequiredTypes, item'[t] # item[t]
    PROVE  \E r \in Runs : run[r].pc = "render" /\ run'[r].pc = "render"
<1>1. ASSUME NEW r \in Runs, RunStep(r) \/ Disturbed(r)
      PROVE  run[r].pc = "render" /\ run'[r].pc = "render"
    <2>1. PICK u \in RequiredTypes : PutNarrative(r, u) \/ PutFails(r, u)
        BY <1>1 DEF RunStep, Disturbed, Gate, GateRefuses, Branch, PutRefused,
                    RereadNarratives, Push, PushFails, Dies
    <2> QED
        BY <2>1 DEF PutNarrative, PutFails, Rendering, Settles, TypeOK, Run
<1> QED
    BY <1>1 DEF Next, vars, CommitCore, RunAgain, Poll, PollCore, PollNarratives, PollAnswers

\* An announcement is made by a run that was about to push.
LEMMA AnnouncedByAPush ==
    ASSUME TypeOK, [Next]_vars, ~announced, announced'
    PROVE  \E r \in Runs : run[r].pc = "push"
BY DEF Next, vars, CommitCore, RunStep, Gate, GateRefuses, Branch, PutNarrative, PutRefused,
       RereadNarratives, Push, Disturbed, PutFails, PushFails, Dies, RunAgain,
       Poll, PollCore, PollNarratives, PollAnswers
-----------------------------------------------------------------------------
\* The invariant holds initially.  The lemmas after it: each part of it is
\* kept by every step.
LEMMA IInvInit == Init => IInv
<1> SUFFICES ASSUME Init PROVE IInv
    OBVIOUS
<1>1. TypeOK
    BY TypeInit
<1>2. CoreComesFirst /\ PushSeesAll
    BY DEF Init, AtGate, CoreComesFirst, PushSeesAll
<1>3. LastWriterAnnounces
    <2>1. ~Whole
        BY DEF Init, Whole, RequiredTypes
    <2> QED
        BY <2>1, WholeExists DEF LastWriterAnnounces
<1>4. ClientIsBehind
    BY DEF Init, NotPolling, ClientIsBehind, Behind
<1> QED
    BY <1>1, <1>2, <1>3, <1>4 DEF IInv

\* No run gets past its gate, and nothing is written, without a core.
LEMMA CoreComesFirstNext ==
    ASSUME TypeOK, [Next]_vars, CoreComesFirst
    PROVE  CoreComesFirst'
<1>1. ASSUME NEW r \in Runs, run'[r].pc \in {"render", "push"}
      PROVE  core'
    BY <1>1, RunMoves, ItemsStay DEF CoreComesFirst
<1>2. ASSUME NEW t \in RequiredTypes, item'[t] # NoItem
      PROVE  core'
    <2>1. CASE item'[t] = item[t]
        BY <1>2, <2>1, ItemsStay DEF CoreComesFirst
    <2>2. CASE item'[t] # item[t]
        BY <2>2, WrittenWhileRendering, ItemsStay DEF CoreComesFirst
    <2> QED
        BY <2>1, <2>2
<1> QED
    BY <1>1, <1>2 DEF CoreComesFirst

\* A run comes to its push by seeing the whole set.
LEMMA PushSeesAllNext ==
    ASSUME TypeOK, [Next]_vars, PushSeesAll
    PROVE  PushSeesAll'
<1>1. ASSUME NEW r \in Runs, run'[r].pc = "push"
      PROVE  Whole'
    BY <1>1, RunMoves, WholeStays DEF PushSeesAll
<1>2. ASSUME announced' PROVE Whole'
    <2>1. Whole
        BY <1>2, AnnouncedByAPush DEF PushSeesAll
    <2> QED
        BY <2>1, WholeStays
<1> QED
    BY <1>1, <1>2 DEF PushSeesAll

\* Whoever completes the set is still to read it again, and whoever ends
\* without a fault has either announced or not seen it complete.
LEMMA LastWriterNext ==
    ASSUME IInv, [Next]_vars
    PROVE  LastWriterAnnounces'
<1>1. SUFFICES ASSUME \A r \in Runs : run'[r].pc = "done", Whole' PROVE announced'
    BY DEF LastWriterAnnounces, Existing, Whole
<1> USE DEF IInv
<1>2. CASE ~Whole
    <2>1. PICK t \in RequiredTypes : item'[t] # item[t]
        BY <1>1, <1>2 DEF Whole
    <2> QED
        BY <1>1, <2>1, WrittenWhileRendering
<1>3. CASE Whole
    <2>1. core
        BY <1>3 DEF Whole, RequiredTypes, CoreComesFirst
    <2>2. CASE \A r \in Runs : run[r].pc = "done"
        BY <1>3, <2>2, ItemsStay, WholeExists DEF LastWriterAnnounces
    <2>3. ASSUME NEW r \in Runs, run[r].pc # "done" PROVE announced'
        BY <1>1, <1>3, <2>1, <2>3, RunMoves
    <2> QED
        BY <2>2, <2>3
<1> QED
    BY <1>2, <1>3
\* What a step makes of what a client knows.
LEMMA ClientMoves ==
    ASSUME TypeOK, [Next]_vars, NEW c \in Clients
    PROVE  \/ client'[c] = client[c]
           \/ /\ announced'
              /\ \E b \in BOOLEAN : /\ client[c].told => b
                                   /\ client'[c] = [client[c] EXCEPT !.told = b]
           \/ PollCore(c) \/ PollNarratives(c) \/ PollAnswers(c)
<1>1. ASSUME NEW r \in Runs, Push(r)
      PROVE  \/ client'[c] = client[c]
             \/ /\ announced'
                /\ \E b \in BOOLEAN : /\ client[c].told => b
                                     /\ client'[c] = [client[c] EXCEPT !.told = b]
    <2>1. PICK reached \in SUBSET Clients :
              client' = [d \in Clients |-> [client[d] EXCEPT !.told = @ \/ d \in reached]]
        BY <1>1 DEF Push
    <2>2. client'[c] = [client[c] EXCEPT !.told = @ \/ c \in reached]
        BY <2>1
    <2>3. /\ (client[c].told \/ c \in reached) \in BOOLEAN
          /\ client[c].told => client[c].told \/ c \in reached
        OBVIOUS
    <2> QED
        BY <1>1, <2>2, <2>3 DEF Push
<1>2. ASSUME NEW d \in Clients, Poll(d), d # c
      PROVE  client'[c] = client[c]
    BY <1>2 DEF Poll, PollCore, PollNarratives, PollAnswers, TypeOK
<1>3. ASSUME NEW r \in Runs, RunStep(r) \/ Disturbed(r) \/ RunAgain(r), ~Push(r)
      PROVE  client' = client
    BY <1>3 DEF RunStep, Gate, GateRefuses, Branch, PutNarrative, PutRefused,
                RereadNarratives, Disturbed, PutFails, PushFails, Dies, RunAgain
<1>4. CASE CommitCore \/ UNCHANGED vars
    BY <1>4 DEF CommitCore, vars
<1>5. CASE \E r \in Runs : RunStep(r) \/ Disturbed(r) \/ RunAgain(r)
    BY <1>1, <1>3, <1>5
<1>6. CASE \E d \in Clients : Poll(d)
    BY <1>2, <1>6 DEF Poll
<1> QED
    BY <1>4, <1>5, <1>6 DEF Next

\* A poll reads what is true, and starts after the last answer.
LEMMA ClientIsBehindNext ==
    ASSUME IInv, [Next]_vars
    PROVE  ClientIsBehind'
<1> USE DEF IInv
<1> SUFFICES ASSUME NEW c \in Clients
             PROVE  Behind(client'[c], core', announced', Whole')
    BY DEF ClientIsBehind
<1>1. client[c] \in Client /\ Behind(client[c], core, announced, Whole)
    BY DEF TypeOK, ClientIsBehind
<1>2. /\ Whole => core
      /\ announced => Whole
    BY DEF Whole, RequiredTypes, CoreComesFirst, PushSeesAll
<1>3. /\ core => core'
      /\ announced => announced'
      /\ Whole => Whole'
    BY ItemsStay, WholeStays
<1>4. Behind(client[c], core', announced', Whole')
    BY <1>1, <1>3 DEF Behind
<1>5. CASE client'[c] = client[c]
    BY <1>4, <1>5
<1>6. ASSUME announced', NEW b \in BOOLEAN, client[c].told => b,
             client'[c] = [client[c] EXCEPT !.told = b]
      PROVE  Behind(client'[c], core', announced', Whole')
    <2>1. /\ client'[c].polling = client[c].polling /\ client'[c].status = client[c].status
          /\ client'[c].told_first = client[c].told_first /\ client'[c].told = b
        BY <1>1, <1>6 DEF Client
    <2> QED
        BY <1>4, <1>6, <2>1 DEF Behind
<1>7. CASE PollCore(c)
    <2>1. /\ client'[c].told = client[c].told /\ client'[c].status = client[c].status
          /\ client'[c].polling.core = YesNo(core)
          /\ client'[c].polling.complete = client[c].polling.complete
          /\ \/ client[c].polling = NotPolling /\ client'[c].told_first = client[c].told
             \/ client'[c].told_first = client[c].told_first
          /\ core' = core
        BY <1>1, <1>7 DEF PollCore, TypeOK, Client
    <2>2. CASE core
        BY <1>1, <1>2, <1>4, <2>1, <2>2 DEF Behind, YesNo, NotPolling
    <2>3. CASE ~core
        BY <1>1, <1>2, <1>4, <2>1, <2>3 DEF Behind, YesNo
    <2> QED
        BY <2>2, <2>3
<1>8. CASE PollNarratives(c)
    <2>1. /\ client'[c].told = client[c].told /\ client'[c].status = client[c].status
          /\ client'[c].polling.complete = YesNo(Existing = RequiredTypes)
          /\ client'[c].polling.core = client[c].polling.core
          /\ \/ client[c].polling = NotPolling /\ client'[c].told_first = client[c].told
             \/ client'[c].told_first = client[c].told_first
        BY <1>1, <1>8 DEF PollNarratives, TypeOK, Client
    <2>2. CASE Whole
        BY <1>1, <1>2, <1>3, <1>4, <2>1, <2>2, WholeExists DEF Behind, YesNo, NotPolling
    <2>3. CASE ~Whole
        BY <1>1, <1>2, <1>4, <2>1, <2>3, WholeExists DEF Behind, YesNo
    <2> QED
        BY <2>2, <2>3
<1>9. CASE PollAnswers(c)
    <2>1. /\ client'[c].told = client[c].told /\ ~client'[c].told_first
          /\ client'[c].polling = NotPolling
          /\ client'[c].status = DataStatus(client[c].polling)
          /\ client[c].polling.core # "unread"
        BY <1>1, <1>9 DEF PollAnswers, TypeOK, Client
    <2> QED
        BY <1>1, <1>2, <1>4, <2>1 DEF Behind, DataStatus, NotPolling, Client
<1> QED
    BY <1>5, <1>6, <1>7, <1>8, <1>9, ClientMoves

\* The invariant of the narratives, the runs and their readers.
THEOREM Inductive == Spec => []IInv
<1>1. Init => IInv
    BY IInvInit
<1>2. IInv /\ [Next]_vars => IInv'
    BY TypeNext, CoreComesFirstNext, PushSeesAllNext, LastWriterNext, ClientIsBehindNext DEF IInv
<1> QED
    BY <1>1, <1>2, PTL DEF Spec

-----------------------------------------------------------------------------
(* The theorems. *)

\* Every variable keeps its type, however many runs, clients and faults.
THEOREM TypeCorrect == Spec => []TypeOK
<1>1. IInv => TypeOK
    BY DEF IInv
<1> QED
    BY <1>1, Inductive, PTL

\* Whoever finishes last announces the complete set: see LastWriterAnnounces.
THEOREM LastWriter == Spec => []LastWriterAnnounces
<1>1. IInv => LastWriterAnnounces
    BY DEF IInv
<1> QED
    BY <1>1, Inductive, PTL

\* A client's answers never go back, and follow the push: see ReaderKeepsUp.
THEOREM ReaderFollows == Spec => ReaderKeepsUp
<1>1. ASSUME IInv, [Next]_vars, NEW c \in Clients
      PROVE  /\ Rank(client[c].status) <= Rank(client'[c].status)
             /\ PollAnswers(c) /\ client[c].told_first => client'[c].status = "ready"
    <2> USE <1>1 DEF IInv
    <2>1. client[c] \in Client /\ Behind(client[c], core, announced, Whole)
        BY DEF TypeOK, ClientIsBehind
    <2>2. CASE client'[c].status = client[c].status /\ ~PollAnswers(c)
        BY <2>1, <2>2 DEF Client, Rank
    <2>3. CASE PollAnswers(c)
        <3>1. /\ client'[c].status = DataStatus(client[c].polling)
              /\ client[c].polling.core \in {"yes", "no"}
              /\ client[c].polling.complete \in {"yes", "no"}
            BY <2>1, <2>3 DEF PollAnswers, TypeOK, Client
        <3>2. client[c].told_first => client'[c].status = "ready"
            BY <2>1, <3>1 DEF Behind, DataStatus
        <3>3. Rank(client[c].status) <= Rank(client'[c].status)
            BY <2>1, <3>1 DEF Behind, DataStatus, Rank, Client
        <3> QED
            BY <3>2, <3>3
    <2>4. client'[c].status = client[c].status \/ PollAnswers(c)
        <3>1. ASSUME NEW b \in BOOLEAN, client'[c] = [client[c] EXCEPT !.told = b]
              PROVE  client'[c].status = client[c].status
            BY <2>1, <3>1 DEF Client
        <3>2. CASE PollCore(c)
            BY <2>1, <3>2 DEF PollCore, TypeOK, Client
        <3>3. CASE PollNarratives(c)
            BY <2>1, <3>3 DEF PollNarratives, TypeOK, Client
        <3> QED
            BY <3>1, <3>2, <3>3, ClientMoves
    <2> QED
        BY <2>2, <2>3, <2>4
<1>2. IInv /\ [Next]_vars =>
          [\A c \in Clients :
              /\ Rank(client[c].status) <= Rank(client'[c].status)
              /\ PollAnswers(c) /\ client[c].told_first => client'[c].status = "ready"]_vars
    BY <1>1
<1> QED
    BY <1>2, Inductive, PTL DEF Spec, ReaderKeepsUp

\* Any number of concurrent and repeated recoveries implement one write-once
\* set that is announced only when complete: see ImplementsNarrativeSet.
THEOREM Refinement == Spec => ImplementsNarrativeSet
<1>1. Init => NarrativesPromise!Init
    BY DEF Init, NarrativesPromise!Init
<1>2. IInv /\ [Next]_vars => [NarrativesPromise!Next]_NarrativesPromise!vars
    <2> SUFFICES ASSUME IInv, [Next]_vars
                 PROVE  NarrativesPromise!Next \/ UNCHANGED <<item, announced>>
        BY DEF NarrativesPromise!vars
    <2> USE DEF IInv
    <2>1. ASSUME NEW r \in Runs, NEW t \in RequiredTypes, Branch(r, t) \/ PutFails(r, t)
          PROVE  NarrativesPromise!Write(t) \/ UNCHANGED <<item, announced>>
        BY <2>1 DEF Branch, PutNarrative, PutRefused, PutFails, NarrativesPromise!Write
    <2>2. ASSUME NEW r \in Runs, Push(r)
          PROVE  NarrativesPromise!Announce
        BY <2>2 DEF Push, PushSeesAll, Whole, NarrativesPromise!Announce
    <2>3. ASSUME NEW r \in Runs,
                 \/ Gate(r) \/ GateRefuses(r) \/ RereadNarratives(r)
                 \/ PushFails(r) \/ Dies(r) \/ RunAgain(r)
          PROVE  UNCHANGED <<item, announced>>
        BY <2>3 DEF Gate, GateRefuses, RereadNarratives, PushFails, Dies, RunAgain
    <2>4. ASSUME NEW c \in Clients, Poll(c)
          PROVE  UNCHANGED <<item, announced>>
        BY <2>4 DEF Poll, PollCore, PollNarratives, PollAnswers
    <2>5. CASE CommitCore \/ UNCHANGED vars
        BY <2>5 DEF CommitCore, vars
    <2> QED
        BY <2>1, <2>2, <2>3, <2>4, <2>5 DEF Next, RunStep, Disturbed, NarrativesPromise!Next
<1> QED
    BY <1>1, <1>2, Inductive, PTL
       DEF Spec, ImplementsNarrativeSet, NarrativesPromise!Spec
=============================================================================
