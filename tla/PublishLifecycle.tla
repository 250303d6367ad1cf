-------------------------- MODULE PublishLifecycle --------------------------
(***************************************************************************)
(* What publishing one decision promises, without handlers, versions or    *)
(* claims: an audit log that only grows, by legal transitions that chain;  *)
(* an alert sent at most once per approval on the log; and published only  *)
(* as the answer to an alert that every channel delivered.                 *)
(***************************************************************************)
EXTENDS Naturals, Sequences

CONSTANT Actors

VARIABLES
    log,        \* the audit trail: a sequence of transitions
    alerted,    \* positions of the approvals under which an alert was sent
    delivered   \* those of them whose alert reached every channel

lifecycleVars == <<log, alerted, delivered>>

LifecycleInit == log = <<>> /\ alerted = {} /\ delivered = {}

Current == IF log = <<>> THEN "none" ELSE log[Len(log)].to

Follows == [none |-> {"draft"}, draft |-> {"approved"},
            approved |-> {"published", "publish_failed"},
            publish_failed |-> {"approved"}, published |-> {}]

Transit(actor, to) ==
    /\ to \in Follows[Current]
    /\ to = "published" => Len(log) \in delivered
    /\ log' = Append(log, [actor |-> actor, from |-> Current, to |-> to])
    /\ UNCHANGED <<alerted, delivered>>

SendAlert(v) ==
    /\ v \notin alerted
    /\ log[v].to = "approved"
    /\ alerted' = alerted \cup {v}
    /\ delivered' \in {delivered, delivered \cup {v}}
    /\ UNCHANGED log

LifecycleNext ==
    \/ \E actor \in Actors, to \in {"draft", "approved", "published", "publish_failed"} :
         Transit(actor, to)
    \/ \E v \in 1..Len(log) : SendAlert(v)

LifecycleSpec == LifecycleInit /\ [][LifecycleNext]_lifecycleVars
=============================================================================
