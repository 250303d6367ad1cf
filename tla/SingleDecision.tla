--------------------------- MODULE SingleDecision ---------------------------
(***************************************************************************)
(* What one injection key promises, without requests, leases, clocks or    *)
(* reads: attempts follow each other, at most one execution claims each,   *)
(* at most one identity is ever decided, only it is announced, and the key *)
(* ends completed with a decision or in a terminal conflict with one.      *)
(*                                                                         *)
(* Deciding and announcing need a claim of some attempt, not of the        *)
(* current one: an execution that was declared stale may still do both.    *)
(***************************************************************************)
EXTENDS Naturals

CONSTANTS Exec, Identities, None

VARIABLES attempt, claims, decision, announced, outcome

abstractVars == <<attempt, claims, decision, announced, outcome>>

AbstractInit ==
    /\ attempt = 0
    /\ claims = {}
    /\ decision = None
    /\ announced = {}
    /\ outcome = "open"

Claimed == \E e \in Exec : <<attempt, e>> \in claims

NewAttempt ==
    /\ outcome = "open"
    /\ attempt' = attempt + 1
    /\ UNCHANGED <<claims, decision, announced, outcome>>

Claim(e) ==
    /\ outcome = "open"
    /\ attempt > 0
    /\ ~Claimed
    /\ claims' = claims \cup {<<attempt, e>>}
    /\ UNCHANGED <<attempt, decision, announced, outcome>>

Choose(i) ==
    /\ outcome = "open"
    /\ claims # {}
    /\ decision = None
    /\ decision' = i
    /\ UNCHANGED <<attempt, claims, announced, outcome>>

Announce ==
    /\ decision # None
    /\ announced' = {decision}
    /\ UNCHANGED <<attempt, claims, decision, outcome>>

Close(how) ==
    /\ outcome = "open"
    /\ Claimed
    /\ decision # None
    /\ outcome' = how
    /\ UNCHANGED <<attempt, claims, decision, announced>>

AbstractNext ==
    \/ NewAttempt
    \/ \E e \in Exec : Claim(e)
    \/ \E i \in Identities : Choose(i)
    \/ Announce
    \/ \E how \in {"completed", "conflict"} : Close(how)

AbstractSpec == AbstractInit /\ [][AbstractNext]_abstractVars
=============================================================================
