--------------------------- MODULE MCPublishFlow ---------------------------
(* PublishFlow for TLC: every body two commanders can send. *)
EXTENDS PublishFlow, TLC

CONSTANTS CallIds

MCCalls == [id: CallIds, actor: Actors, target: States \cup {None}, reason: {TRUE}]
           \cup [id: CallIds, actor: Actors, target: {"publish_failed"}, reason: {FALSE}]

Symmetry == Permutations(Handlers) \cup Permutations(Actors)
=============================================================================
