-------------------------- MODULE MCPublishRetries --------------------------
(* PublishRetries for TLC: one commander whose requests name no target state. *)
EXTENDS PublishRetries

CONSTANTS CallIds

MCCalls == [id: CallIds, actor: Actors, target: {None}, reason: {FALSE}]
=============================================================================
