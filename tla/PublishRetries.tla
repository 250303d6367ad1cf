---------------------------- MODULE PublishRetries ----------------------------
(* PublishFlow with a history of which client call wrote which transition. *)
EXTENDS PublishFlow

VARIABLE moves  \* the <<call, version>> of each transition written

RetryInit == Init /\ moves = {}

\* The invocation that moves in a step that writes the record is its writer.
RetryNext ==
    /\ Next
    /\ moves' = IF record' = record THEN moves
                ELSE moves \cup {<<handler[h].call, record'.version>> :
                                   h \in {x \in Handlers : handler'[x] # handler[x]}}

RetrySpec == RetryInit /\ [][RetryNext]_<<vars, moves>>

\* "A retry returns the current PublishRecord and does not execute the
\* transition again": one call, however often it is delivered, writes at most
\* one transition.
RetryMovesOnce == \A m, n \in moves : m[1] = n[1] => m = n
=============================================================================
