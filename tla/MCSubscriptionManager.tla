----------------------- MODULE MCSubscriptionManager -----------------------
(* SubscriptionManager on a small instance. *)
EXTENDS SubscriptionManager, TLC

CONSTANTS MaxSequence,  \* bound on the request sequences used
          MaxHandle     \* bound on the consumer handles used

BoundedNext ==
  /\ Next
  /\ mgr'.nextSequence <= MaxSequence + 1
  /\ mgr'.nextHandle <= MaxHandle + 1

\* mgr.out holds the frames of the last handler and influences no later step.
View == <<[mgr EXCEPT !.out = <<>>], sourceBootId, sessionUp>>

TopicSymmetry == Permutations(TopicId)

BoundedSpec == Init /\ [][BoundedNext]_vars

=============================================================================
