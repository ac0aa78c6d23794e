----------------------------- MODULE MCHubChild -----------------------------
(* HubChild on a small instance. *)
EXTENDS HubChild

CONSTANTS MaxSequence,  \* bound on the request sequences used
          MaxHandle     \* bound on the consumer handles used

BoundedNext ==
  /\ HCNext
  /\ mgr'.nextSequence <= MaxSequence + 1
  /\ mgr'.nextHandle <= MaxHandle + 1

BoundedSpec == HCInit /\ [][BoundedNext]_allVars
BoundedFairSpec == BoundedSpec /\ HCFairness

\* Retrying settles: after finitely many losses, drops, lapses and reboots the
\* manager stops asking, so the bound on the sequences is never reached (and
\* the liveness properties are not true merely because the model stopped).
NoRetryStorm == mgr.nextSequence <= MaxSequence

\* mgr.out holds the frames of the last handler and influences no later step.
View == <<[mgr EXCEPT !.out = <<>>], sourceBootId, sessionUp, envVars>>
=============================================================================
