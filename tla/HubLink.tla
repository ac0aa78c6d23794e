-------------------------------- MODULE HubLink --------------------------------
(***************************************************************************)
(* What a hub promises its children (the header comments of                *)
(* lib/core/hubtransport.h and of DeviceConnection::connectVia): a child   *)
(* is online only while its hub is ready and it has been told which robot  *)
(* it is for, and whenever both hold for long enough it is.                *)
(***************************************************************************)
CONSTANT Child

VARIABLES
  ready,   \* the hub is on the wire and its session is established
  given,   \* given[c]: child c has been given a robot
  online   \* online[c]: child c is shown as connected

vars == <<ready, given, online>>

Served(c) == ready /\ given[c]

Init ==
  /\ ready = FALSE
  /\ given = [c \in Child |-> FALSE]
  /\ online = [c \in Child |-> FALSE]

HubChanges == ready' = ~ready /\ UNCHANGED <<given, online>>

Edit(c) == given' = [given EXCEPT ![c] = ~@] /\ UNCHANGED <<ready, online>>

Serve(c) ==
  /\ Served(c)
  /\ ~online[c]
  /\ online' = [online EXCEPT ![c] = TRUE]
  /\ UNCHANGED <<ready, given>>

Withdraw(c) ==
  /\ ~Served(c)
  /\ online[c]
  /\ online' = [online EXCEPT ![c] = FALSE]
  /\ UNCHANGED <<ready, given>>

Next == HubChanges \/ \E c \in Child : Edit(c) \/ Serve(c) \/ Withdraw(c)

Spec == Init /\ [][Next]_vars

FairSpec == Spec /\ \A c \in Child : WF_vars(Serve(c)) /\ WF_vars(Withdraw(c))
================================================================================
