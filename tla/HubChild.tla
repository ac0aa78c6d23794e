------------------------------ MODULE HubChild ------------------------------
(***************************************************************************)
(* A device behind a hub: the child's BtpBackend (lib/protocol/            *)
(* btpbackend.cpp) around its SubscriptionManager, the two directions of   *)
(* the relayed link, and the robot at its far end.                         *)
(*                                                                         *)
(* A child does not shake hands. Its session is the virtual link           *)
(* (lib/core/hubtransport.cpp), its knowledge of the robot's boot is the   *)
(* last MANIFEST_DATA, and hub.peers reports only trigger requests.        *)
(*                                                                         *)
(* The robot and the radio are not part of the repository. They are        *)
(* modelled from what the client relies on: a robot grants a SUBSCRIBE     *)
(* that names its current boot, a second one for the same topic renews     *)
(* the slot under the same identity, it refuses a stale boot, and it       *)
(* loses its grants when it restarts. The link keeps the order of frames   *)
(* and may lose any of them.                                               *)
(***************************************************************************)
EXTENDS SubscriptionManager, SequencesExt

CONSTANTS
  Robot,        \* the source this child stands for
  MaxLoss,      \* bound: frames the radio loses
  MaxDrop,      \* bound: times the virtual link goes down
  MaxBlip,      \* bound: hub.peers reports that change the peer's presence
  MaxLapse,     \* bound: grants the robot loses without restarting
  MaxIdleRetry, \* bound: retries made while the link is down
  SlowAnswers   \* TRUE: the retry timeout may fire with the answer on its way

ASSUME RobotAssumption == Source = {Robot} /\ 1 \in BootId
ASSUME SlowAnswersAssumption == SlowAnswers \in BOOLEAN

VARIABLES
  linkUp,    \* the child's HubTransport is open
  child,     \* the backend's view: catalogReceived, peerBootId, peerOnline
  robot,     \* boot, and subs: key -> [id, rate] granted
  toRobot,   \* frames on their way to the robot
  toDesk,    \* frames on their way back
  granted,   \* history: every [boot, key, id] the robot ever granted
  spent      \* how much of each bound is used up

envVars == <<linkUp, child, robot, toRobot, toDesk, granted, spent>>
allVars == <<vars, envVars>>

ManifestRequest == [type |-> "MANIFEST_REQUEST"]

\* HubTransport::write() refuses while the link is down: those frames are gone.
Transmit(frames) ==
  toRobot' = IF linkUp' THEN toRobot \o frames ELSE toRobot

HCInit ==
  /\ Init
  /\ linkUp = FALSE
  /\ child = [catalogReceived |-> FALSE, peerBootId |-> 0, peerOnline |-> TRUE]
  /\ robot = [boot |-> 1, subs |-> <<>>]
  /\ toRobot = <<>> /\ toDesk = <<>>
  /\ granted = {}
  /\ spent = [loss |-> 0, drop |-> 0, blip |-> 0, lapse |-> 0, idleRetry |-> 0]

-----------------------------------------------------------------------------
(* The child's backend. *)

UserAdds(k, r) ==
  /\ AddSubscriber(k, r)
  /\ UNCHANGED <<linkUp, child, robot, toDesk, granted, spent>>
  /\ Transmit(mgr'.out)

UserRemoves(h) ==
  /\ RemoveSubscriber(h)
  /\ UNCHANGED <<linkUp, child, robot, toDesk, granted, spent>>
  /\ Transmit(mgr'.out)

\* onTransportConnectionChanged(true) of a child: nothing is known of the robot
\* yet; ask for its catalog, then assert the subscriptions.
LinkUp ==
  /\ ~linkUp
  /\ linkUp' = TRUE
  /\ child' = [catalogReceived |-> FALSE, peerBootId |-> 0, peerOnline |-> TRUE]
  /\ SessionEstablished
  /\ Transmit(<<ManifestRequest>> \o mgr'.out)
  /\ UNCHANGED <<robot, toDesk, granted, spent>>

LinkDown ==
  /\ linkUp
  /\ spent.drop < MaxDrop
  /\ spent' = [spent EXCEPT !.drop = @ + 1]
  /\ linkUp' = FALSE
  /\ child' = [catalogReceived |-> FALSE, peerBootId |-> 0, peerOnline |-> TRUE]
  /\ SessionLost
  /\ UNCHANGED <<robot, toRobot, toDesk, granted>>

\* m_childCatalogRetryTimer runs as long as the link is up, at a period far
\* above a round trip: the next shot finds the last one answered or lost.
ManifestTravels == \/ \E i \in DOMAIN toRobot : toRobot[i].type = "MANIFEST_REQUEST"
                   \/ \E i \in DOMAIN toDesk : toDesk[i].type = "MANIFEST_DATA"
CatalogRetry ==
  /\ linkUp
  /\ ~ManifestTravels
  /\ linkUp' = linkUp
  /\ Transmit(<<ManifestRequest>>)
  /\ UNCHANGED <<vars, child, robot, toDesk, granted, spent>>

\* onPeerPresence(): hub.peers, through MainWindow, reports the peer's state.
PeerPresence(online, boot) ==
  LET bootChanged == boot # 0 /\ child.peerBootId # 0 /\ boot # child.peerBootId
      catalogStillMissing == online /\ ~child.catalogReceived
  IN /\ linkUp
     /\ spent.blip < MaxBlip
     /\ spent' = [spent EXCEPT !.blip = @ + 1]
     /\ linkUp' = linkUp
     /\ \/ /\ ~bootChanged /\ ~catalogStillMissing
           /\ child' = [child EXCEPT !.peerOnline = online]
           /\ IF online /\ ~child.peerOnline
                THEN PeerReconnected(Robot) ELSE UNCHANGED vars
           /\ Transmit(IF online /\ ~child.peerOnline THEN mgr'.out ELSE <<>>)
        \/ /\ bootChanged \/ catalogStillMissing
           /\ UNCHANGED vars
           /\ \/ \* asked less than three seconds ago
                 /\ child' = [child EXCEPT !.peerOnline = online]
                 /\ Transmit(<<>>)
              \/ /\ child' = [child EXCEPT !.peerOnline = online, !.catalogReceived = FALSE]
                 /\ Transmit(<<ManifestRequest>>)
     /\ UNCHANGED <<robot, toDesk, granted>>

\* The lease timer. A retry gives up on a request only when its answer is gone,
\* unless answers may be slow; a renewal that would find the robot exactly as
\* the client believes it to be changes nothing and is left out.
AnswerTravels(seq) ==
  \/ \E i \in DOMAIN toRobot : toRobot[i].type = "SUBSCRIBE" /\ toRobot[i].seq = seq
  \/ \E i \in DOMAIN toDesk : toDesk[i].type = "SUBSCRIBE_RESULT" /\ toDesk[i].seq = seq
LateTopics == {k \in InFlightTopics :
                 SlowAnswers \/ ~AnswerTravels(mgr.topics[k].inFlightSequence)}

RobotAgrees(k) == /\ k \in DOMAIN robot.subs
                  /\ robot.boot = mgr.topics[k].targetBootId
                  /\ robot.subs[k] = [id |-> mgr.topics[k].subscriptionId,
                                      rate |-> mgr.topics[k].sentRate]
DueTopics == {k \in RenewableTopics : ~RobotAgrees(k)}

LeaseTimer ==
  /\ linkUp \/ spent.idleRetry < MaxIdleRetry
  /\ spent' = IF linkUp THEN spent ELSE [spent EXCEPT !.idleRetry = @ + 1]
  /\ \E late \in SUBSET LateTopics, due \in SUBSET DueTopics :
       late \cup due # {} /\ RenewDueSubscriptions(late, due)
  /\ UNCHANGED <<linkUp, child, robot, toDesk, granted>>
  /\ Transmit(mgr'.out)

\* Mistake: only the first manifest on a link names the boot.
ReceiveManifestOnce(f) ==
  /\ ManifestData(Robot, f.boot, child.peerBootId # 0 /\ f.boot # child.peerBootId)
  /\ child' = [child EXCEPT !.peerBootId = IF @ = 0 THEN f.boot ELSE @,
                            !.catalogReceived = TRUE]

\* The sourceDescribed handler decides whether MANIFEST_DATA reports a reboot.
ReceiveManifest(f) ==
  /\ ManifestData(Robot, f.boot, child.peerBootId # 0 /\ f.boot # child.peerBootId)
  /\ child' = [child EXCEPT !.peerBootId = f.boot, !.catalogReceived = TRUE]

Unsolicited(f) ==
  \/ f.type = "SUBSCRIBE_RESULT" /\ f.seq \notin DOMAIN mgr.pendingSubscribes
  \/ f.type = "UNSUBSCRIBE_RESULT" /\ f.seq \notin DOMAIN mgr.pendingUnsubscribes

DeskReceives ==
  /\ toDesk # <<>>
  /\ LET f == Head(toDesk)
     IN \/ /\ ~linkUp \/ Unsolicited(f)
           /\ mgr' = Now
           /\ UNCHANGED <<sourceBootId, sessionUp, child>>
        \/ /\ linkUp /\ f.type = "SUBSCRIBE_RESULT"
           /\ SubscribeResult(f.seq, f.status, f.id)
           /\ UNCHANGED child
        \/ /\ linkUp /\ f.type = "UNSUBSCRIBE_RESULT"
           /\ UnsubscribeResult(f.seq)
           /\ UNCHANGED child
        \/ /\ linkUp /\ f.type = "MANIFEST_DATA"
           /\ ReceiveManifest(f)
  /\ toDesk' = Tail(toDesk)
  /\ linkUp' = linkUp
  /\ Transmit(mgr'.out)
  /\ UNCHANGED <<robot, granted, spent>>

-----------------------------------------------------------------------------
(* The robot and the radio (external). *)

RobotSubscribes(f) ==
  IF f.boot # robot.boot
    THEN /\ toDesk' = Append(toDesk, [type |-> "SUBSCRIBE_RESULT", seq |-> f.seq,
                                      status |-> "REJECTED", id |-> 0])
         /\ UNCHANGED <<robot, granted>>
    ELSE \E id \in IF f.key \in DOMAIN robot.subs THEN {robot.subs[f.key].id}
                   ELSE SubscriptionId \ {robot.subs[k].id : k \in DOMAIN robot.subs} :
           /\ robot' = [robot EXCEPT !.subs =
                          With(robot.subs, f.key, [id |-> id, rate |-> f.rate])]
           /\ granted' = granted \cup {[boot |-> robot.boot, key |-> f.key, id |-> id]}
           /\ toDesk' = Append(toDesk, [type |-> "SUBSCRIBE_RESULT", seq |-> f.seq,
                                        status |-> "SUCCESS", id |-> id])

RobotUnsubscribes(f) ==
  /\ robot' = [robot EXCEPT !.subs = Without(robot.subs,
                 {k \in DOMAIN robot.subs : f.boot = robot.boot /\ robot.subs[k].id = f.id})]
  /\ toDesk' = Append(toDesk, [type |-> "UNSUBSCRIBE_RESULT", seq |-> f.seq])
  /\ UNCHANGED granted

RobotReceives ==
  /\ toRobot # <<>>
  /\ LET f == Head(toRobot)
     IN CASE f.type = "SUBSCRIBE" -> RobotSubscribes(f)
          [] f.type = "UNSUBSCRIBE" -> RobotUnsubscribes(f)
          [] f.type = "MANIFEST_REQUEST" ->
               /\ toDesk' = Append(toDesk, [type |-> "MANIFEST_DATA", boot |-> robot.boot])
               /\ UNCHANGED <<robot, granted>>
  /\ toRobot' = Tail(toRobot)
  /\ UNCHANGED <<vars, linkUp, child, spent>>

RobotReboots ==
  /\ robot.boot + 1 \in BootId
  /\ robot' = [boot |-> robot.boot + 1, subs |-> <<>>]
  /\ UNCHANGED <<vars, linkUp, child, toRobot, toDesk, granted, spent>>

\* A grant can lapse at the robot, for one when the renewals were lost.
GrantLapses ==
  /\ spent.lapse < MaxLapse
  /\ spent' = [spent EXCEPT !.lapse = @ + 1]
  /\ \E k \in DOMAIN robot.subs :
       robot' = [robot EXCEPT !.subs = Without(robot.subs, {k})]
  /\ UNCHANGED <<vars, linkUp, child, toRobot, toDesk, granted>>

Lose ==
  /\ spent.loss < MaxLoss
  /\ spent' = [spent EXCEPT !.loss = @ + 1]
  /\ \/ /\ \E i \in DOMAIN toRobot : toRobot' = RemoveAt(toRobot, i)
        /\ UNCHANGED toDesk
     \/ /\ \E i \in DOMAIN toDesk : toDesk' = RemoveAt(toDesk, i)
        /\ UNCHANGED toRobot
  /\ UNCHANGED <<vars, linkUp, child, robot, granted>>

-----------------------------------------------------------------------------
HCNext ==
  \/ \E k \in Key, r \in Rate : UserAdds(k, r)
  \/ \E h \in DOMAIN mgr.subscribers : UserRemoves(h)
  \/ LinkUp \/ LinkDown
  \/ CatalogRetry
  \/ \E online \in BOOLEAN, boot \in {0, robot.boot} : PeerPresence(online, boot)
  \/ LeaseTimer
  \/ DeskReceives
  \/ RobotReceives \/ RobotReboots \/ GrantLapses \/ Lose

\* Qt's event loop runs a timer that stays due and delivers a frame that has
\* arrived; the robot answers what reaches it.
HCFairness ==
  /\ WF_allVars(LeaseTimer) /\ WF_allVars(CatalogRetry)
  /\ WF_allVars(DeskReceives) /\ WF_allVars(RobotReceives)

HCSpec == HCInit /\ [][HCNext]_allVars
HCFairSpec == HCSpec /\ HCFairness

-----------------------------------------------------------------------------
(* The view of the child agrees with the frames it has seen. *)
HCTypeOK ==
  /\ TypeOK
  /\ linkUp = sessionUp
  /\ child \in [catalogReceived : BOOLEAN, peerBootId : BootId \cup {0}, peerOnline : BOOLEAN]
  /\ robot.boot \in BootId
  /\ DOMAIN robot.subs \subseteq Key
  /\ child.peerBootId # 0 => child.peerBootId = sourceBootId[Robot]

Quiet == toRobot = <<>> /\ toDesk = <<>> /\ InFlightTopics = {}

\* Nothing is streamed for nobody: once the link has gone quiet, every topic the
\* robot streams has a consumer. handleSubscribeResult() promises it for a
\* consumer that left early: it "releases the grant the moment it arrives".
StreamIsWanted ==
  Quiet /\ linkUp => \A k \in DOMAIN robot.subs : ConsumersOf(mgr, k) # {}

\* Both ends agree: once the link has gone quiet, a grant the client holds from
\* the current boot is the one the robot serves, at the rate its consumers want.
EndsAgree ==
  Quiet /\ linkUp => \A k \in DOMAIN mgr.topics :
    LET t == mgr.topics[k]
    IN t.subscriptionId # 0 /\ t.targetBootId = robot.boot =>
         /\ k \in DOMAIN robot.subs
         /\ robot.subs[k] = [id |-> t.subscriptionId, rate |-> DesiredRate(mgr, k)]

\* targetBootId is the "boot this subscription was addressed to"
\* (subscriptionmanager.h:180): the identity UNSUBSCRIBE would use for a grant is
\* one that the robot really gave out for this topic in that boot. It is the boot
\* of the catalog: a manifest of another one is turned "into a re-subscribe"
\* (btpbackend.cpp:104-110), and no grant of an earlier boot is renewed, or given
\* up, under an identity the robot has forgotten.
GrantNamesItsBoot ==
  \A k \in DOMAIN mgr.topics :
    LET t == mgr.topics[k]
    IN t.subscriptionId # 0 =>
         /\ t.targetBootId = sourceBootId[Robot]
         /\ [boot |-> t.targetBootId, key |-> k, id |-> t.subscriptionId] \in granted

Refused(k) == /\ k \in DOMAIN mgr.topics
              /\ mgr.topics[k].lastStatus = "REJECTED"
              /\ mgr.topics[k].subscriptionId = 0
              /\ mgr.topics[k].inFlightSequence = 0
Wanted(k) == linkUp /\ ConsumersOf(mgr, k) # {}
Streams(k) == /\ k \in DOMAIN robot.subs
              /\ robot.subs[k].rate = DesiredRate(mgr, k)

\* Every consumer that stays on a link that stays up ends up being served at the
\* rate it needs, whatever was lost, dropped, rebooted or lapsed before, unless
\* the robot's refusal is the last word.
ServedUnlessRefused ==
  \A k \in Key : <>[](Wanted(k) /\ ~Refused(k)) => <>[]Streams(k)

\* The same without the exception. A refusal for a stale boot is meant to be
\* temporary: the remembered rate is cleared "so a later change (a new consumer,
\* a reconnect, a manifest update) retries" (subscriptionmanager.cpp:380-382).
WantedIsServed ==
  \A k \in Key : <>[]Wanted(k) => <>[]Streams(k)
=============================================================================
