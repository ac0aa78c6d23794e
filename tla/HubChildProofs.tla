--------------------------- MODULE HubChildProofs ---------------------------
(***************************************************************************)
(* What a device behind a hub guarantees, for every set of topics, rates,  *)
(* boots and grant identities, and every number of losses, drops, lapses   *)
(* and reboots.                                                            *)
(*                                                                         *)
(* HubChild drives the open manager: each of its steps is one of the       *)
(* manager's, or leaves the object as it is. What SubscriptionDemandProofs *)
(* shows of the manager therefore holds behind a hub. The other half is    *)
(* the order of frames on the two directions of the link.                  *)
(***************************************************************************)
EXTENDS HubChild, SubscriptionDemandProofs, SequenceTheorems

\* Frames to the robot.
UpFrame == Frame \cup {ManifestRequest}

\* Frames from the robot.
DeskFrame == [type : {"SUBSCRIBE_RESULT"}, seq : Nat, status : Status,
              id : SubscriptionId \cup {0}]
               \cup [type : {"UNSUBSCRIBE_RESULT"}, seq : Nat]
               \cup [type : {"MANIFEST_DATA"}, boot : BootId]

ChildView == [catalogReceived : BOOLEAN, peerBootId : BootId \cup {0}, peerOnline : BOOLEAN]

Spent == [loss : Nat, drop : Nat, blip : Nat, lapse : Nat, idleRetry : Nat]

RobotOK(r) ==
  /\ r = [boot |-> r.boot, subs |-> r.subs]
  /\ r.boot \in BootId
  /\ r.subs \in [DOMAIN r.subs -> [id : SubscriptionId, rate : Rate]]
  /\ DOMAIN r.subs \subseteq Key

ChildOK ==
  /\ linkUp = sessionUp
  /\ child \in ChildView
  /\ child.peerBootId # 0 => child.peerBootId = sourceBootId[Robot]

\* The types of everything beside the manager.
LinkTyped ==
  /\ RobotOK(robot)
  /\ toRobot \in Seq(UpFrame)
  /\ toDesk \in Seq(DeskFrame)
  /\ spent \in Spent

HCInv == DemandInv /\ ChildOK /\ LinkTyped

\* The step is a handler of the manager, or the object only forgets the frames
\* it has sent.
ManagerStep ==
  \/ [Next]_vars
  \/ mgr' = Now /\ UNCHANGED <<sourceBootId, sessionUp>>

-----------------------------------------------------------------------------
(* The manager inside the child. *)

\* A frame is told by its type.
LEMMA FrameKinds ==
  /\ \A f \in DeskFrame :
       /\ f.type \in {"SUBSCRIBE_RESULT", "UNSUBSCRIBE_RESULT", "MANIFEST_DATA"}
       /\ f.type = "SUBSCRIBE_RESULT" =>
            f.seq \in Nat /\ f.status \in Status /\ f.id \in SubscriptionId \cup {0}
       /\ f.type = "UNSUBSCRIBE_RESULT" => f.seq \in Nat
       /\ f.type = "MANIFEST_DATA" => f.boot \in BootId
  /\ \A f \in UpFrame :
       /\ f.type \in {"SUBSCRIBE", "UNSUBSCRIBE", "MANIFEST_REQUEST"}
       /\ f.type = "SUBSCRIBE" =>
            f.seq \in Nat /\ f.key \in Key /\ f.boot \in BootId /\ f.rate \in Rate
       /\ f.type = "UNSUBSCRIBE" => f.seq \in Nat /\ f.id \in SubscriptionId
<1>1. \A f \in DeskFrame :
       /\ f.type \in {"SUBSCRIBE_RESULT", "UNSUBSCRIBE_RESULT", "MANIFEST_DATA"}
       /\ f.type = "SUBSCRIBE_RESULT" =>
            f.seq \in Nat /\ f.status \in Status /\ f.id \in SubscriptionId \cup {0}
       /\ f.type = "UNSUBSCRIBE_RESULT" => f.seq \in Nat
       /\ f.type = "MANIFEST_DATA" => f.boot \in BootId
  BY DEF DeskFrame
<1>2. \A f \in UpFrame :
       /\ f.type \in {"SUBSCRIBE", "UNSUBSCRIBE", "MANIFEST_REQUEST"}
       /\ f.type = "SUBSCRIBE" =>
            f.seq \in Nat /\ f.key \in Key /\ f.boot \in BootId /\ f.rate \in Rate
       /\ f.type = "UNSUBSCRIBE" => f.seq \in Nat /\ f.id \in SubscriptionId
  BY DEF UpFrame, Frame, ManifestRequest
<1> QED
  BY <1>1, <1>2

\* The answer to a frame at the head of toDesk is a handler of the manager.
LEMMA DeskStep == ASSUME HCInv, DeskReceives PROVE ManagerStep
<1> DEFINE f == Head(toDesk)
<1>1. f \in DeskFrame
  BY HeadTailProperties DEF HCInv, LinkTyped, DeskReceives
<1>2. f \in DeskFrame /\ Robot \in Source
  BY <1>1, RobotAssumption
<1>3. \/ mgr' = Now /\ UNCHANGED <<sourceBootId, sessionUp, child>>
      \/ linkUp /\ f.type = "SUBSCRIBE_RESULT" /\ SubscribeResult(f.seq, f.status, f.id)
      \/ linkUp /\ f.type = "UNSUBSCRIBE_RESULT" /\ UnsubscribeResult(f.seq)
      \/ linkUp /\ f.type = "MANIFEST_DATA" /\ ReceiveManifest(f)
  BY DEF DeskReceives
<1> HIDE DEF f
<1>4. CASE mgr' = Now /\ UNCHANGED <<sourceBootId, sessionUp, child>>
  BY <1>4 DEF ManagerStep
<1>5. CASE f.type = "SUBSCRIBE_RESULT" /\ SubscribeResult(f.seq, f.status, f.id)
  <2>1. f.seq \in DOMAIN mgr.pendingSubscribes
    BY <1>5 DEF SubscribeResult
  <2>2. f.status \in Status /\ f.id \in SubscriptionId \cup {0}
    BY <1>1, <1>5, FrameKinds
  <2> QED
    BY <1>5, <2>1, <2>2 DEF ManagerStep, Next
<1>6. CASE UnsubscribeResult(f.seq)
  <2>1. f.seq \in DOMAIN mgr.pendingUnsubscribes
    BY <1>6 DEF UnsubscribeResult
  <2> QED
    BY <1>6, <2>1 DEF ManagerStep, Next
<1>7. CASE f.type = "MANIFEST_DATA" /\ ReceiveManifest(f)
  <2> DEFINE rebooted == child.peerBootId # 0 /\ f.boot # child.peerBootId
  <2>1. ManifestData(Robot, f.boot, rebooted)
    BY <1>7 DEF ReceiveManifest
  <2>2. f.boot \in BootId /\ rebooted \in BOOLEAN
    BY <1>1, <1>7, FrameKinds
  <2> HIDE DEF rebooted
  <2> QED
    BY <1>2, <2>1, <2>2 DEF ManagerStep, Next
<1> QED
  BY <1>3, <1>4, <1>5, <1>6, <1>7

\* Every step behind a hub is a step of the open manager.
LEMMA HCNextIsManagerStep == ASSUME HCInv, [HCNext]_allVars PROVE ManagerStep
<1>1. Robot \in Source
  BY RobotAssumption
<1>2. CASE UNCHANGED vars
  BY <1>2 DEF ManagerStep
<1>3. CASE UNCHANGED allVars
  BY <1>2, <1>3 DEF allVars
<1>4. ASSUME NEW k \in Key, NEW r \in Rate, UserAdds(k, r) PROVE ManagerStep
  BY <1>4 DEF UserAdds, ManagerStep, Next
<1>5. ASSUME NEW h \in DOMAIN mgr.subscribers, UserRemoves(h) PROVE ManagerStep
  BY <1>5 DEF UserRemoves, ManagerStep, Next
<1>6. CASE LinkUp
  BY <1>6 DEF LinkUp, ManagerStep, Next
<1>7. CASE LinkDown
  BY <1>7 DEF LinkDown, ManagerStep, Next
<1>8. ASSUME NEW online \in BOOLEAN, NEW boot, PeerPresence(online, boot) PROVE ManagerStep
  <2>1. PeerReconnected(Robot) \/ UNCHANGED vars
    BY <1>8 DEF PeerPresence
  <2> QED
    BY <1>1, <1>2, <2>1 DEF ManagerStep, Next
<1>9. CASE LeaseTimer
  <2>1. PICK late \in SUBSET LateTopics, due \in SUBSET DueTopics :
          RenewDueSubscriptions(late, due)
    BY <1>9 DEF LeaseTimer
  <2>2. late \in SUBSET InFlightTopics /\ due \in SUBSET RenewableTopics
    BY DEF LateTopics, DueTopics
  <2> QED
    BY <2>1, <2>2 DEF ManagerStep, Next
<1>10. CASE DeskReceives
  BY <1>10, DeskStep
<1>11. CASE CatalogRetry \/ RobotReceives \/ RobotReboots \/ GrantLapses \/ Lose
  BY <1>2, <1>11 DEF CatalogRetry, RobotReceives, RobotReboots, GrantLapses, Lose
<1> QED
  BY <1>3, <1>4, <1>5, <1>6, <1>7, <1>8, <1>9, <1>10, <1>11 DEF HCNext

\* What the manager guarantees on its own it guarantees inside the child.
LEMMA ManagerKeeps == ASSUME DemandInv, ManagerStep PROVE DemandInv'
<1>1. CASE [Next]_vars
  BY <1>1, StepDemandInv
<1>2. CASE mgr' = Now /\ UNCHANGED <<sourceBootId, sessionUp>>
  <2>1. /\ Good(Now) /\ CountedExcept(Now, {}) /\ DemandExcept(Now, sessionUp, {})
        /\ sourceBootId \in Boots
    BY NowDemand
  <2>2. sessionUp \in BOOLEAN
    BY DEF DemandInv, IInv
  <2> QED
    BY <1>2, <2>1, <2>2 DEF DemandInv, IInv
<1> QED
  BY <1>1, <1>2 DEF ManagerStep

-----------------------------------------------------------------------------
(* Types of the child, the link and the robot. *)

\* Frames sent join the end of what is on its way, if the link is up.
LEMMA TransmitType ==
  ASSUME toRobot \in Seq(UpFrame), NEW frames \in Seq(UpFrame), Transmit(frames)
  PROVE  toRobot' \in Seq(UpFrame)
BY ConcatProperties DEF Transmit

\* The frames of the manager, the request for a catalog, and nothing, are frames.
LEMMA SentType ==
  ASSUME DemandInv'
  PROVE  /\ mgr'.out \in Seq(UpFrame)
         /\ <<ManifestRequest>> \in Seq(UpFrame)
         /\ <<>> \in Seq(UpFrame)
         /\ <<ManifestRequest>> \o mgr'.out \in Seq(UpFrame)
<1>1. mgr'.out \in Seq(Frame)
  BY DEF DemandInv, IInv, Good, ManagerOK
<1>2. mgr'.out \in Seq(UpFrame)
  BY <1>1, SeqMonotonic DEF UpFrame
<1>3. <<ManifestRequest>> \in Seq(UpFrame) /\ <<>> \in Seq(UpFrame)
  BY DEF UpFrame
<1> QED
  BY <1>2, <1>3, ConcatProperties

\* A sequence less one of its elements.
LEMMA RemoveAtType ==
  ASSUME NEW S, NEW s \in Seq(S), NEW i \in DOMAIN s
  PROVE  RemoveAt(s, i) \in Seq(S)
<1>1. Len(s) \in Nat /\ DOMAIN s = 1..Len(s) /\ \A j \in 1..Len(s) : s[j] \in S
  BY LenProperties, ElementOfSeq
<1>2. SubSeq(s, 1, i-1) \in Seq(S)
  <2>1. \A j \in 1..(i-1) : s[j] \in S
    BY <1>1
  <2>2. 1 \in Int /\ i-1 \in Int
    BY <1>1
  <2> QED
    BY <2>1, <2>2, SubSeqProperties
<1>3. SubSeq(s, i+1, Len(s)) \in Seq(S)
  <2>1. \A j \in (i+1)..Len(s) : s[j] \in S
    BY <1>1
  <2>2. i+1 \in Int /\ Len(s) \in Int
    BY <1>1
  <2> QED
    BY <2>1, <2>2, SubSeqProperties
<1> QED
  BY <1>2, <1>3, ConcatProperties DEF RemoveAt

\* What the robot answers to a frame, and what it makes of its grants.
LEMMA RobotReceivesType ==
  ASSUME LinkTyped, RobotReceives
  PROVE  LinkTyped'
<1> DEFINE f == Head(toRobot)
<1>1. f \in UpFrame /\ toRobot' \in Seq(UpFrame)
  BY HeadTailProperties DEF LinkTyped, RobotReceives
<1>2. spent' = spent
  BY DEF RobotReceives
<1>3. \/ f.type = "SUBSCRIBE" /\ RobotSubscribes(f)
      \/ f.type = "UNSUBSCRIBE" /\ RobotUnsubscribes(f)
      \/ /\ f.type = "MANIFEST_REQUEST"
         /\ toDesk' = Append(toDesk, [type |-> "MANIFEST_DATA", boot |-> robot.boot])
         /\ UNCHANGED robot
  BY <1>1, FrameKinds DEF RobotReceives
<1> SUFFICES RobotOK(robot') /\ toDesk' \in Seq(DeskFrame)
  BY <1>1, <1>2 DEF LinkTyped
<1>4. /\ RobotOK(robot) /\ toDesk \in Seq(DeskFrame)
      /\ \A g \in DeskFrame : Append(toDesk, g) \in Seq(DeskFrame)
  BY AppendProperties DEF LinkTyped
<1> HIDE DEF f
<1>5. CASE f.type = "SUBSCRIBE" /\ RobotSubscribes(f)
  <2>1. f.seq \in Nat /\ f.key \in Key /\ f.rate \in Rate
    BY <1>1, <1>5, FrameKinds
  <2>2. CASE f.boot # robot.boot
    <3>1. /\ toDesk' = Append(toDesk, [type |-> "SUBSCRIBE_RESULT", seq |-> f.seq,
                                       status |-> "REJECTED", id |-> 0])
          /\ robot' = robot
      BY <1>5, <2>2 DEF RobotSubscribes
    <3>2. [type |-> "SUBSCRIBE_RESULT", seq |-> f.seq, status |-> "REJECTED", id |-> 0] \in DeskFrame
      BY <2>1 DEF DeskFrame, Status
    <3> QED
      BY <1>4, <3>1, <3>2
  <2>3. CASE f.boot = robot.boot
    <3>1. PICK id \in IF f.key \in DOMAIN robot.subs THEN {robot.subs[f.key].id}
                   ELSE SubscriptionId \ {robot.subs[k].id : k \in DOMAIN robot.subs} :
           /\ robot' = [robot EXCEPT !.subs =
                          With(robot.subs, f.key, [id |-> id, rate |-> f.rate])]
           /\ toDesk' = Append(toDesk, [type |-> "SUBSCRIBE_RESULT", seq |-> f.seq,
                                        status |-> "SUCCESS", id |-> id])
      BY <1>5, <2>3 DEF RobotSubscribes
    <3>2. id \in SubscriptionId
      BY <1>4, <3>1 DEF RobotOK
    <3>3. [type |-> "SUBSCRIBE_RESULT", seq |-> f.seq, status |-> "SUCCESS", id |-> id] \in DeskFrame
      BY <2>1, <3>2 DEF DeskFrame, Status
    <3>4. [id |-> id, rate |-> f.rate] \in [id : SubscriptionId, rate : Rate]
      BY <2>1, <3>2
    <3>5. /\ robot'.boot = robot.boot
          /\ robot'.subs = With(robot.subs, f.key, [id |-> id, rate |-> f.rate])
          /\ robot' = [boot |-> robot'.boot, subs |-> robot'.subs]
      BY <1>4, <3>1 DEF RobotOK
    <3>6. /\ robot'.subs \in [DOMAIN robot'.subs -> [id : SubscriptionId, rate : Rate]]
          /\ DOMAIN robot'.subs = DOMAIN robot.subs \cup {f.key}
      BY <1>4, <3>4, <3>5 DEF RobotOK, With
    <3> QED
      BY <1>4, <2>1, <3>1, <3>3, <3>5, <3>6 DEF RobotOK
  <2> QED
    BY <2>2, <2>3
<1>6. CASE f.type = "UNSUBSCRIBE" /\ RobotUnsubscribes(f)
  <2> DEFINE gone == {k \in DOMAIN robot.subs : f.boot = robot.boot /\ robot.subs[k].id = f.id}
  <2>1. /\ robot' = [robot EXCEPT !.subs = Without(robot.subs, gone)]
        /\ toDesk' = Append(toDesk, [type |-> "UNSUBSCRIBE_RESULT", seq |-> f.seq])
    BY <1>6 DEF RobotUnsubscribes
  <2>2. [type |-> "UNSUBSCRIBE_RESULT", seq |-> f.seq] \in DeskFrame
    BY <1>1, <1>6, FrameKinds DEF DeskFrame
  <2> HIDE DEF gone
  <2>3. /\ robot'.boot = robot.boot
        /\ robot'.subs = Without(robot.subs, gone)
        /\ robot' = [boot |-> robot'.boot, subs |-> robot'.subs]
    BY <1>4, <2>1 DEF RobotOK
  <2>4. /\ robot'.subs \in [DOMAIN robot'.subs -> [id : SubscriptionId, rate : Rate]]
        /\ DOMAIN robot'.subs \subseteq DOMAIN robot.subs
    BY <1>4, <2>3 DEF RobotOK, Without, Restrict
  <2> QED
    BY <1>4, <2>1, <2>2, <2>3, <2>4 DEF RobotOK
<1>7. CASE /\ toDesk' = Append(toDesk, [type |-> "MANIFEST_DATA", boot |-> robot.boot])
           /\ UNCHANGED robot
  <2>1. [type |-> "MANIFEST_DATA", boot |-> robot.boot] \in DeskFrame
    BY <1>4 DEF DeskFrame, RobotOK
  <2> QED
    BY <1>4, <1>7, <2>1
<1> QED
  BY <1>3, <1>5, <1>6, <1>7

\* The robot's own steps and the radio.
LEMMA EnvironmentType ==
  ASSUME LinkTyped, RobotReboots \/ GrantLapses \/ Lose
  PROVE  LinkTyped'
<1>1. /\ RobotOK(robot) /\ toRobot \in Seq(UpFrame) /\ toDesk \in Seq(DeskFrame)
      /\ spent \in Spent
  BY DEF LinkTyped
<1>2. CASE RobotReboots
  <2>1. robot' = [boot |-> robot.boot + 1, subs |-> <<>>] /\ robot.boot + 1 \in BootId
    BY <1>2 DEF RobotReboots
  <2>2. RobotOK(robot')
    BY <2>1 DEF RobotOK
  <2> QED
    BY <1>1, <1>2, <2>2 DEF RobotReboots, LinkTyped
<1>3. CASE GrantLapses
  <2>1. PICK k \in DOMAIN robot.subs : robot' = [robot EXCEPT !.subs = Without(robot.subs, {k})]
    BY <1>3 DEF GrantLapses
  <2>2. /\ robot'.boot = robot.boot
        /\ robot'.subs = Without(robot.subs, {k})
        /\ robot' = [boot |-> robot'.boot, subs |-> robot'.subs]
    BY <1>1, <2>1 DEF RobotOK
  <2>3. RobotOK(robot')
    BY <1>1, <2>2 DEF RobotOK, Without, Restrict
  <2>4. spent' \in Spent
    BY <1>1, <1>3 DEF GrantLapses, Spent
  <2> QED
    BY <1>1, <1>3, <2>3, <2>4 DEF GrantLapses, LinkTyped
<1>4. CASE Lose
  <2>1. spent' \in Spent
    BY <1>1, <1>4 DEF Lose, Spent
  <2>2. robot' = robot
    BY <1>4 DEF Lose
  <2>3. toRobot' \in Seq(UpFrame) /\ toDesk' \in Seq(DeskFrame)
    BY <1>1, <1>4, RemoveAtType DEF Lose
  <2> QED
    BY <1>1, <2>1, <2>2, <2>3 DEF LinkTyped
<1> QED
  BY <1>2, <1>3, <1>4

\* The steps of the desktop leave the robot alone and send frames.
LEMMA DesktopType ==
  ASSUME LinkTyped, DemandInv', HCNext,
         ~RobotReceives, ~RobotReboots, ~GrantLapses, ~Lose
  PROVE  LinkTyped'
<1>1. /\ RobotOK(robot) /\ toRobot \in Seq(UpFrame) /\ toDesk \in Seq(DeskFrame)
      /\ spent \in Spent
  BY DEF LinkTyped
<1>2. /\ mgr'.out \in Seq(UpFrame) /\ <<ManifestRequest>> \in Seq(UpFrame)
      /\ <<>> \in Seq(UpFrame) /\ <<ManifestRequest>> \o mgr'.out \in Seq(UpFrame)
  BY SentType
<1>3. ASSUME NEW frames \in Seq(UpFrame), Transmit(frames), robot' = robot,
             toDesk' \in Seq(DeskFrame), spent' \in Spent
      PROVE  LinkTyped'
  BY <1>1, <1>3, TransmitType DEF LinkTyped
<1>4. CASE \E k \in Key, r \in Rate : UserAdds(k, r)
  BY <1>1, <1>2, <1>3, <1>4 DEF UserAdds
<1>5. CASE \E h \in DOMAIN mgr.subscribers : UserRemoves(h)
  BY <1>1, <1>2, <1>3, <1>5 DEF UserRemoves
<1>6. CASE LinkUp
  BY <1>1, <1>2, <1>3, <1>6 DEF LinkUp
<1>7. CASE LinkDown
  <2>1. spent' \in Spent
    BY <1>1, <1>7 DEF LinkDown, Spent
  <2> QED
    BY <1>1, <1>7, <2>1 DEF LinkDown, LinkTyped
<1>8. CASE CatalogRetry
  BY <1>1, <1>2, <1>3, <1>8 DEF CatalogRetry
<1>9. ASSUME NEW online \in BOOLEAN, NEW boot, PeerPresence(online, boot) PROVE LinkTyped'
  <2>1. spent' \in Spent
    BY <1>1, <1>9 DEF PeerPresence, Spent
  <2>2. robot' = robot /\ toDesk' = toDesk
    BY <1>9 DEF PeerPresence
  <2>3. Transmit(mgr'.out) \/ Transmit(<<>>) \/ Transmit(<<ManifestRequest>>)
    BY <1>9 DEF PeerPresence
  <2> QED
    BY <1>1, <1>2, <1>3, <2>1, <2>2, <2>3
<1>10. CASE LeaseTimer
  <2>1. spent' \in Spent
    BY <1>1, <1>10 DEF LeaseTimer, Spent
  <2> QED
    BY <1>1, <1>2, <1>3, <1>10, <2>1 DEF LeaseTimer
<1>11. CASE DeskReceives
  <2>1. toDesk' \in Seq(DeskFrame)
    BY <1>1, <1>11, HeadTailProperties DEF DeskReceives
  <2> QED
    BY <1>1, <1>2, <1>3, <1>11, <2>1 DEF DeskReceives
<1> QED
  BY <1>4, <1>5, <1>6, <1>7, <1>8, <1>9, <1>10, <1>11 DEF HCNext

\* The child is open exactly while its manager has a session, and the boot it
\* knows of its robot is the catalog's.
LEMMA ChildStep ==
  ASSUME HCInv, HCNext
  PROVE  ChildOK'
<1>1. /\ linkUp = sessionUp /\ child \in ChildView
      /\ child.peerBootId # 0 => child.peerBootId = sourceBootId[Robot]
      /\ sourceBootId \in Boots /\ Robot \in Source
  BY RobotAssumption DEF HCInv, ChildOK, DemandInv, IInv
<1>2. CASE UNCHANGED <<linkUp, sessionUp, child, sourceBootId>>
  BY <1>1, <1>2 DEF ChildOK
<1>3. CASE LinkUp
  <2>1. /\ linkUp' = TRUE /\ sessionUp' = TRUE
        /\ child' = [catalogReceived |-> FALSE, peerBootId |-> 0, peerOnline |-> TRUE]
    BY <1>3 DEF LinkUp, SessionEstablished
  <2> QED
    BY <2>1 DEF ChildOK, ChildView
<1>4. CASE LinkDown
  <2>1. /\ linkUp' = FALSE /\ sessionUp' = FALSE
        /\ child' = [catalogReceived |-> FALSE, peerBootId |-> 0, peerOnline |-> TRUE]
    BY <1>4 DEF LinkDown, SessionLost
  <2> QED
    BY <2>1 DEF ChildOK, ChildView
<1>5. ASSUME NEW online \in BOOLEAN, NEW boot, PeerPresence(online, boot) PROVE ChildOK'
  <2>1. UNCHANGED <<linkUp, sessionUp, sourceBootId>>
    BY <1>5 DEF PeerPresence, PeerReconnected, vars
  <2>2. \/ child' = [child EXCEPT !.peerOnline = online]
        \/ child' = [child EXCEPT !.peerOnline = online, !.catalogReceived = FALSE]
    BY <1>5 DEF PeerPresence
  <2>3. child' \in ChildView /\ child'.peerBootId = child.peerBootId
    BY <1>1, <2>2 DEF ChildView
  <2> QED
    BY <1>1, <2>1, <2>3 DEF ChildOK
<1>6. CASE DeskReceives
  <2> DEFINE f == Head(toDesk)
  <2>1. f \in DeskFrame
    BY <1>6, HeadTailProperties DEF HCInv, LinkTyped, DeskReceives
  <2>2. CASE linkUp /\ f.type = "MANIFEST_DATA" /\ ReceiveManifest(f)
    <3>1. f.boot \in BootId
      BY <2>1, <2>2, FrameKinds
    <3>2. /\ child' = [child EXCEPT !.peerBootId = f.boot, !.catalogReceived = TRUE]
          /\ sourceBootId' = [sourceBootId EXCEPT ![Robot] = f.boot]
          /\ sessionUp' = sessionUp /\ linkUp' = linkUp
      BY <1>6, <2>2 DEF ReceiveManifest, ManifestData, DeskReceives
    <3> HIDE DEF f
    <3>3. child' \in ChildView /\ child'.peerBootId = f.boot /\ sourceBootId'[Robot] = f.boot
      BY <1>1, <3>1, <3>2 DEF ChildView, Boots
    <3> QED
      BY <1>1, <3>2, <3>3 DEF ChildOK
  <2>3. CASE UNCHANGED <<linkUp, sessionUp, child, sourceBootId>>
    BY <1>2, <2>3
  <2> QED
    BY <1>6, <2>2, <2>3 DEF DeskReceives, SubscribeResult, UnsubscribeResult
<1>7. CASE \E k \in Key, r \in Rate : UserAdds(k, r)
  BY <1>2, <1>7 DEF UserAdds, AddSubscriber
<1>8. CASE \E h \in DOMAIN mgr.subscribers : UserRemoves(h)
  BY <1>2, <1>8 DEF UserRemoves, RemoveSubscriber
<1>9. CASE LeaseTimer
  BY <1>2, <1>9 DEF LeaseTimer, RenewDueSubscriptions
<1>10. CASE CatalogRetry \/ RobotReceives \/ RobotReboots \/ GrantLapses \/ Lose
  BY <1>2, <1>10 DEF CatalogRetry, RobotReceives, RobotReboots, GrantLapses, Lose, vars
<1> QED
  BY <1>3, <1>4, <1>5, <1>6, <1>7, <1>8, <1>9, <1>10 DEF HCNext

\* The child, its manager, the link and the robot start in their types ...
LEMMA InitHCInv == HCInit => HCInv
<1> SUFFICES ASSUME HCInit PROVE HCInv
  OBVIOUS
<1>1. DemandInv
  BY InitDemandInv DEF HCInit
<1>2. /\ linkUp = FALSE /\ sessionUp = FALSE
      /\ child = [catalogReceived |-> FALSE, peerBootId |-> 0, peerOnline |-> TRUE]
      /\ robot = [boot |-> 1, subs |-> <<>>]
      /\ toRobot = <<>> /\ toDesk = <<>>
      /\ spent = [loss |-> 0, drop |-> 0, blip |-> 0, lapse |-> 0, idleRetry |-> 0]
  BY DEF HCInit, Init
<1>3. ChildOK
  BY <1>2 DEF ChildOK, ChildView
<1>4. RobotOK(robot)
  BY <1>2, RobotAssumption DEF RobotOK
<1>5. toRobot \in Seq(UpFrame) /\ toDesk \in Seq(DeskFrame) /\ spent \in Spent
  BY <1>2 DEF Spent
<1> QED
  BY <1>1, <1>3, <1>4, <1>5 DEF HCInv, LinkTyped

\* ... and every step keeps them there.
LEMMA StepHCInv == HCInv /\ [HCNext]_allVars => HCInv'
<1> SUFFICES ASSUME HCInv, [HCNext]_allVars PROVE HCInv'
  OBVIOUS
<1>1. DemandInv'
  BY HCNextIsManagerStep, ManagerKeeps DEF HCInv
<1>2. CASE UNCHANGED allVars
  BY <1>1, <1>2 DEF allVars, vars, envVars, HCInv, ChildOK, LinkTyped
<1>3. CASE HCNext
  <2>1. ChildOK'
    BY <1>3, ChildStep
  <2>2. LinkTyped'
    BY <1>1, <1>3, DesktopType, RobotReceivesType, EnvironmentType DEF HCInv
  <2> QED
    BY <1>1, <2>1, <2>2 DEF HCInv
<1> QED
  BY <1>2, <1>3

\* The types, and that the child and its manager agree on the session and on the
\* boot of the robot.
THEOREM HCTypeCorrect == HCSpec => []HCTypeOK
<1>1. HCInv => HCTypeOK
  <2> SUFFICES ASSUME HCInv PROVE HCTypeOK
    OBVIOUS
  <2>1. TypeOK
    BY DEF HCInv, DemandInv, IInv, Good, TypeOK, Boots
  <2>2. ChildOK /\ robot.boot \in BootId /\ DOMAIN robot.subs \subseteq Key
    BY DEF HCInv, LinkTyped, RobotOK
  <2> QED
    BY <2>1, <2>2 DEF ChildOK, ChildView, HCTypeOK
<1> QED
  BY <1>1, InitHCInv, StepHCInv, PTL DEF HCSpec

\* What the manager guarantees whatever the wire brings it guarantees behind a hub.
THEOREM ManagerHoldsBehindHub ==
  HCSpec => [](InFlightIsPending /\ CountedGrants /\ DemandOnTheWire /\ NoConsumerForgotten)
<1>1. DemandInv => InFlightIsPending /\ CountedGrants
  BY DEF DemandInv, IInv, Good, Correlated, InFlightIsPending, CountedExcept, CountedGrants
<1> QED
  BY <1>1, DemandInvShows, InitHCInv, StepHCInv, PTL DEF HCSpec, HCInv

-----------------------------------------------------------------------------
(* What a handler makes of the grants and requests of the object it starts   *)
(* with. b is the boot of the robot that the catalog names meanwhile.        *)

\* Every SUBSCRIBE of the handler has a sequence of its own, from q on, and the
\* topic that waits for it is the one it names, with the boot it names.
Asks(m, q) ==
  \A i \in DOMAIN m.out : m.out[i].type = "SUBSCRIBE" =>
    /\ m.out[i].seq \in q..(m.nextSequence - 1)
    /\ \A k \in DOMAIN m.topics : m.topics[k].inFlightSequence = m.out[i].seq =>
         m.out[i].key = k /\ m.out[i].boot = m.topics[k].targetBootId

\* A grant of m is one of m0; its topic is addressed as before, or to b.
GrantStays(b, m0, m, k) ==
  m.topics[k].subscriptionId # 0 =>
    /\ k \in DOMAIN m0.topics
    /\ m.topics[k].subscriptionId = m0.topics[k].subscriptionId
    /\ m.topics[k].targetBootId \in {m0.topics[k].targetBootId, b}

\* A request of m is one of m0, or a new one, addressed to b.
RequestStays(b, m0, m, k) ==
  m.topics[k].inFlightSequence # 0 =>
    \/ /\ k \in DOMAIN m0.topics
       /\ m.topics[k].inFlightSequence = m0.topics[k].inFlightSequence
       /\ m.topics[k].targetBootId = m0.topics[k].targetBootId
    \/ /\ m.topics[k].inFlightSequence >= m0.nextSequence
       /\ m.topics[k].targetBootId = b

Moved(b, m0, m) ==
  /\ m0.nextSequence \in 1..m.nextSequence
  /\ Asks(m, m0.nextSequence)
  /\ \A k \in DOMAIN m.topics : GrantStays(b, m0, m, k) /\ RequestStays(b, m0, m, k)

\* A handler starts with nothing sent.
LEMMA MovedStart ==
  ASSUME NEW b, NEW m, Good(m), m.out = <<>>
  PROVE  Moved(b, m, m)
BY DEF Moved, Asks, GrantStays, RequestStays, Good, ManagerOK

\* n is m with some grants and requests forgotten, and no more SUBSCRIBE sent.
Fewer(m, n) ==
  /\ n.nextSequence \in Nat /\ n.nextSequence >= m.nextSequence
  /\ \A i \in DOMAIN n.out : n.out[i].type = "SUBSCRIBE" =>
       i \in DOMAIN m.out /\ n.out[i] = m.out[i]
  /\ \A k \in DOMAIN n.topics :
       /\ n.topics[k].subscriptionId # 0 =>
            /\ k \in DOMAIN m.topics
            /\ n.topics[k].subscriptionId = m.topics[k].subscriptionId
            /\ n.topics[k].targetBootId = m.topics[k].targetBootId
       /\ n.topics[k].inFlightSequence # 0 =>
            /\ k \in DOMAIN m.topics
            /\ n.topics[k].inFlightSequence = m.topics[k].inFlightSequence
            /\ n.topics[k].targetBootId = m.topics[k].targetBootId

\* Forgetting adds nothing.
LEMMA FewerMoved ==
  ASSUME NEW b, NEW m0, NEW m, Good(m), Moved(b, m0, m), NEW n, Fewer(m, n)
  PROVE  Moved(b, m0, n)
<1>1. m.nextSequence \in Nat /\ m0.nextSequence \in 1..m.nextSequence
  BY DEF Good, ManagerOK, Moved
<1>2. m0.nextSequence \in 1..n.nextSequence
  BY <1>1 DEF Fewer
<1>3. Asks(n, m0.nextSequence)
  <2> SUFFICES ASSUME NEW i \in DOMAIN n.out, n.out[i].type = "SUBSCRIBE"
               PROVE  /\ n.out[i].seq \in m0.nextSequence..(n.nextSequence - 1)
                      /\ \A k \in DOMAIN n.topics : n.topics[k].inFlightSequence = n.out[i].seq =>
                           n.out[i].key = k /\ n.out[i].boot = n.topics[k].targetBootId
    BY DEF Asks
  <2>1. i \in DOMAIN m.out /\ n.out[i] = m.out[i]
    BY DEF Fewer
  <2>2. /\ m.out[i].seq \in m0.nextSequence..(m.nextSequence - 1)
        /\ \A k \in DOMAIN m.topics : m.topics[k].inFlightSequence = m.out[i].seq =>
             m.out[i].key = k /\ m.out[i].boot = m.topics[k].targetBootId
    BY <2>1 DEF Moved, Asks
  <2>3. n.out[i].seq \in m0.nextSequence..(n.nextSequence - 1) /\ n.out[i].seq # 0
    BY <1>1, <2>1, <2>2 DEF Fewer
  <2> QED
    BY <2>1, <2>2, <2>3 DEF Fewer
<1>4. ASSUME NEW k \in DOMAIN n.topics
      PROVE  GrantStays(b, m0, n, k) /\ RequestStays(b, m0, n, k)
  BY DEF Moved, Fewer, GrantStays, RequestStays
<1> QED
  BY <1>2, <1>3, <1>4 DEF Moved

\* m becomes r by asking for the n topics of order, addressed to b.
Addressed(m, r, n, order, b) ==
  /\ r.nextSequence = m.nextSequence + n
  /\ Len(r.out) = Len(m.out) + n /\ DOMAIN r.out = 1 .. (Len(m.out) + n)
  /\ \A i \in 1 .. Len(m.out) : r.out[i] = m.out[i]
  /\ \A i \in 1 .. n : /\ r.out[Len(m.out) + i].type = "SUBSCRIBE"
                       /\ r.out[Len(m.out) + i].seq = m.nextSequence + i - 1
                       /\ r.out[Len(m.out) + i].key = order[i]
                       /\ r.out[Len(m.out) + i].boot = b
                       /\ r.out[Len(m.out) + i].rate = DesiredRate(m, order[i])
  /\ DOMAIN r.topics = DOMAIN m.topics
  /\ \A k \in DOMAIN m.topics :
       IF \E i \in 1..n : order[i] = k
         THEN /\ r.topics[k].subscriptionId = m.topics[k].subscriptionId
              /\ r.topics[k].targetBootId = b
              /\ r.topics[k].sentRate = DesiredRate(m, k)
              /\ ~r.topics[k].deferredForBootId
              /\ \E i \in 1..n : order[i] = k /\ r.topics[k].inFlightSequence = m.nextSequence + i - 1
         ELSE r.topics[k] = m.topics[k]

\* The frames of sendSubscribe() name the topics that wait for them.
LEMMA RequestAddressed ==
  ASSUME NEW m, Good(m), NEW boots \in Boots,
         NEW n \in Nat, NEW order \in [1..n -> DOMAIN m.topics]
  PROVE  Addressed(m, Request(m, boots, order), n, order, boots[Robot])
<1> DEFINE r == Request(m, boots, order)
           asked == {order[i] : i \in 1..n}
           index(k) == CHOOSE i \in 1..n : order[i] = k
           seqOf(k) == m.nextSequence - 1 + index(k)
           frame(i) == [type |-> "SUBSCRIBE", seq |-> m.nextSequence + i - 1,
                        key |-> order[i], boot |-> boots[SourceOf(order[i])],
                        rate |-> DesiredRate(m, order[i])]
           asking(k) == [m.topics[k] EXCEPT !.targetBootId = boots[SourceOf(k)],
                                            !.sentRate = DesiredRate(m, k),
                                            !.inFlightSequence = seqOf(k),
                                            !.deferredForBootId = FALSE]
<1>1. Len(order) = n
  OBVIOUS
<1>2. r.topics = [k \in DOMAIN m.topics |-> IF k \in asked THEN asking(k) ELSE m.topics[k]]
  BY <1>1 DEF Request, Good, ManagerOK, Members
<1>3. r.out = m.out \o [i \in 1..n |-> frame(i)] /\ r.nextSequence = m.nextSequence + n
  BY <1>1 DEF Request, Good, ManagerOK, Members
<1> HIDE DEF r
<1>4. m.out \in Seq(Frame) /\ m.nextSequence \in Nat \ {0}
  BY DEF Good, ManagerOK
<1>40. \A k \in DOMAIN m.topics : k \in Key /\ boots[SourceOf(k)] = boots[Robot]
  BY KeyType, RobotAssumption DEF Good, ManagerOK
<1>5. \A i \in 1..n : /\ frame(i).type = "SUBSCRIBE"
                      /\ frame(i).seq = m.nextSequence + i - 1
                      /\ frame(i).key = order[i]
                      /\ frame(i).boot = boots[Robot]
                      /\ frame(i).rate = DesiredRate(m, order[i])
  BY <1>40
<1> DEFINE frames == {frame(i) : i \in 1..n}
<1>50. \A i \in 1..n : frame(i) \in frames
  OBVIOUS
<1> HIDE DEF frame, frames
<1>51. [i \in 1..n |-> frame(i)] \in Seq(frames)
  BY <1>50
<1>6. /\ Len(r.out) = Len(m.out) + n /\ DOMAIN r.out = 1 .. (Len(m.out) + n)
      /\ \A i \in 1 .. Len(m.out) : r.out[i] = m.out[i]
      /\ \A i \in 1 .. n : r.out[Len(m.out) + i] = frame(i)
  BY <1>3, <1>4, <1>51
<1>7. ASSUME NEW k \in DOMAIN m.topics
      PROVE  IF \E i \in 1..n : order[i] = k
               THEN /\ r.topics[k].subscriptionId = m.topics[k].subscriptionId
                    /\ r.topics[k].targetBootId = boots[Robot]
                    /\ r.topics[k].sentRate = DesiredRate(m, k)
                    /\ ~r.topics[k].deferredForBootId
                    /\ \E i \in 1..n :
                         order[i] = k /\ r.topics[k].inFlightSequence = m.nextSequence + i - 1
               ELSE r.topics[k] = m.topics[k]
  <2>1. m.topics[k] \in Topic
    BY DEF Good, ManagerOK
  <2>2. CASE k \in asked
    <3>1. index(k) \in 1..n /\ order[index(k)] = k
      BY <2>2
    <3> HIDE DEF index
    <3>2. seqOf(k) = m.nextSequence + index(k) - 1
      BY <1>4, <3>1
    <3> HIDE DEF seqOf
    <3>3. r.topics[k] = asking(k)
      BY <1>2, <2>2
    <3>4. /\ asking(k).subscriptionId = m.topics[k].subscriptionId
          /\ asking(k).inFlightSequence = seqOf(k)
          /\ asking(k).targetBootId = boots[SourceOf(k)]
          /\ asking(k).sentRate = DesiredRate(m, k)
          /\ asking(k).deferredForBootId = FALSE
      BY <2>1 DEF Topic
    <3> HIDE DEF asking
    <3> QED
      BY <1>40, <3>1, <3>2, <3>3, <3>4
  <2>3. CASE k \notin asked
    BY <1>2, <2>3
  <2> QED
    BY <2>2, <2>3
<1>8. DOMAIN r.topics = DOMAIN m.topics
  BY <1>2
<1>9. \A i \in 1 .. n : /\ r.out[Len(m.out) + i].type = "SUBSCRIBE"
                        /\ r.out[Len(m.out) + i].seq = m.nextSequence + i - 1
                        /\ r.out[Len(m.out) + i].key = order[i]
                        /\ r.out[Len(m.out) + i].boot = boots[Robot]
                        /\ r.out[Len(m.out) + i].rate = DesiredRate(m, order[i])
  BY <1>5, <1>6
<1>10. Addressed(m, r, n, order, boots[Robot])
  BY <1>3, <1>6, <1>7, <1>8, <1>9 DEF Addressed
<1> QED
  BY <1>10 DEF r

\* Requests that stay are older than m.nextSequence: no topic waits for a frame
\* of another.
LEMMA OldRequests ==
  ASSUME NEW m, Good(m), NEW k \in DOMAIN m.topics
  PROVE  m.topics[k].inFlightSequence \in 0..(m.nextSequence - 1)
<1>1. m.topics[k] \in Topic /\ m.nextSequence \in Nat \ {0}
  BY DEF Good, ManagerOK
<1>2. m.topics[k].inFlightSequence # 0 => m.topics[k].inFlightSequence \in 1..(m.nextSequence - 1)
  BY DEF Good, ManagerOK, Correlated
<1> QED
  BY <1>1, <1>2 DEF Topic

\* Asking adds requests of its own.
LEMMA AddressedMoved ==
  ASSUME NEW b, NEW m0, NEW m, Good(m), Moved(b, m0, m),
         NEW n \in Nat, NEW order, NEW r, Addressed(m, r, n, order, b)
  PROVE  Moved(b, m0, r)
<1>1. /\ m.nextSequence \in Nat /\ m0.nextSequence \in 1..m.nextSequence
      /\ Len(m.out) \in Nat /\ DOMAIN m.out = 1 .. Len(m.out)
  BY OutLen DEF Good, ManagerOK, Moved
<1>2. m0.nextSequence \in 1..r.nextSequence
  BY <1>1 DEF Addressed
<1>3. Asks(r, m0.nextSequence)
  <2> SUFFICES ASSUME NEW i \in DOMAIN r.out, r.out[i].type = "SUBSCRIBE"
               PROVE  /\ r.out[i].seq \in m0.nextSequence..(r.nextSequence - 1)
                      /\ \A k \in DOMAIN r.topics : r.topics[k].inFlightSequence = r.out[i].seq =>
                           r.out[i].key = k /\ r.out[i].boot = r.topics[k].targetBootId
    BY DEF Asks
  <2>1. CASE i \in 1 .. Len(m.out)
    <3>1. r.out[i] = m.out[i] /\ i \in DOMAIN m.out
      BY <1>1, <2>1 DEF Addressed
    <3>2. /\ m.out[i].seq \in m0.nextSequence..(m.nextSequence - 1)
          /\ \A k \in DOMAIN m.topics : m.topics[k].inFlightSequence = m.out[i].seq =>
               m.out[i].key = k /\ m.out[i].boot = m.topics[k].targetBootId
      BY <3>1 DEF Moved, Asks
    <3>3. r.out[i].seq \in m0.nextSequence..(r.nextSequence - 1) /\ r.out[i].seq < m.nextSequence
      <4>1. r.nextSequence = m.nextSequence + n
        BY DEF Addressed
      <4>2. r.out[i].seq \in m0.nextSequence..(m.nextSequence - 1)
        BY <3>1, <3>2
      <4> QED
        BY <1>1, <4>1, <4>2
    <3>4. ASSUME NEW k \in DOMAIN r.topics, r.topics[k].inFlightSequence = r.out[i].seq
          PROVE  r.topics[k] = m.topics[k] /\ k \in DOMAIN m.topics
      <4>1. k \in DOMAIN m.topics
        BY DEF Addressed
      <4>2. r.topics[k].inFlightSequence < m.nextSequence
        BY <3>3, <3>4
      <4>3. ASSUME NEW l \in 1..n, order[l] = k PROVE FALSE
        <5>1. \E h \in 1..n : order[h] = k
          BY <4>3
        <5>2. \E h \in 1..n : order[h] = k /\ r.topics[k].inFlightSequence = m.nextSequence + h - 1
          BY <4>1, <5>1 DEF Addressed
        <5>3. PICK h \in 1..n : r.topics[k].inFlightSequence = m.nextSequence + h - 1
          BY <5>2
        <5> QED
          BY <1>1, <4>2, <5>3
      <4> QED
        BY <4>1, <4>3 DEF Addressed
    <3> QED
      BY <3>1, <3>2, <3>3, <3>4
  <2>2. CASE i \notin 1 .. Len(m.out)
    <3> DEFINE j == i - Len(m.out)
    <3>1. j \in 1..n /\ i = Len(m.out) + j
      <4>1. i \in 1 .. (Len(m.out) + n)
        BY DEF Addressed
      <4> QED
        BY <1>1, <2>2, <4>1
    <3> HIDE DEF j
    <3>2. r.out[i].seq = m.nextSequence + j - 1 /\ r.out[i].key = order[j] /\ r.out[i].boot = b
      BY <3>1 DEF Addressed
    <3>3. r.out[i].seq \in m0.nextSequence..(r.nextSequence - 1) /\ r.out[i].seq >= m.nextSequence
      <4>1. r.nextSequence = m.nextSequence + n
        BY DEF Addressed
      <4> QED
        BY <1>1, <3>1, <3>2, <4>1
    <3>4. ASSUME NEW k \in DOMAIN r.topics, r.topics[k].inFlightSequence = r.out[i].seq
          PROVE  r.out[i].key = k /\ r.out[i].boot = r.topics[k].targetBootId
      <4>1. k \in DOMAIN m.topics
        BY DEF Addressed
      <4>2. m.topics[k].inFlightSequence \in 0..(m.nextSequence - 1)
        BY <4>1, OldRequests
      <4>3. r.topics[k] # m.topics[k]
        BY <1>1, <3>3, <3>4, <4>2
      <4>4. PICK l \in 1..n : order[l] = k /\ r.topics[k].inFlightSequence = m.nextSequence + l - 1
        BY <4>1, <4>3 DEF Addressed
      <4>5. l = j
        BY <1>1, <3>1, <3>2, <3>4, <4>4
      <4>6. r.topics[k].targetBootId = b
        BY <4>1, <4>3 DEF Addressed
      <4> QED
        BY <3>2, <4>4, <4>5, <4>6
    <3> QED
      BY <3>3, <3>4
  <2> QED
    BY <2>1, <2>2
<1>4. ASSUME NEW k \in DOMAIN r.topics
      PROVE  GrantStays(b, m0, r, k) /\ RequestStays(b, m0, r, k)
  <2>1. k \in DOMAIN m.topics
    BY DEF Addressed
  <2>2. GrantStays(b, m0, m, k) /\ RequestStays(b, m0, m, k)
    BY <2>1 DEF Moved
  <2>3. CASE r.topics[k] = m.topics[k]
    BY <2>2, <2>3 DEF GrantStays, RequestStays
  <2>4. CASE r.topics[k] # m.topics[k]
    <3>1. /\ r.topics[k].subscriptionId = m.topics[k].subscriptionId
          /\ r.topics[k].targetBootId = b
          /\ \E i \in 1..n : r.topics[k].inFlightSequence = m.nextSequence + i - 1
      BY <2>1, <2>4 DEF Addressed
    <3>2. r.topics[k].inFlightSequence >= m0.nextSequence
      BY <1>1, <3>1
    <3> QED
      BY <2>2, <3>1, <3>2 DEF GrantStays, RequestStays
  <2> QED
    BY <2>3, <2>4
<1> QED
  BY <1>2, <1>3, <1>4 DEF Moved

\* Most methods send nothing.
LEMMA SilentlyFewer ==
  ASSUME NEW m, Good(m), NEW n, n.out = m.out, n.nextSequence = m.nextSequence,
         \A k \in DOMAIN n.topics :
           /\ n.topics[k].subscriptionId # 0 =>
                /\ k \in DOMAIN m.topics
                /\ n.topics[k].subscriptionId = m.topics[k].subscriptionId
                /\ n.topics[k].targetBootId = m.topics[k].targetBootId
           /\ n.topics[k].inFlightSequence # 0 =>
                /\ k \in DOMAIN m.topics
                /\ n.topics[k].inFlightSequence = m.topics[k].inFlightSequence
                /\ n.topics[k].targetBootId = m.topics[k].targetBootId
  PROVE  Fewer(m, n)
BY DEF Fewer, Good, ManagerOK

-----------------------------------------------------------------------------
(* What a handler says of each topic: at most one word.                      *)

\* The topic holds a grant or waits for an answer.
Live(m, k) ==
  /\ k \in DOMAIN m.topics
  /\ m.topics[k].subscriptionId # 0 \/ m.topics[k].inFlightSequence # 0

\* What the far end can know of a topic is the same in m and n, and no request
\* is held back that was not.
Kept(m, n, k) ==
  Live(m, k) \/ Live(n, k) =>
    /\ k \in DOMAIN m.topics /\ k \in DOMAIN n.topics
    /\ n.topics[k].subscriptionId = m.topics[k].subscriptionId
    /\ n.topics[k].inFlightSequence = m.topics[k].inFlightSequence
    /\ n.topics[k].targetBootId = m.topics[k].targetBootId
    /\ n.topics[k].sentRate = m.topics[k].sentRate
    /\ n.topics[k].deferredForBootId => m.topics[k].deferredForBootId

SilentOn(m, k) == \A j \in DOMAIN m.out : m.out[j].key # k

\* The word at i is the only one about k.
OneWord(m, k, i) ==
  /\ i \in DOMAIN m.out /\ m.out[i].key = k
  /\ \A j \in DOMAIN m.out : m.out[j].key = k => j = i

\* It asks for k, addressed to b.
Requests(b, m0, m, k) ==
  /\ b # 0 /\ k \in DOMAIN m.topics
  /\ m.topics[k].inFlightSequence >= m0.nextSequence
  /\ m.topics[k].targetBootId = b
  /\ ~m.topics[k].deferredForBootId
  /\ \E i : /\ OneWord(m, k, i)
            /\ m.out[i].type = "SUBSCRIBE" /\ m.out[i].boot = b
            /\ m.out[i].seq = m.topics[k].inFlightSequence
            /\ m.out[i].rate = m.topics[k].sentRate

\* It gives up the grant of k, and forgets the rate of a request under way.
Releases(m0, m, k) ==
  /\ k \in DOMAIN m0.topics /\ m0.topics[k].subscriptionId # 0
  /\ \E i : /\ OneWord(m, k, i)
            /\ m.out[i].type = "UNSUBSCRIBE"
            /\ m.out[i].boot = m0.topics[k].targetBootId
            /\ m.out[i].id = m0.topics[k].subscriptionId
  /\ IF m0.topics[k].inFlightSequence = 0 THEN ~Live(m, k)
     ELSE /\ k \in DOMAIN m.topics
          /\ m.topics[k].subscriptionId = 0 /\ m.topics[k].sentRate = 0
          /\ m.topics[k].inFlightSequence = m0.topics[k].inFlightSequence
          /\ m.topics[k].targetBootId = m0.topics[k].targetBootId
          /\ m.topics[k].deferredForBootId => m0.topics[k].deferredForBootId

\* A handler that started with m0 ends with m. The requests of the topics L were
\* given up without a word.
Acted(b, m0, m, L) ==
  /\ Moved(b, m0, m)
  /\ \A k \in Key : \/ SilentOn(m, k) /\ Kept(m0, m, k)
                    \/ Requests(b, m0, m, k)
                    \/ Releases(m0, m, k)
                    \/ k \in L /\ SilentOn(m, k) /\ ~Live(m, k)

\* The handler has said nothing yet, and has given up requests of topics in A
\* only. Without a boot to address there is nothing live.
Prepared(b, m0, m, A) ==
  /\ Good(m) /\ m0.out = <<>> /\ m.out = <<>> /\ m.nextSequence = m0.nextSequence
  /\ Moved(b, m0, m)
  /\ \A k \in Key \ A : Kept(m0, m, k)
  /\ b = 0 => \A k \in Key : ~Live(m, k)

\* m becomes n without a word and without a change to what is live.
Hushed(m, n) ==
  /\ Good(n) /\ n.out = m.out /\ n.nextSequence = m.nextSequence
  /\ \A k \in Key : Kept(m, n, k)

\* A handler starts prepared.
LEMMA StartPrepared ==
  ASSUME NEW b, NEW m, Good(m), m.out = <<>>, b = 0 => \A k \in Key : ~Live(m, k)
  PROVE  Prepared(b, m, m, {})
<1>1. \A k : Kept(m, m, k)
  BY DEF Kept, Live
<1> QED
  BY <1>1, MovedStart DEF Prepared

\* A quiet change forgets nothing that counts.
LEMMA HushedFewer ==
  ASSUME NEW m, Good(m), NEW n, Hushed(m, n)
  PROVE  Fewer(m, n)
<1>1. \A k \in DOMAIN n.topics : k \in Key
  BY DEF Hushed, Good, ManagerOK
<1> QED
  BY <1>1, SilentlyFewer DEF Hushed, Kept, Live

\* What is kept twice is kept.
LEMMA KeptTwice ==
  ASSUME NEW m0, NEW m, NEW n, NEW k, Kept(m0, m, k), Kept(m, n, k)
  PROVE  Kept(m0, n, k)
<1>1. Live(m0, k) \/ Live(n, k) => Live(m, k)
  BY DEF Kept, Live
<1> QED
  BY <1>1 DEF Kept

\* It leaves the handler prepared.
LEMMA HushedPrepared ==
  ASSUME NEW b, NEW m0, NEW m, NEW A, Prepared(b, m0, m, A), NEW n, Hushed(m, n)
  PROVE  Prepared(b, m0, n, A)
<1>1. Moved(b, m0, n)
  BY HushedFewer, FewerMoved DEF Prepared
<1>2. \A k \in Key \ A : Kept(m0, n, k)
  BY KeptTwice DEF Prepared, Hushed
<1>3. \A k \in Key : Live(n, k) => Live(m, k)
  BY DEF Hushed, Kept, Live
<1> QED
  BY <1>1, <1>2, <1>3 DEF Prepared, Hushed

\* A handler may end without a word.
LEMMA SilentlyActed ==
  ASSUME NEW b, NEW m0, NEW m, Prepared(b, m0, m, {})
  PROVE  Acted(b, m0, m, {})
<1>1. \A k : SilentOn(m, k)
  BY DEF Prepared, SilentOn
<1> QED
  BY <1>1 DEF Prepared, Acted

\* Holding requests back.
LEMMA DeferHushed ==
  ASSUME NEW m, Good(m), NEW K, \A k \in K : ~Live(m, k)
  PROVE  Hushed(m, Defer(m, K))
<1> DEFINE n == Defer(m, K)
<1>1. /\ n.topics = [k \in DOMAIN m.topics |->
            IF k \in K THEN [m.topics[k] EXCEPT !.deferredForBootId = TRUE] ELSE m.topics[k]]
      /\ n.out = m.out /\ n.nextSequence = m.nextSequence
  BY DEF Good, ManagerOK, Members, Defer
<1>2. Good(n)
  BY DeferOK
<1> HIDE DEF n
<1>3. ASSUME NEW k \in DOMAIN m.topics
      PROVE  /\ n.topics[k].subscriptionId = m.topics[k].subscriptionId
             /\ n.topics[k].inFlightSequence = m.topics[k].inFlightSequence
             /\ k \notin K => n.topics[k] = m.topics[k]
  <2>1. m.topics[k] \in Topic
    BY DEF Good, ManagerOK
  <2> QED
    BY <1>1, <2>1 DEF Topic
<1>4. DOMAIN n.topics = DOMAIN m.topics
  BY <1>1
<1>5. \A k \in Key : Kept(m, n, k)
  BY <1>3, <1>4 DEF Kept, Live
<1>6. Hushed(m, n)
  BY <1>1, <1>2, <1>5 DEF Hushed
<1> QED
  BY <1>6 DEF n

\* Dropping an idle topic drops nothing live.
LEMMA DropIfIdleHushed ==
  ASSUME NEW m, Good(m), NEW K
  PROVE  Hushed(m, DropIfIdle(m, K))
<1> DEFINE n == DropIfIdle(m, K)
           kept == DOMAIN m.topics \ {k \in K \cap DOMAIN m.topics : Idle(m, k)}
<1>1. /\ n.topics = [k \in kept |-> m.topics[k]]
      /\ n.out = m.out /\ n.nextSequence = m.nextSequence
  BY DEF Good, ManagerOK, Members, DropIfIdle, Without, Restrict
<1>2. Good(n)
  BY DropIfIdleOK
<1> HIDE DEF n
<1>3. kept \subseteq DOMAIN m.topics /\ \A k \in DOMAIN m.topics : Live(m, k) => k \in kept
  BY DEF Live, Idle
<1> HIDE DEF kept
<1>4. \A k \in Key : Kept(m, n, k)
  BY <1>1, <1>3 DEF Kept, Live
<1>5. Hushed(m, n)
  BY <1>1, <1>2, <1>4 DEF Hushed
<1> QED
  BY <1>5 DEF n

\* A new consumer, with a new topic if need be.
LEMMA JoinedHushed ==
  ASSUME NEW m, Good(m), CountedExcept(m, {}), NEW k \in Key, NEW r \in Rate
  PROVE  Hushed(m, Joined(m, k, r))
<1> DEFINE n == Joined(m, k, r)
<1>1. /\ n.topics = IF k \in DOMAIN m.topics THEN m.topics ELSE With(m.topics, k, NewTopic)
      /\ n.out = m.out /\ n.nextSequence = m.nextSequence
  BY DEF Good, ManagerOK, Members, Joined
<1>2. Good(n)
  BY JoinedOK
<1> HIDE DEF n
<1>3. /\ \A j \in DOMAIN m.topics : j \in DOMAIN n.topics /\ n.topics[j] = m.topics[j]
      /\ \A j \in DOMAIN n.topics : j \in DOMAIN m.topics \/ ~Live(n, j)
  BY <1>1 DEF With, NewTopic, Live
<1>4. \A j \in Key : Kept(m, n, j)
  BY <1>3 DEF Kept, Live
<1>5. Hushed(m, n)
  BY <1>1, <1>2, <1>4 DEF Hushed
<1> QED
  BY <1>5 DEF n

\* One that left.
LEMMA LeftHushed ==
  ASSUME NEW m, Good(m), CountedExcept(m, {}), NEW h \in DOMAIN m.subscribers
  PROVE  Hushed(m, Left(m, h))
<1> DEFINE n == Left(m, h)
<1>1. n.topics = m.topics /\ n.out = m.out /\ n.nextSequence = m.nextSequence
  BY DEF Good, ManagerOK, Members, Left
<1>2. Good(n)
  BY LeftOK
<1> HIDE DEF n
<1>3. Hushed(m, n)
  BY <1>1, <1>2 DEF Hushed, Kept, Live
<1> QED
  BY <1>3 DEF n

\* A released grant is forgotten; the frame that gives it up asks for nothing.
LEMMA ReleaseFewer ==
  ASSUME NEW m, Good(m), NEW k \in DOMAIN m.topics PROVE Fewer(m, Release(m, k))
<1> DEFINE n == Release(m, k)
           t == m.topics[k]
           bye == [type |-> "UNSUBSCRIBE", seq |-> m.nextSequence, key |-> k,
                   boot |-> t.targetBootId, id |-> t.subscriptionId]
<1>1. /\ n.topics = [m.topics EXCEPT ![k] = [@ EXCEPT !.subscriptionId = 0, !.sentRate = 0]]
      /\ n.out = Append(m.out, bye)
      /\ n.nextSequence = m.nextSequence + 1
  BY DEF Good, ManagerOK, Members, Release, SendUnsubscribe
<1> HIDE DEF n
<1>2. bye.type = "UNSUBSCRIBE"
  OBVIOUS
<1> HIDE DEF bye
<1>3. m.out \in Seq(Frame) /\ m.nextSequence \in Nat /\ t \in Topic
  BY DEF Good, ManagerOK
<1>4. /\ DOMAIN n.out = 1 .. (Len(m.out) + 1) /\ DOMAIN m.out = 1 .. Len(m.out)
      /\ \A i \in 1 .. Len(m.out) : n.out[i] = m.out[i]
      /\ n.out[Len(m.out) + 1] = bye
      /\ Len(m.out) \in Nat
  BY <1>1, <1>3
<1>5. \A i \in DOMAIN n.out : n.out[i].type = "SUBSCRIBE" => i \in DOMAIN m.out /\ n.out[i] = m.out[i]
  BY <1>2, <1>4
<1>6. ASSUME NEW j \in DOMAIN n.topics
      PROVE  /\ j \in DOMAIN m.topics
             /\ n.topics[j].subscriptionId # 0 =>
                   n.topics[j].subscriptionId = m.topics[j].subscriptionId
             /\ n.topics[j].inFlightSequence = m.topics[j].inFlightSequence
             /\ n.topics[j].targetBootId = m.topics[j].targetBootId
  BY <1>1, <1>3 DEF Topic
<1>7. n.nextSequence \in Nat /\ n.nextSequence >= m.nextSequence
  BY <1>1, <1>3
<1>8. Fewer(m, n)
  BY <1>5, <1>6, <1>7 DEF Fewer
<1> QED
  BY <1>8 DEF n

\* Asking is one word about each topic asked for. A request that was given up is
\* repeated, or its topic let go.
LEMMA RequestActed ==
  ASSUME NEW b, NEW m0, NEW m, NEW A, Prepared(b, m0, m, A),
         NEW n \in Nat, NEW order \in [1..n -> DOMAIN m.topics], n # 0 => b # 0,
         \A i, j \in 1..n : order[i] = order[j] => i = j,
         NEW r, Addressed(m, r, n, order, b), NEW L,
         \A k \in A : (\E i \in 1..n : order[i] = k) \/ (k \in L /\ ~Live(m, k))
  PROVE  Acted(b, m0, r, L)
<1>1. Moved(b, m0, r)
  BY AddressedMoved DEF Prepared
<1>2. /\ Len(m.out) = 0 /\ m.nextSequence = m0.nextSequence
      /\ m.nextSequence \in Nat /\ \A k \in Key \ A : Kept(m0, m, k)
  BY DEF Prepared, Good, ManagerOK
<1>3. /\ DOMAIN r.out = 1..n
      /\ \A i \in 1..n : /\ r.out[i].type = "SUBSCRIBE"
                         /\ r.out[i].seq = m.nextSequence + i - 1
                         /\ r.out[i].key = order[i]
                         /\ r.out[i].boot = b
                         /\ r.out[i].rate = DesiredRate(m, order[i])
  BY <1>2 DEF Addressed
<1>4. ASSUME NEW k \in Key, NEW i \in 1..n, order[i] = k PROVE Requests(b, m0, r, k)
  <2>1. k \in DOMAIN m.topics /\ b # 0
    BY <1>4
  <2>2. /\ r.topics[k].targetBootId = b
        /\ r.topics[k].sentRate = DesiredRate(m, k)
        /\ ~r.topics[k].deferredForBootId
        /\ k \in DOMAIN r.topics
        /\ \E l \in 1..n : order[l] = k /\ r.topics[k].inFlightSequence = m.nextSequence + l - 1
    BY <1>4, <2>1 DEF Addressed
  <2>3. r.topics[k].inFlightSequence = m.nextSequence + i - 1
    BY <1>4, <2>2
  <2>4. OneWord(r, k, i)
    BY <1>3, <1>4 DEF OneWord
  <2>5. r.topics[k].inFlightSequence >= m0.nextSequence
    BY <1>2, <2>3
  <2> QED
    BY <1>3, <1>4, <2>1, <2>2, <2>3, <2>4, <2>5 DEF Requests
<1>5. ASSUME NEW k \in Key, \A i \in 1..n : order[i] # k
      PROVE  \/ SilentOn(r, k) /\ Kept(m0, r, k)
             \/ k \in L /\ SilentOn(r, k) /\ ~Live(r, k)
  <2>1. SilentOn(r, k)
    BY <1>3, <1>5 DEF SilentOn
  <2>2. /\ DOMAIN r.topics = DOMAIN m.topics
        /\ k \in DOMAIN m.topics => r.topics[k] = m.topics[k]
    BY <1>5 DEF Addressed
  <2>3. CASE k \in A
    BY <1>5, <2>1, <2>2, <2>3 DEF Live
  <2>4. CASE k \notin A
    BY <1>2, <2>1, <2>2, <2>4 DEF Kept, Live
  <2> QED
    BY <2>3, <2>4
<1> QED
  BY <1>1, <1>4, <1>5 DEF Acted

\* sendSubscribe().
LEMMA SendSubscribeActed ==
  ASSUME NEW m0, NEW m, NEW boots \in Boots, NEW k \in DOMAIN m.topics,
         Prepared(boots[Robot], m0, m, {})
  PROVE  Acted(boots[Robot], m0, SendSubscribe(m, boots, k), {})
<1>1. Good(m) /\ k \in Key /\ boots[SourceOf(k)] = boots[Robot]
  BY KeyType, RobotAssumption DEF Prepared, Good, ManagerOK
<1>2. CASE boots[Robot] = 0
  <2>1. \A j \in {k} : ~Live(m, j)
    BY <1>1, <1>2 DEF Prepared
  <2>2. Hushed(m, Defer(m, {k}))
    BY <1>1, <2>1, DeferHushed
  <2> QED
    BY <1>1, <1>2, <2>2, HushedPrepared, SilentlyActed DEF SendSubscribe
<1>3. CASE boots[Robot] # 0
  <2>1. <<k>> \in [1..1 -> DOMAIN m.topics]
    OBVIOUS
  <2>2. Addressed(m, Request(m, boots, <<k>>), 1, <<k>>, boots[Robot])
    BY <1>1, <2>1, RequestAddressed
  <2>3. \A i, j \in 1..1 : <<k>>[i] = <<k>>[j] => i = j
    OBVIOUS
  <2>4. Acted(boots[Robot], m0, Request(m, boots, <<k>>), {})
    BY <1>3, <2>1, <2>2, <2>3, RequestActed
  <2> QED
    BY <1>1, <1>3, <2>4 DEF SendSubscribe
<1> QED
  BY <1>2, <1>3

\* The order of a loop over K names each topic with a boot once.
LEMMA OrderIs ==
  ASSUME NEW K \in SUBSET Key, NEW boots, NEW order \in Orders(boots, K)
  PROVE  \E n \in Nat : /\ order \in [1..n -> Known(boots, K)]
                        /\ \A k \in Known(boots, K) : \E i \in 1..n : order[i] = k
                        /\ \A i, j \in 1..n : order[i] = order[j] => i = j
<1>1. PICK n \in Nat : /\ order \in [1..n -> Known(boots, K)]
                       /\ \A k \in Known(boots, K) : \E i \in 1..n : order[i] = k
  BY OrdersOnto
<1>2. \A i, j \in DOMAIN order : order[i] = order[j] => i = j
  <2>1. IsInjective(order)
    BY DEF Orders, Bijection, Injection
  <2> QED
    BY <2>1 DEF IsInjective
<1> QED
  BY <1>1, <1>2

\* sendSubscribe() in a loop.
LEMMA SendSubscribesActed ==
  ASSUME NEW m0, NEW m, NEW boots \in Boots, NEW A, Prepared(boots[Robot], m0, m, A),
         NEW K \in SUBSET DOMAIN m.topics, NEW order \in Orders(boots, K), NEW L,
         \A k \in A : (k \in K /\ boots[Robot] # 0) \/ (k \in L /\ ~Live(m, k))
  PROVE  Acted(boots[Robot], m0, SendSubscribes(m, boots, K, order), L)
<1> DEFINE held == K \ Known(boots, K)
           d == Defer(m, held)
           b == boots[Robot]
<1>1. Good(m) /\ \A k \in DOMAIN m.topics : k \in Key /\ boots[SourceOf(k)] = b
  BY KeyType, RobotAssumption DEF Prepared, Good, ManagerOK
<1>2. \A k \in held : ~Live(m, k)
  BY <1>1 DEF Prepared, Known
<1>3. Hushed(m, d) /\ Follows(m, d)
  BY <1>1, <1>2, DeferHushed, DeferOK
<1>4. Prepared(b, m0, d, A)
  BY <1>3, HushedPrepared
<1>5. K \in SUBSET Key
  BY <1>1
<1>6. PICK n \in Nat : /\ order \in [1..n -> Known(boots, K)]
                       /\ \A k \in Known(boots, K) : \E i \in 1..n : order[i] = k
                       /\ \A i, j \in 1..n : order[i] = order[j] => i = j
  BY <1>5, OrderIs
<1>7. order \in [1..n -> DOMAIN d.topics]
  BY <1>3, <1>6 DEF Known, Follows
<1>8. n # 0 => b # 0
  BY <1>1, <1>6 DEF Known
<1> HIDE DEF d, held
<1>9. \A k \in A : (\E i \in 1..n : order[i] = k) \/ (k \in L /\ ~Live(d, k))
  <2>1. \A k \in K : b # 0 => \E i \in 1..n : order[i] = k
    BY <1>1, <1>6 DEF Known
  <2>2. ASSUME NEW k, Live(d, k) PROVE Live(m, k)
    <3>1. k \in Key /\ Kept(m, d, k)
      BY <1>3, <2>2 DEF Live, Hushed, Good, ManagerOK
    <3> QED
      BY <2>2, <3>1 DEF Kept, Live
  <2> QED
    BY <2>1, <2>2
<1>10. Addressed(d, Request(d, boots, order), n, order, b)
  BY <1>3, <1>7, RequestAddressed DEF Hushed
<1> HIDE DEF b
<1>11. Acted(b, m0, Request(d, boots, order), L)
  BY <1>4, <1>6, <1>7, <1>8, <1>9, <1>10, RequestActed
<1> QED
  BY <1>11 DEF SendSubscribes, d, held, b

\* Giving up a grant is one word about its topic, which is let go when it waits
\* for no answer.
LEMMA ReleaseActed ==
  ASSUME NEW b, NEW m0, NEW m, Prepared(b, m0, m, {}),
         NEW k \in DOMAIN m.topics, m.topics[k].subscriptionId # 0
  PROVE  Acted(b, m0, DropIfIdle(Release(m, k), {k}), {})
<1> DEFINE n == Release(m, k)
           r == DropIfIdle(n, {k})
           bye == [type |-> "UNSUBSCRIBE", seq |-> m.nextSequence, key |-> k,
                   boot |-> m.topics[k].targetBootId, id |-> m.topics[k].subscriptionId]
<1>1. /\ Good(m) /\ m.out = <<>> /\ \A j \in Key : Kept(m0, m, j)
      /\ k \in Key /\ m.topics[k] \in Topic
  BY DEF Prepared, Good, ManagerOK
<1>2. /\ n.topics = [m.topics EXCEPT ![k] = [@ EXCEPT !.subscriptionId = 0, !.sentRate = 0]]
      /\ n.out = Append(m.out, bye)
  BY <1>1 DEF Good, ManagerOK, Members, Release, SendUnsubscribe
<1>3. Good(n) /\ Fewer(m, n)
  BY <1>1, ReleaseOK, ReleaseFewer
<1> HIDE DEF n
<1>4. Hushed(n, r)
  BY <1>3, DropIfIdleHushed
<1> HIDE DEF r
<1>5. Moved(b, m0, r)
  BY <1>3, <1>4, FewerMoved, HushedFewer DEF Prepared
<1>6. /\ bye.type = "UNSUBSCRIBE" /\ bye.key = k
      /\ bye.boot = m.topics[k].targetBootId /\ bye.id = m.topics[k].subscriptionId
  OBVIOUS
<1> HIDE DEF bye
<1>7. DOMAIN r.out = 1..1 /\ r.out[1] = bye
  BY <1>1, <1>2, <1>4 DEF Hushed
<1>8. ASSUME NEW j \in Key, j # k PROVE SilentOn(r, j) /\ Kept(m0, r, j)
  <2>1. SilentOn(r, j)
    BY <1>6, <1>7, <1>8 DEF SilentOn
  <2>2. /\ DOMAIN n.topics = DOMAIN m.topics
        /\ j \in DOMAIN m.topics => n.topics[j] = m.topics[j]
    BY <1>2, <1>8
  <2>3. Kept(m, n, j)
    BY <2>2 DEF Kept, Live
  <2>4. Kept(m0, m, j) /\ Kept(n, r, j)
    BY <1>1, <1>4, <1>8 DEF Hushed
  <2>5. Kept(m0, n, j)
    BY <2>3, <2>4, KeptTwice
  <2> QED
    BY <2>1, <2>4, <2>5, KeptTwice
<1>9. Releases(m0, r, k)
  <2>1. /\ k \in DOMAIN m0.topics
        /\ m0.topics[k].subscriptionId = m.topics[k].subscriptionId
        /\ m0.topics[k].inFlightSequence = m.topics[k].inFlightSequence
        /\ m0.topics[k].targetBootId = m.topics[k].targetBootId
        /\ m.topics[k].deferredForBootId => m0.topics[k].deferredForBootId
    BY <1>1 DEF Kept, Live
  <2>2. OneWord(r, k, 1)
    BY <1>6, <1>7 DEF OneWord
  <2>3. /\ k \in DOMAIN n.topics
        /\ n.topics[k].subscriptionId = 0 /\ n.topics[k].sentRate = 0
        /\ n.topics[k].inFlightSequence = m.topics[k].inFlightSequence
        /\ n.topics[k].targetBootId = m.topics[k].targetBootId
        /\ n.topics[k].deferredForBootId = m.topics[k].deferredForBootId
    BY <1>1, <1>2 DEF Topic
  <2>4. Kept(n, r, k)
    BY <1>1, <1>4 DEF Hushed
  <2>5. CASE m.topics[k].inFlightSequence = 0
    <3>1. ~Live(n, k)
      BY <2>3, <2>5 DEF Live
    <3>2. ~Live(r, k)
      BY <2>4, <3>1 DEF Kept, Live
    <3> QED
      BY <1>6, <1>7, <2>1, <2>2, <2>5, <3>2 DEF Releases
  <2>6. CASE m.topics[k].inFlightSequence # 0
    <3>1. Live(n, k)
      BY <2>3, <2>6 DEF Live
    <3> QED
      BY <1>6, <1>7, <2>1, <2>2, <2>3, <2>4, <2>6, <3>1 DEF Releases, Kept
  <2> QED
    BY <2>5, <2>6
<1>10. Acted(b, m0, r, {})
  BY <1>5, <1>8, <1>9 DEF Acted
<1> QED
  BY <1>10 DEF r, n

\* The end of a topic without consumers: its grant, if it holds one, is given up.
LEMMA LetGoActed ==
  ASSUME NEW b, NEW m0, NEW m, Prepared(b, m0, m, {}), NEW k \in DOMAIN m.topics
  PROVE  Acted(b, m0, DropIfIdle(IF m.topics[k].subscriptionId # 0 THEN Release(m, k) ELSE m, {k}), {})
<1>1. CASE m.topics[k].subscriptionId # 0
  BY <1>1, ReleaseActed
<1>2. CASE m.topics[k].subscriptionId = 0
  <2>1. Good(m)
    BY DEF Prepared
  <2>2. Hushed(m, DropIfIdle(m, {k}))
    BY <2>1, DropIfIdleHushed
  <2> QED
    BY <1>2, <2>2, HushedPrepared, SilentlyActed
<1> QED
  BY <1>1, <1>2

\* syncTopic().
LEMMA SyncTopicActed ==
  ASSUME NEW m0, NEW m, NEW boots \in Boots, NEW k, Prepared(boots[Robot], m0, m, {})
  PROVE  Acted(boots[Robot], m0, SyncTopic(m, boots, k), {})
<1> DEFINE b == boots[Robot]
<1>1. CASE k \notin DOMAIN m.topics
  BY <1>1, SilentlyActed DEF SyncTopic
<1>2. CASE k \in DOMAIN m.topics /\ ConsumersOf(m, k) = {}
  <2> DEFINE m1 == [m EXCEPT !.topics[k].deferredForBootId = FALSE]
  <2>0. Good(m)
    BY DEF Prepared
  <2>1. /\ DOMAIN m1 = Members
        /\ m1.subscribers = m.subscribers
        /\ m1.nextHandle = m.nextHandle
        /\ m1.nextSequence = m.nextSequence
        /\ m1.pendingSubscribes = m.pendingSubscribes
        /\ m1.pendingUnsubscribes = m.pendingUnsubscribes
        /\ m1.out = m.out
        /\ m1.topics = [m.topics EXCEPT ![k] = [@ EXCEPT !.deferredForBootId = FALSE]]
    BY <2>0 DEF Good, ManagerOK, Members
  <2>2. m.topics[k] \in Topic
    BY <1>2, <2>0 DEF Good, ManagerOK
  <2>3. SyncTopic(m, boots, k) =
          DropIfIdle(IF m.topics[k].subscriptionId # 0 THEN Release(m1, k) ELSE m1, {k})
    BY <1>2 DEF SyncTopic
  <2> HIDE DEF m1, b
  <2>4. [m.topics[k] EXCEPT !.deferredForBootId = FALSE] \in Topic
    BY <2>2 DEF Topic
  <2>5. \A j \in DOMAIN m.topics :
           /\ m1.topics[j] \in Topic
           /\ m1.topics[j].subscriptionId = m.topics[j].subscriptionId
           /\ m1.topics[j].inFlightSequence = m.topics[j].inFlightSequence
           /\ m1.topics[j].targetBootId = m.topics[j].targetBootId
           /\ m1.topics[j].sentRate = m.topics[j].sentRate
           /\ m1.topics[j].deferredForBootId => m.topics[j].deferredForBootId
    BY <1>2, <2>0, <2>1, <2>2, <2>4 DEF Good, ManagerOK, Topic
  <2>6. DOMAIN m1.topics = DOMAIN m.topics /\ m1.topics \in [DOMAIN m.topics -> Topic]
    BY <2>1, <2>5
  <2>7. Good(m1)
    BY <2>0, <2>1, <2>5, <2>6 DEF Good, ManagerOK, Correlated
  <2>8. Hushed(m, m1)
    BY <2>1, <2>5, <2>6, <2>7 DEF Hushed, Kept, Live
  <2>9. Prepared(b, m0, m1, {}) /\ k \in DOMAIN m1.topics
        /\ m1.topics[k].subscriptionId = m.topics[k].subscriptionId
    BY <1>2, <2>5, <2>6, <2>8, HushedPrepared DEF b
  <2> QED
    BY <2>3, <2>9, LetGoActed DEF b
<1>3. CASE k \in DOMAIN m.topics /\ ConsumersOf(m, k) # {}
  BY <1>3, SendSubscribeActed, SilentlyActed DEF SyncTopic
<1> QED
  BY <1>1, <1>2, <1>3

\* syncTopic() in a loop over topics without a grant.
LEMMA SyncTopicsActed ==
  ASSUME NEW m0, NEW m, NEW boots \in Boots, NEW K \in SUBSET DOMAIN m.topics,
         NEW order \in Orders(boots, ToRequest(m, K)),
         Prepared(boots[Robot], m0, m, {})
  PROVE  Acted(boots[Robot], m0, SyncTopics(m, boots, K, order), {})
<1> DEFINE d == DropIfIdle(m, K)
           R == ToRequest(m, K)
<1>1. Good(m)
  BY DEF Prepared
<1>2. /\ Prepared(boots[Robot], m0, d, {})
      /\ \A k \in DOMAIN m.topics : ConsumersOf(m, k) # {} => k \in DOMAIN d.topics
  BY <1>1, DropIfIdleOK, DropIfIdleHushed, HushedPrepared
<1>3. SyncTopics(m, boots, K, order) = SendSubscribes(d, boots, R, order)
  BY DEF SyncTopics
<1> HIDE DEF d
<1>4. R \in SUBSET DOMAIN d.topics
  BY <1>2 DEF ToRequest, NeedsSubscribe
<1>5. order \in Orders(boots, R)
  OBVIOUS
<1> HIDE DEF R
<1>6. ASSUME NEW A, NEW L, Prepared(boots[Robot], m0, d, A),
             \A k \in A : (k \in R /\ boots[Robot] # 0) \/ (k \in L /\ ~Live(d, k))
      PROVE  Acted(boots[Robot], m0, SendSubscribes(d, boots, R, order), L)
  BY <1>4, <1>5, <1>6, SendSubscribesActed
<1>7. Acted(boots[Robot], m0, SendSubscribes(d, boots, R, order), {})
  BY <1>2, <1>6
<1> QED
  BY <1>3, <1>7

\* The end of handleSubscribeResult().
LEMMA ReconcileActed ==
  ASSUME NEW m0, NEW m, NEW boots \in Boots, NEW k \in DOMAIN m.topics,
         Prepared(boots[Robot], m0, m, {})
  PROVE  Acted(boots[Robot], m0, Reconcile(m, boots, k), {})
<1>1. CASE ConsumersOf(m, k) = {}
  BY <1>1, LetGoActed DEF Reconcile
<1>2. CASE ConsumersOf(m, k) # {}
  BY <1>2, SendSubscribeActed, SilentlyActed DEF Reconcile
<1> QED
  BY <1>1, <1>2

\* addSubscriber().
LEMMA AddConsumerActed ==
  ASSUME NEW m0, NEW m, CountedExcept(m, {}), NEW boots \in Boots,
         NEW k \in Key, NEW r \in Rate, Prepared(boots[Robot], m0, m, {})
  PROVE  Acted(boots[Robot], m0, AddConsumer(m, boots, k, r), {})
<1> DEFINE n == Joined(m, k, r)
<1>1. Good(m)
  BY DEF Prepared
<1>2. Prepared(boots[Robot], m0, n, {})
  BY <1>1, JoinedHushed, HushedPrepared
<1>3. AddConsumer(m, boots, k, r) = SyncTopic(n, boots, k)
  BY DEF AddConsumer, Joined
<1> HIDE DEF n
<1> QED
  BY <1>2, <1>3, SyncTopicActed

\* removeSubscriber().
LEMMA RemoveConsumerActed ==
  ASSUME NEW m0, NEW m, CountedExcept(m, {}), NEW boots \in Boots,
         NEW h \in DOMAIN m.subscribers, Prepared(boots[Robot], m0, m, {})
  PROVE  Acted(boots[Robot], m0, RemoveConsumer(m, boots, h), {})
<1> DEFINE n == Left(m, h)
<1>1. Good(m)
  BY DEF Prepared
<1>2. Prepared(boots[Robot], m0, n, {})
  BY <1>1, LeftHushed, HushedPrepared
<1>3. RemoveConsumer(m, boots, h) = SyncTopic(n, boots, m.subscribers[h].key)
  BY DEF RemoveConsumer, Left
<1> HIDE DEF n
<1> QED
  BY <1>2, <1>3, SyncTopicActed
-----------------------------------------------------------------------------
(* The handlers, each from the object at its start.                          *)

\* What is live has a boot, and its request is not held back.
Held(m, src) ==
  \A k \in Key : Live(m, k) => src # 0 /\ ~m.topics[k].deferredForBootId

\* A handler leaves it so.
LEMMA ActedHeld ==
  ASSUME NEW b, NEW m0, NEW m, NEW L, Acted(b, m0, m, L), Held(m0, b)
  PROVE  Held(m, b)
<1> SUFFICES ASSUME NEW k \in Key, Live(m, k)
             PROVE  b # 0 /\ ~m.topics[k].deferredForBootId
  BY DEF Held
<1>1. Live(m0, k) => b # 0 /\ ~m0.topics[k].deferredForBootId
  BY DEF Held
<1>2. CASE Kept(m0, m, k)
  BY <1>1, <1>2 DEF Kept, Live
<1>3. CASE Requests(b, m0, m, k)
  BY <1>3 DEF Requests
<1>4. CASE Releases(m0, m, k)
  BY <1>1, <1>4 DEF Releases, Live
<1> QED
  BY <1>2, <1>3, <1>4 DEF Acted

\* The object holds no grant and waits for no answer.
Blank(m) == \A k \in DOMAIN m.topics : /\ m.topics[k].subscriptionId = 0
                                       /\ m.topics[k].inFlightSequence = 0

\* Then nothing is live.
LEMMA BlankDead ==
  ASSUME NEW m, Blank(m) PROVE \A k \in Key : ~Live(m, k)
BY DEF Blank, Live

\* n is the object m as a handler starts with it, or changes it before it syncs.
Starts(m, n) == Good(n) /\ n.out = <<>> /\ n.nextSequence = m.nextSequence

\* The object of every handler that changes nothing before it syncs.
LEMMA NowPrepared ==
  ASSUME DemandInv, Held(mgr, sourceBootId[Robot])
  PROVE  Prepared(sourceBootId[Robot], Now, Now, {}) /\ Starts(mgr, Now)
<1>1. /\ Good(Now) /\ Now.out = <<>> /\ Now.topics = mgr.topics
      /\ Now.nextSequence = mgr.nextSequence
  BY NowDemand, NowOK DEF DemandInv
<1>2. sourceBootId[Robot] = 0 => \A k \in Key : ~Live(Now, k)
  BY <1>1 DEF Held, Live
<1> QED
  BY <1>1, <1>2, StartPrepared DEF Starts

\* addSubscriber() and removeSubscriber().
LEMMA ConsumerStepActed ==
  ASSUME DemandInv, Held(mgr, sourceBootId[Robot]),
         \/ \E k \in Key, r \in Rate : AddSubscriber(k, r)
         \/ \E h \in DOMAIN mgr.subscribers : RemoveSubscriber(h)
  PROVE  Acted(sourceBootId[Robot], Now, mgr', {})
<1>1. /\ CountedExcept(Now, {}) /\ sourceBootId \in Boots
      /\ Now.subscribers = mgr.subscribers
      /\ Prepared(sourceBootId[Robot], Now, Now, {})
  BY NowDemand, NowPrepared
<1> QED
  BY <1>1, AddConsumerActed, RemoveConsumerActed DEF AddSubscriber, RemoveSubscriber

\* An UNSUBSCRIBE_RESULT.
LEMMA UnsubscribeResultActed ==
  ASSUME DemandInv, Held(mgr, sourceBootId[Robot]),
         NEW seq \in DOMAIN mgr.pendingUnsubscribes, UnsubscribeResult(seq)
  PROVE  Acted(sourceBootId[Robot], Now, mgr', {})
<1> DEFINE m1 == [Now EXCEPT !.pendingUnsubscribes =
                    Without(mgr.pendingUnsubscribes, {seq})]
           k == mgr.pendingUnsubscribes[seq]
<1>1. mgr' = DropIfIdle(m1, {k})
  BY DEF UnsubscribeResult
<1>2. /\ DOMAIN m1 = Members
      /\ m1.subscribers = Now.subscribers
      /\ m1.topics = Now.topics
      /\ m1.nextHandle = Now.nextHandle
      /\ m1.nextSequence = Now.nextSequence
      /\ m1.pendingSubscribes = Now.pendingSubscribes
      /\ m1.out = Now.out
      /\ m1.pendingUnsubscribes =
           [q \in DOMAIN mgr.pendingUnsubscribes \ {seq} |-> mgr.pendingUnsubscribes[q]]
  BY NowDemand DEF Good, ManagerOK, Members, Without, Restrict
<1> HIDE DEF m1
<1>3. /\ m1.pendingUnsubscribes \in [DOMAIN m1.pendingUnsubscribes -> Key]
      /\ DOMAIN m1.pendingUnsubscribes \subseteq 1..(Now.nextSequence - 1)
  <2>1. mgr.pendingUnsubscribes \in [DOMAIN mgr.pendingUnsubscribes -> Key]
        /\ DOMAIN mgr.pendingUnsubscribes \subseteq 1..(Now.nextSequence - 1)
    BY NowOK DEF DemandInv, IInv, Good, ManagerOK
  <2> QED
    BY <1>2, <2>1
<1>4. Good(m1)
  BY <1>2, <1>3, NowDemand DEF Good, ManagerOK, Correlated
<1>5. Hushed(Now, m1)
  BY <1>2, <1>4 DEF Hushed, Kept, Live
<1>6. Hushed(m1, DropIfIdle(m1, {k}))
  BY <1>4, DropIfIdleHushed
<1> QED
  BY <1>1, <1>5, <1>6, NowPrepared, HushedPrepared, SilentlyActed

\* Requests that are given up leave the grants and the other requests alone.
LEMMA GivenUpPrepared ==
  ASSUME NEW b, NEW m, Prepared(b, m, m, {}), NEW n, Good(n), NEW K,
         n.out = m.out /\ n.nextSequence = m.nextSequence,
         n.topics = [k \in DOMAIN m.topics |->
           IF k \in K THEN [m.topics[k] EXCEPT !.inFlightSequence = 0] ELSE m.topics[k]]
  PROVE  Prepared(b, m, n, {k \in K \cap DOMAIN m.topics : m.topics[k].inFlightSequence # 0})
<1> DEFINE A == {k \in K \cap DOMAIN m.topics : m.topics[k].inFlightSequence # 0}
<1>1. Good(m) /\ m.out = <<>> /\ Moved(b, m, m) /\ (b = 0 => \A k \in Key : ~Live(m, k))
  BY DEF Prepared
<1>2. ASSUME NEW k \in DOMAIN m.topics
      PROVE  /\ n.topics[k].subscriptionId = m.topics[k].subscriptionId
             /\ n.topics[k].inFlightSequence =
                  IF k \in K THEN 0 ELSE m.topics[k].inFlightSequence
             /\ n.topics[k].targetBootId = m.topics[k].targetBootId
             /\ n.topics[k].sentRate = m.topics[k].sentRate
             /\ n.topics[k].deferredForBootId = m.topics[k].deferredForBootId
  <2>1. m.topics[k] \in Topic
    BY <1>1 DEF Good, ManagerOK
  <2> QED
    BY <2>1 DEF Topic
<1>3. DOMAIN n.topics = DOMAIN m.topics
  OBVIOUS
<1>4. Fewer(m, n)
  <2>1. \A k \in DOMAIN n.topics :
           /\ n.topics[k].subscriptionId # 0 =>
                /\ k \in DOMAIN m.topics
                /\ n.topics[k].subscriptionId = m.topics[k].subscriptionId
                /\ n.topics[k].targetBootId = m.topics[k].targetBootId
           /\ n.topics[k].inFlightSequence # 0 =>
                /\ k \in DOMAIN m.topics
                /\ n.topics[k].inFlightSequence = m.topics[k].inFlightSequence
                /\ n.topics[k].targetBootId = m.topics[k].targetBootId
    BY <1>2, <1>3
  <2>2. n.nextSequence \in Nat /\ n.nextSequence >= m.nextSequence
    BY <1>1 DEF Good, ManagerOK
  <2> QED
    BY <2>1, <2>2 DEF Fewer
<1>5. Moved(b, m, n)
  BY <1>1, <1>4, FewerMoved
<1>6. \A k \in Key \ A : Kept(m, n, k)
  BY <1>2, <1>3 DEF Kept, Live
<1>7. \A k \in Key : Live(n, k) => Live(m, k)
  BY <1>2, <1>3 DEF Live
<1> QED
  BY <1>1, <1>5, <1>6, <1>7 DEF Prepared

\* The lease timer. A late request of a topic without consumers is not repeated.
LEMMA RenewDueActed ==
  ASSUME DemandInv, Held(mgr, sourceBootId[Robot]),
         NEW late \in SUBSET InFlightTopics, NEW due \in SUBSET RenewableTopics,
         RenewDueSubscriptions(late, due)
  PROVE  Acted(sourceBootId[Robot], Now, mgr', late)
<1> DEFINE b == sourceBootId[Robot]
           g == GiveUp(Now, late)
           m == DropIfIdle(g, late)
           again == ToRetry(late) \cup due
<1>1. /\ Good(Now) /\ CountedExcept(Now, {})
      /\ Now.subscribers = mgr.subscribers /\ Now.topics = mgr.topics
      /\ sourceBootId \in Boots /\ Prepared(b, Now, Now, {})
  BY NowDemand, NowPrepared
<1>2. /\ late \in SUBSET DOMAIN Now.topics
      /\ \A k \in late : k \in Key /\ Live(mgr, k)
  BY <1>1 DEF InFlightTopics, Live, Good, ManagerOK
<1>3. late # {} => b # 0
  BY <1>2 DEF Held
<1>4. /\ Good(g) /\ g.subscribers = Now.subscribers
      /\ DOMAIN g.topics = DOMAIN Now.topics
  BY <1>1, <1>2, GiveUpOK
<1>5. /\ g.out = Now.out /\ g.nextSequence = Now.nextSequence
      /\ g.topics = [k \in DOMAIN Now.topics |->
           IF k \in late THEN [Now.topics[k] EXCEPT !.inFlightSequence = 0] ELSE Now.topics[k]]
  BY <1>1 DEF Good, ManagerOK, Members, GiveUp
<1> HIDE DEF g, b
<1>6. Prepared(b, Now, g, {k \in late \cap DOMAIN Now.topics : Now.topics[k].inFlightSequence # 0})
  BY <1>1, <1>4, <1>5, GivenUpPrepared
<1>7. {k \in late \cap DOMAIN Now.topics : Now.topics[k].inFlightSequence # 0} = late
  BY <1>1 DEF InFlightTopics
<1>8. Hushed(g, m)
  BY <1>4, DropIfIdleHushed
<1>9. Prepared(b, Now, m, late)
  BY <1>6, <1>7, <1>8, HushedPrepared
<1>10. \A k \in DOMAIN g.topics : ConsumersOf(g, k) # {} => k \in DOMAIN m.topics
  BY <1>4, DropIfIdleOK
<1> HIDE DEF m
<1>11. again \in SUBSET DOMAIN m.topics
  BY <1>1, <1>4, <1>10 DEF ToRetry, RenewableTopics, InFlightTopics, ConsumersOf
<1>12. ASSUME NEW k \in late PROVE (k \in again /\ b # 0) \/ (k \in late /\ ~Live(m, k))
  <2>1. CASE ConsumersOf(mgr, k) # {}
    BY <1>3, <1>12, <2>1 DEF ToRetry
  <2>2. CASE ConsumersOf(mgr, k) = {}
    <3>1. k \in DOMAIN Now.topics /\ ConsumersOf(Now, k) = {}
      BY <1>1, <1>2, <2>2 DEF ConsumersOf
    <3>2. Now.topics[k].subscriptionId = 0
      BY <1>1, <3>1 DEF CountedExcept
    <3>3. g.topics[k].subscriptionId = 0 /\ g.topics[k].inFlightSequence = 0
      <4>1. Now.topics[k] \in Topic
        BY <1>1, <3>1 DEF Good, ManagerOK
      <4> QED
        BY <1>5, <3>1, <3>2, <4>1 DEF Topic
    <3>4. Kept(g, m, k)
      BY <1>2, <1>8 DEF Hushed
    <3> QED
      BY <3>3, <3>4 DEF Kept, Live
  <2> QED
    BY <2>1, <2>2
<1>13. PICK order \in Orders(sourceBootId, again) :
         mgr' = SendSubscribes(m, sourceBootId, again, order)
  BY DEF RenewDueSubscriptions, g, m, again
<1> HIDE DEF again
<1>14. Acted(sourceBootId[Robot], Now, SendSubscribes(m, sourceBootId, again, order), late)
  BY <1>1, <1>9, <1>11, <1>12, SendSubscribesActed DEF b
<1> QED
  BY <1>13, <1>14

\* A source that came back: whatever is wanted is asked for again.
LEMMA ReconnectedActed ==
  ASSUME DemandInv, Held(mgr, sourceBootId[Robot]), NEW s \in Source, PeerReconnected(s)
  PROVE  Acted(sourceBootId[Robot], Now, mgr', {})
<1> DEFINE b == sourceBootId[Robot]
           K == {k \in TopicsOf(s) : ConsumersOf(mgr, k) # {}}
           gone == {q \in DOMAIN mgr.pendingSubscribes : mgr.pendingSubscribes[q] \in K}
           m1 == [Now EXCEPT
             !.topics = [k \in DOMAIN mgr.topics |->
                IF k \in K THEN [mgr.topics[k] EXCEPT !.inFlightSequence = 0]
                ELSE mgr.topics[k]],
             !.pendingSubscribes = Without(mgr.pendingSubscribes, gone)]
<1>1. /\ Good(Now) /\ sourceBootId \in Boots
      /\ Now.subscribers = mgr.subscribers /\ Now.topics = mgr.topics
      /\ Now.pendingSubscribes = mgr.pendingSubscribes
      /\ Prepared(b, Now, Now, {})
  BY NowDemand, NowPrepared
<1>2. /\ DOMAIN m1 = Members
      /\ m1.subscribers = Now.subscribers
      /\ m1.nextHandle = Now.nextHandle
      /\ m1.nextSequence = Now.nextSequence
      /\ m1.pendingUnsubscribes = Now.pendingUnsubscribes
      /\ m1.out = Now.out
      /\ m1.topics = [k \in DOMAIN Now.topics |->
           IF k \in K THEN [Now.topics[k] EXCEPT !.inFlightSequence = 0] ELSE Now.topics[k]]
      /\ m1.pendingSubscribes =
           [q \in DOMAIN Now.pendingSubscribes \ gone |-> Now.pendingSubscribes[q]]
  BY <1>1 DEF Good, ManagerOK, Members, Without, Restrict
<1>3. PICK order \in Orders(sourceBootId, K) :
          mgr' = SendSubscribes(m1, sourceBootId, K, order)
  BY DEF PeerReconnected
<1>4. gone = {q \in DOMAIN Now.pendingSubscribes : Now.pendingSubscribes[q] \in K}
  BY <1>1
<1>5. K \in SUBSET DOMAIN Now.topics
  BY <1>1 DEF TopicsOf
<1> HIDE DEF m1, K, gone, b
<1>6. \A k \in DOMAIN Now.topics :
         /\ m1.topics[k] \in Topic
         /\ m1.topics[k].inFlightSequence # 0 => k \notin K /\ m1.topics[k] = Now.topics[k]
  <2> TAKE k \in DOMAIN Now.topics
  <2>1. Now.topics[k] \in Topic
    BY <1>1 DEF Good, ManagerOK
  <2>2. /\ [Now.topics[k] EXCEPT !.inFlightSequence = 0] \in Topic
        /\ [Now.topics[k] EXCEPT !.inFlightSequence = 0].inFlightSequence = 0
    BY <2>1 DEF Topic
  <2> QED
    BY <1>2, <2>1, <2>2
<1>7. Good(m1)
  <2>1. /\ m1.pendingSubscribes \in [DOMAIN m1.pendingSubscribes -> Key]
        /\ DOMAIN m1.pendingSubscribes \subseteq 1..(m1.nextSequence - 1)
    BY <1>1, <1>2 DEF Good, ManagerOK
  <2>2. m1.topics \in [DOMAIN m1.topics -> Topic] /\ DOMAIN m1.topics = DOMAIN Now.topics
    BY <1>2, <1>6
  <2>3. ManagerOK(m1)
    BY <1>1, <1>2, <2>1, <2>2 DEF Good, ManagerOK
  <2>4. Correlated(m1)
    BY <1>1, <1>2, <1>4, <1>6, <2>2 DEF Good, Correlated
  <2> QED
    BY <2>3, <2>4 DEF Good
<1> DEFINE A == {k \in K \cap DOMAIN Now.topics : Now.topics[k].inFlightSequence # 0}
<1>8. Prepared(b, Now, m1, A)
  <2>1. m1.out = Now.out /\ m1.nextSequence = Now.nextSequence
    BY <1>2
  <2>2. m1.topics = [k \in DOMAIN Now.topics |->
          IF k \in K THEN [Now.topics[k] EXCEPT !.inFlightSequence = 0] ELSE Now.topics[k]]
    BY <1>2
  <2>3. Prepared(b, Now, Now, {})
    BY <1>1
  <2> QED
    BY ONLY <1>7, <2>1, <2>2, <2>3, GivenUpPrepared
<1>9. \A k \in A : (k \in K /\ b # 0) \/ (k \in {} /\ ~Live(m1, k))
  BY <1>1 DEF Held, Live, Good, ManagerOK, b
<1>10. K \in SUBSET DOMAIN m1.topics
  BY <1>2, <1>5
<1> HIDE DEF A
<1>11. Acted(sourceBootId[Robot], Now, SendSubscribes(m1, sourceBootId, K, order), {})
  BY <1>1, <1>8, <1>9, <1>10, SendSubscribesActed DEF b
<1> QED
  BY <1>3, <1>11

\* A session change forgets every grant and every request.
LEMMA ForgetAllBlank ==
  ASSUME DemandInv
  PROVE  Starts(mgr, ForgetAll(Now)) /\ Blank(ForgetAll(Now))
<1> DEFINE n == ForgetAll(Now)
<1>1. /\ Good(Now) /\ Now.out = <<>> /\ CountedExcept(Now, {})
      /\ Now.nextSequence = mgr.nextSequence
  BY NowDemand, NowOK DEF DemandInv
<1>2. Good(n)
  BY <1>1, ForgetAllOK
<1>3. /\ n.out = <<>> /\ n.nextSequence = mgr.nextSequence
      /\ n.topics = [k \in DOMAIN Now.topics |-> Forget(Now.topics[k])]
  BY <1>1 DEF Good, ManagerOK, Members, ForgetAll
<1> HIDE DEF n
<1>4. ASSUME NEW k \in DOMAIN n.topics
      PROVE  n.topics[k].subscriptionId = 0 /\ n.topics[k].inFlightSequence = 0
  <2>1. Now.topics[k] \in Topic /\ n.topics[k] = Forget(Now.topics[k])
    BY <1>1, <1>3 DEF Good, ManagerOK
  <2> QED
    BY <2>1, ForgetType
<1>5. Starts(mgr, n) /\ Blank(n)
  BY <1>2, <1>3, <1>4 DEF Starts, Blank
<1> QED
  BY <1>5 DEF n

\* A reboot does the same, as every topic is the robot's.
LEMMA RebootBlank ==
  ASSUME DemandInv
  PROVE  LET n == ForgetSource(Now, TopicsOf(Robot)) IN Starts(mgr, n) /\ Blank(n)
<1> DEFINE n == ForgetSource(Now, TopicsOf(Robot))
<1>1. /\ Good(Now) /\ Now.out = <<>> /\ CountedExcept(Now, {})
      /\ Now.nextSequence = mgr.nextSequence /\ Now.topics = mgr.topics
  BY NowDemand, NowOK DEF DemandInv
<1>2. Good(n)
  BY <1>1, ForgetSourceOK
<1>3. n.out = <<>> /\ n.nextSequence = mgr.nextSequence
  BY <1>1 DEF Good, ManagerOK, Members, ForgetSource
<1>4. n.topics = [k \in DOMAIN Now.topics |->
        IF k \in TopicsOf(Robot) THEN [Forget(Now.topics[k]) EXCEPT !.targetBootId = 0]
        ELSE Now.topics[k]]
  BY <1>1 DEF Good, ManagerOK, Members, ForgetSource
<1> HIDE DEF n
<1>5. ASSUME NEW k \in DOMAIN n.topics
      PROVE  n.topics[k].subscriptionId = 0 /\ n.topics[k].inFlightSequence = 0
  <2>1. k \in DOMAIN mgr.topics /\ Now.topics[k] \in Topic /\ k \in Key
    BY <1>1, <1>4 DEF Good, ManagerOK
  <2>2. k \in TopicsOf(Robot)
    BY <2>1, KeyType, RobotAssumption DEF TopicsOf
  <2>3. n.topics[k] = [Forget(Now.topics[k]) EXCEPT !.targetBootId = 0]
    BY <1>4, <2>2
  <2> QED
    BY <2>1, <2>3, ForgetType
<1>6. Starts(mgr, n) /\ Blank(n)
  BY <1>2, <1>3, <1>5 DEF Starts, Blank
<1> QED
  BY <1>6 DEF n

\* A new session, and the end of one.
LEMMA SessionActed ==
  ASSUME DemandInv, SessionEstablished \/ SessionLost
  PROVE  Acted(sourceBootId[Robot], ForgetAll(Now), mgr', {})
<1> DEFINE n == ForgetAll(Now)
           K == DOMAIN Now.topics
<1>1. /\ Good(Now) /\ CountedExcept(Now, {}) /\ Now.topics = mgr.topics
      /\ sourceBootId \in Boots
  BY NowDemand
<1>2. Good(n) /\ DOMAIN n.topics = K /\ n.out = <<>> /\ Blank(n)
  BY <1>1, ForgetAllOK, ForgetAllBlank DEF Starts
<1>3. \/ \E order \in Orders(sourceBootId, ToRequest(n, K)) :
            mgr' = SyncTopics(n, sourceBootId, K, order)
      \/ mgr' = DropIfIdle(n, K)
  BY <1>1 DEF SessionEstablished, OnSessionEstablished, SessionLost
<1> HIDE DEF n, K
<1>4. Prepared(sourceBootId[Robot], n, n, {})
  BY <1>2, BlankDead, StartPrepared
<1>5. Acted(sourceBootId[Robot], n, mgr', {})
  BY <1>1, <1>2, <1>3, <1>4, SyncTopicsActed, DropIfIdleHushed, HushedPrepared, SilentlyActed
<1> QED
  BY <1>5 DEF n

\* A manifest of boot b: a reboot starts from a blank object.
LEMMA ManifestActed ==
  ASSUME DemandInv, NEW b \in BootId, NEW rebooted \in BOOLEAN,
         ManifestData(Robot, b, rebooted)
  PROVE  \E n : /\ Starts(mgr, n) /\ Acted(b, n, mgr', {})
                /\ IF rebooted THEN Blank(n) ELSE n.topics = mgr.topics
<1> DEFINE boots == [sourceBootId EXCEPT ![Robot] = b]
           n == IF rebooted THEN ForgetSource(Now, TopicsOf(Robot)) ELSE Now
           K == (IF rebooted THEN TopicsOf(Robot) ELSE {}) \cup Deferred(n)
<1>1. /\ Good(Now) /\ CountedExcept(Now, {}) /\ Now.topics = mgr.topics
      /\ Now.out = <<>> /\ Now.nextSequence = mgr.nextSequence
      /\ sourceBootId \in Boots /\ Robot \in Source
  BY NowDemand, NowOK, RobotAssumption DEF DemandInv
<1>2. boots \in Boots /\ boots[Robot] = b /\ b # 0
  BY <1>1, BootIdAssumption DEF Boots
<1>3. PICK order \in Orders(boots, ToRequest(n, K)) :
         mgr' = SyncTopics(n, boots, K, order)
  BY DEF ManifestData
<1>4. /\ Starts(mgr, n) /\ DOMAIN n.topics = DOMAIN mgr.topics
      /\ IF rebooted THEN Blank(n) ELSE n.topics = mgr.topics
  <2>1. CASE rebooted
    BY <1>1, <2>1, RebootBlank, ForgetSourceOK
  <2>2. CASE ~rebooted
    BY <1>1, <2>2 DEF Starts
  <2> QED
    BY <2>1, <2>2
<1> HIDE DEF n, boots
<1>5. K \in SUBSET DOMAIN n.topics
  BY <1>4 DEF TopicsOf, Deferred
<1> HIDE DEF K
<1>6. Prepared(boots[Robot], n, n, {})
  BY <1>2, <1>4, StartPrepared DEF Starts
<1>7. Acted(b, n, mgr', {})
  BY <1>2, <1>3, <1>5, <1>6, SyncTopicsActed
<1> QED
  BY <1>4, <1>7

\* n is m with the answer to seq received by the topic that waits for it.
AnswerTaken(m, n, seq, status, id) ==
  /\ DOMAIN n.topics = DOMAIN m.topics
  /\ \A k \in DOMAIN n.topics :
       /\ n.topics[k].targetBootId = m.topics[k].targetBootId
       /\ IF m.topics[k].inFlightSequence = seq
            THEN /\ n.topics[k].inFlightSequence = 0
                 /\ n.topics[k].subscriptionId = IF status = "SUCCESS" THEN id ELSE 0
                 /\ n.topics[k].subscriptionId # 0 =>
                      n.topics[k].sentRate = m.topics[k].sentRate
                 /\ n.topics[k].deferredForBootId = m.topics[k].deferredForBootId
            ELSE n.topics[k] = m.topics[k]

\* A grant that arrives is of a topic that had a boot.
LEMMA AnswerHeld ==
  ASSUME NEW m, NEW src, Held(m, src), NEW seq, seq # 0, NEW n, NEW status, NEW id,
         AnswerTaken(m, n, seq, status, id)
  PROVE  Held(n, src)
<1> SUFFICES ASSUME NEW k \in Key, Live(n, k)
             PROVE  src # 0 /\ ~n.topics[k].deferredForBootId
  BY DEF Held
<1>1. Live(m, k) => src # 0 /\ ~m.topics[k].deferredForBootId
  BY DEF Held
<1>2. CASE m.topics[k].inFlightSequence = seq
  BY <1>1, <1>2 DEF AnswerTaken, Live
<1>3. CASE m.topics[k].inFlightSequence # seq
  BY <1>1, <1>3 DEF AnswerTaken, Live
<1> QED
  BY <1>2, <1>3

\* A SUBSCRIBE_RESULT, superseded or not.
LEMMA SubscribeResultActed ==
  ASSUME DemandInv, Held(mgr, sourceBootId[Robot]),
         NEW seq \in DOMAIN mgr.pendingSubscribes, NEW status \in Status,
         NEW id \in SubscriptionId \cup {0}, SubscribeResult(seq, status, id)
  PROVE  \E n : /\ Starts(mgr, n) /\ Acted(sourceBootId[Robot], n, mgr', {})
                /\ AnswerTaken(mgr, n, seq, status, id) /\ seq # 0
<1> DEFINE k == Now.pendingSubscribes[seq]
           n == IF Awaited(Now, seq) THEN Received(Now, seq, status, id)
                ELSE Taken(Now, seq)
<1>1. /\ Good(Now) /\ CountedExcept(Now, {}) /\ Now.topics = mgr.topics
      /\ Now.out = <<>> /\ Now.nextSequence = mgr.nextSequence
      /\ Now.pendingSubscribes = mgr.pendingSubscribes
      /\ sourceBootId \in Boots
  BY NowDemand, NowOK DEF DemandInv
<1>0. seq # 0
  BY <1>1 DEF Good, ManagerOK
<1>2. mgr' = HandleSubscribeResult(Now, sourceBootId, seq, status, id)
  BY DEF SubscribeResult
<1>20. ASSUME NEW a, Starts(mgr, a), AnswerTaken(mgr, a, seq, status, id)
       PROVE  Prepared(sourceBootId[Robot], a, a, {})
  <2>1. Held(a, sourceBootId[Robot])
    BY <1>0, <1>20, AnswerHeld
  <2> QED
    BY <1>20, <2>1, StartPrepared DEF Starts, Held
<1>3. CASE Awaited(Now, seq)
  <2>1. Good(n) /\ OneTopicChanges(Now, n, k, AnswerTo(Now.topics[k], status, id))
    BY <1>1, <1>3, ReceivedOK
  <2>2. n.nextSequence = Now.nextSequence
    <3>1. DOMAIN Taken(Now, seq) = Members /\ Taken(Now, seq).nextSequence = Now.nextSequence
      BY <1>1, TakenIs
    <3> QED
      BY <1>3, <3>1 DEF Received, Answered, Members
  <2>3. mgr' = Reconcile(n, sourceBootId, k)
    BY <1>1, <1>2, <1>3, HandleSubscribeResultIs
  <2> HIDE DEF n
  <2>4. k \in DOMAIN n.topics /\ Starts(mgr, n)
    BY <1>1, <2>1, <2>2 DEF OneTopicChanges, Starts
  <2>6. Now.topics[k] \in Topic /\ Now.topics[k].inFlightSequence = seq
    BY <1>1, <1>3 DEF Awaited, Good, ManagerOK
  <2>7. \A j \in DOMAIN Now.topics \ {k} : Now.topics[j].inFlightSequence # seq
    BY <1>0, <1>1, <2>6 DEF Good, Correlated
  <2>8. /\ n.topics[k].inFlightSequence = 0
        /\ n.topics[k].targetBootId = Now.topics[k].targetBootId
        /\ n.topics[k].subscriptionId = IF status = "SUCCESS" THEN id ELSE 0
        /\ n.topics[k].subscriptionId # 0 => n.topics[k].sentRate = Now.topics[k].sentRate
        /\ n.topics[k].deferredForBootId = Now.topics[k].deferredForBootId
    <3> DEFINE t == Now.topics[k]
    <3>1. n.topics[k] = AnswerTo(t, status, id)
      BY <2>1 DEF OneTopicChanges
    <3>2. t \in Topic
      BY <2>6
    <3> HIDE DEF t
    <3>3. /\ AnswerTo(t, status, id).inFlightSequence = 0
          /\ AnswerTo(t, status, id).targetBootId = t.targetBootId
          /\ AnswerTo(t, status, id).subscriptionId = IF status = "SUCCESS" THEN id ELSE 0
          /\ AnswerTo(t, status, id).subscriptionId # 0 =>
               AnswerTo(t, status, id).sentRate = t.sentRate
          /\ AnswerTo(t, status, id).deferredForBootId = t.deferredForBootId
      BY <3>2 DEF AnswerTo, Topic
    <3> QED
      BY <3>1, <3>3 DEF t
  <2>9. DOMAIN n.topics = DOMAIN Now.topics /\ \A j \in DOMAIN Now.topics \ {k} : n.topics[j] = Now.topics[j]
    BY <2>1 DEF OneTopicChanges
  <2> HIDE DEF k
  <2>10. AnswerTaken(mgr, n, seq, status, id)
    BY <1>1, <2>6, <2>7, <2>8, <2>9 DEF AnswerTaken
  <2>11. Prepared(sourceBootId[Robot], n, n, {})
    BY <1>20, <2>4, <2>10
  <2>12. Acted(sourceBootId[Robot], n, mgr', {})
    BY <1>1, <2>3, <2>4, <2>11, ReconcileActed
  <2> QED
    BY <1>0, <2>4, <2>10, <2>12
<1>4. CASE ~Awaited(Now, seq)
  <2>1. n = Taken(Now, seq) /\ Good(n)
    BY <1>1, <1>4, SupersededOK
  <2> HIDE DEF n
  <2>2. n.topics = Now.topics /\ n.out = Now.out /\ n.nextSequence = Now.nextSequence
    <3>1. LET m == Taken(Now, seq)
          IN m.topics = Now.topics /\ m.out = Now.out /\ m.nextSequence = Now.nextSequence
      BY <1>1, TakenIs
    <3> QED
      BY <2>1, <3>1
  <2>3. mgr' = n
    BY <1>1, <1>2, <1>4, <2>1, HandleSubscribeResultIs
  <2>4. Starts(mgr, n)
    BY <1>1, <2>1, <2>2 DEF Starts
  <2>6. \A j \in DOMAIN Now.topics : Now.topics[j].inFlightSequence # seq
    BY <1>0, <1>1, <1>4 DEF Good, Correlated, Awaited
  <2>7. AnswerTaken(mgr, n, seq, status, id)
    BY <1>1, <2>2, <2>6 DEF AnswerTaken
  <2>8. Acted(sourceBootId[Robot], n, mgr', {})
    BY <1>20, <2>3, <2>4, <2>7, SilentlyActed
  <2> QED
    BY <1>0, <2>4, <2>7, <2>8
<1> QED
  BY <1>3, <1>4
-----------------------------------------------------------------------------
(* The order of frames on a link that loses none. m is the manager's object, *)
(* up the link, pb the boot the child knows and src the catalog's, p and d   *)
(* the frames on their way to the robot and back, rb the robot's boot and g  *)
(* every grant it gave.                                                      *)

CatalogBefore(d, j) == \E i \in DOMAIN d : i < j /\ d[i].type = "MANIFEST_DATA"

\* The catalog arrives before the answer to the request at j does.
CatalogFirst(p, j, d) ==
  \/ \E i \in DOMAIN d : d[i].type = "MANIFEST_DATA"
  \/ \E i \in DOMAIN p : i < j /\ p[i].type = "MANIFEST_REQUEST"

\* A grant is the robot's, from the boot the catalog names.
GrantsNamed(m, pb, src, g) ==
  \A k \in DOMAIN m.topics : m.topics[k].subscriptionId # 0 =>
    /\ pb # 0 /\ m.topics[k].targetBootId = src
    /\ [boot |-> m.topics[k].targetBootId, key |-> k, id |-> m.topics[k].subscriptionId] \in g

\* A request is addressed to no later boot than the catalog's.
RequestsAimed(m, src) ==
  \A k \in DOMAIN m.topics :
    m.topics[k].inFlightSequence # 0 => m.topics[k].targetBootId <= src

\* A request on its way is the one its topic waits for, unless none does.
RequestMet(m, pb, p, d, j) ==
  p[j].type = "SUBSCRIBE" =>
    /\ p[j].seq \in 1..(m.nextSequence - 1)
    /\ \A k \in DOMAIN m.topics : m.topics[k].inFlightSequence = p[j].seq =>
         /\ p[j].key = k /\ p[j].boot = m.topics[k].targetBootId
         /\ pb = 0 => CatalogFirst(p, j, d)

\* A grant on its way is one the robot gave in the boot its topic named, and
\* every catalog that comes before it names no later boot.
AnswerMet(m, pb, src, d, g, j) ==
  d[j].type = "SUBSCRIBE_RESULT" =>
    /\ d[j].seq \in 1..(m.nextSequence - 1)
    /\ d[j].status = "SUCCESS" =>
         \A k \in DOMAIN m.topics : m.topics[k].inFlightSequence = d[j].seq =>
           /\ [boot |-> m.topics[k].targetBootId, key |-> k, id |-> d[j].id] \in g
           /\ IF pb = 0 THEN CatalogBefore(d, j) ELSE src <= m.topics[k].targetBootId
           /\ \A i \in DOMAIN d : i < j /\ d[i].type = "MANIFEST_DATA" =>
                d[i].boot <= m.topics[k].targetBootId

\* A link that is up without a catalog has one coming.
CatalogComes(up, pb, p, d) ==
  up /\ pb = 0 => CatalogFirst(p, Len(p) + 1, d)

\* Catalogs arrive in the order of the robot's boots.
BootsRise(src, d, rb) ==
  /\ src <= rb
  /\ \A i \in DOMAIN d : d[i].type = "MANIFEST_DATA" =>
       /\ d[i].boot \in src..rb
       /\ \A j \in DOMAIN d : i < j /\ d[j].type = "MANIFEST_DATA" => d[i].boot <= d[j].boot

\* What was under way when the link went down is awaited by nobody.
StaleWhenDown(up, m, p, d) ==
  ~up => \A k \in DOMAIN m.topics :
           /\ \A j \in DOMAIN p : p[j].type = "SUBSCRIBE" => m.topics[k].inFlightSequence # p[j].seq
           /\ \A j \in DOMAIN d :
                d[j].type = "SUBSCRIBE_RESULT" => m.topics[k].inFlightSequence # d[j].seq

InOrder(m, up, pb, src, p, d, rb, g) ==
  /\ GrantsNamed(m, pb, src, g)
  /\ RequestsAimed(m, src)
  /\ \A j \in DOMAIN p : RequestMet(m, pb, p, d, j)
  /\ \A j \in DOMAIN d : AnswerMet(m, pb, src, d, g, j)
  /\ CatalogComes(up, pb, p, d)
  /\ BootsRise(src, d, rb)
  /\ StaleWhenDown(up, m, p, d)

LinkInOrder ==
  InOrder(mgr, linkUp, child.peerBootId, sourceBootId[Robot], toRobot, toDesk,
          robot.boot, granted)

\* On a link that has lost nothing the frames are in order.
OrderInv ==
  /\ HCInv /\ Held(mgr, sourceBootId[Robot])
  /\ spent.loss = 0 => LinkInOrder

\* A request that is older than the handler is one the object had before.
LEMMA OldStays ==
  ASSUME NEW b, NEW m0, NEW m, Good(m), Moved(b, m0, m), NEW k \in DOMAIN m.topics,
         NEW q \in 1..(m0.nextSequence - 1), m.topics[k].inFlightSequence = q
  PROVE  /\ k \in DOMAIN m0.topics /\ m0.topics[k].inFlightSequence = q
         /\ m.topics[k].targetBootId = m0.topics[k].targetBootId
<1>1. m0.nextSequence \in Nat
  BY DEF Moved, Good, ManagerOK
<1>2. RequestStays(b, m0, m, k) /\ q # 0 /\ ~(q >= m0.nextSequence)
  BY <1>1 DEF Moved
<1> QED
  BY <1>2 DEF RequestStays

\* P starts with the frames of p.
Extends(p, P) == /\ Len(p) \in Nat /\ DOMAIN p = 1..Len(p)
                 /\ \A i \in 1..Len(p) : i \in DOMAIN P /\ P[i] = p[i]

\* A catalog that comes first in p does so in a longer queue.
LEMMA CatalogStaysFirst ==
  ASSUME NEW p, NEW P, Extends(p, P), NEW d, NEW j, CatalogFirst(p, j, d),
         NEW i, \A l \in DOMAIN p : l < j => l < i
  PROVE  CatalogFirst(P, i, d)
BY DEF CatalogFirst, Extends

\* The frames of a handler join the end of what is on its way.
LEMMA SentInOrder ==
  ASSUME NEW m0, NEW m, NEW up \in BOOLEAN, NEW pb, NEW src \in Nat,
         NEW p \in Seq(UpFrame), NEW d \in Seq(DeskFrame), NEW rb, NEW g,
         InOrder(m0, up, pb, src, p, d, rb, g), Good(m), Moved(src, m0, m)
  PROVE  InOrder(m, up, pb, src, IF up THEN p \o m.out ELSE p, d, rb, g)
<1> DEFINE P == IF up THEN p \o m.out ELSE p
<1>1. /\ m0.nextSequence \in 1..m.nextSequence /\ m.nextSequence \in Nat
      /\ \A k \in DOMAIN m.topics : GrantStays(src, m0, m, k) /\ RequestStays(src, m0, m, k)
  BY DEF Moved, Good, ManagerOK
<1>2. m.out \in Seq(UpFrame)
  BY SeqMonotonic DEF Good, ManagerOK, UpFrame
<1>3. /\ Len(p) \in Nat /\ DOMAIN p = 1..Len(p) /\ Len(m.out) \in Nat
      /\ DOMAIN m.out = 1..Len(m.out)
  BY <1>2
<1>4. /\ DOMAIN P = IF up THEN 1..(Len(p) + Len(m.out)) ELSE 1..Len(p)
      /\ Len(P) = IF up THEN Len(p) + Len(m.out) ELSE Len(p)
      /\ \A i \in 1..Len(p) : P[i] = p[i]
      /\ up => \A i \in 1..Len(m.out) : P[Len(p) + i] = m.out[i]
  BY <1>2, <1>3
<1> HIDE DEF P
<1>5. Extends(p, P)
  BY <1>3, <1>4 DEF Extends
<1>6. /\ GrantsNamed(m0, pb, src, g) /\ RequestsAimed(m0, src)
      /\ \A j \in DOMAIN p : RequestMet(m0, pb, p, d, j)
      /\ \A j \in DOMAIN d : AnswerMet(m0, pb, src, d, g, j)
      /\ CatalogComes(up, pb, p, d) /\ BootsRise(src, d, rb)
      /\ StaleWhenDown(up, m0, p, d)
  BY DEF InOrder
<1>7. GrantsNamed(m, pb, src, g)
  BY <1>1, <1>6 DEF GrantsNamed, GrantStays
<1>8. RequestsAimed(m, src)
  BY <1>1, <1>6 DEF RequestsAimed, RequestStays
<1>9. ASSUME NEW j \in DOMAIN P PROVE RequestMet(m, pb, P, d, j)
  <2> SUFFICES ASSUME P[j].type = "SUBSCRIBE" PROVE RequestMet(m, pb, P, d, j)
    BY DEF RequestMet
  <2>1. CASE j \in 1..Len(p)
    <3>1. P[j] = p[j] /\ RequestMet(m0, pb, p, d, j) /\ j \in DOMAIN p
      BY <1>3, <1>4, <1>6, <2>1
    <3>2. P[j].seq \in 1..(m0.nextSequence - 1) /\ P[j].seq \in 1..(m.nextSequence - 1)
      BY <1>1, <3>1 DEF RequestMet
    <3>3. ASSUME NEW k \in DOMAIN m.topics, m.topics[k].inFlightSequence = P[j].seq
          PROVE  /\ P[j].key = k /\ P[j].boot = m.topics[k].targetBootId
                 /\ pb = 0 => CatalogFirst(P, j, d)
      <4>1. /\ k \in DOMAIN m0.topics /\ m0.topics[k].inFlightSequence = p[j].seq
            /\ m.topics[k].targetBootId = m0.topics[k].targetBootId
        BY <3>1, <3>2, <3>3, OldStays
      <4>2. /\ p[j].key = k /\ p[j].boot = m0.topics[k].targetBootId
            /\ pb = 0 => CatalogFirst(p, j, d)
        BY <3>1, <4>1 DEF RequestMet
      <4> QED
        BY <1>5, <3>1, <4>1, <4>2, CatalogStaysFirst
    <3> QED
      BY <3>2, <3>3 DEF RequestMet
  <2>2. CASE j \notin 1..Len(p)
    <3> DEFINE i == j - Len(p)
    <3>1. up /\ i \in 1..Len(m.out) /\ P[j] = m.out[i]
      BY <1>3, <1>4, <2>2
    <3> HIDE DEF i
    <3>2. /\ P[j].seq \in m0.nextSequence..(m.nextSequence - 1)
          /\ \A k \in DOMAIN m.topics : m.topics[k].inFlightSequence = P[j].seq =>
               P[j].key = k /\ P[j].boot = m.topics[k].targetBootId
      BY <1>3, <3>1 DEF Moved, Asks
    <3>3. P[j].seq \in 1..(m.nextSequence - 1)
      BY <1>1, <3>2
    <3>4. pb = 0 => CatalogFirst(p, Len(p) + 1, d)
      BY <1>6, <3>1 DEF CatalogComes
    <3>5. \A l \in DOMAIN p : l < Len(p) + 1 => l < j
      BY <1>3, <1>4, <2>2
    <3>6. pb = 0 => CatalogFirst(P, j, d)
      BY <1>5, <3>4, <3>5, CatalogStaysFirst
    <3> QED
      BY <3>2, <3>3, <3>6 DEF RequestMet
  <2> QED
    BY <2>1, <2>2
<1>10. ASSUME NEW j \in DOMAIN d PROVE AnswerMet(m, pb, src, d, g, j)
  <2> SUFFICES ASSUME d[j].type = "SUBSCRIBE_RESULT" PROVE AnswerMet(m, pb, src, d, g, j)
    BY DEF AnswerMet
  <2>1. AnswerMet(m0, pb, src, d, g, j)
    BY <1>6
  <2>2. d[j].seq \in 1..(m0.nextSequence - 1) /\ d[j].seq \in 1..(m.nextSequence - 1)
    BY <1>1, <2>1 DEF AnswerMet
  <2>3. ASSUME NEW k \in DOMAIN m.topics, m.topics[k].inFlightSequence = d[j].seq
        PROVE  /\ k \in DOMAIN m0.topics /\ m0.topics[k].inFlightSequence = d[j].seq
               /\ m.topics[k].targetBootId = m0.topics[k].targetBootId
    BY <2>2, <2>3, OldStays
  <2> QED
    BY <2>1, <2>2, <2>3 DEF AnswerMet
<1>11. CatalogComes(up, pb, P, d)
  <2> SUFFICES ASSUME up, pb = 0 PROVE CatalogFirst(P, Len(P) + 1, d)
    BY DEF CatalogComes
  <2>1. CatalogFirst(p, Len(p) + 1, d)
    BY <1>6 DEF CatalogComes
  <2>2. \A l \in DOMAIN p : l < Len(p) + 1 => l < Len(P) + 1
    BY <1>3, <1>4
  <2> QED
    BY <1>5, <2>1, <2>2, CatalogStaysFirst
<1>12. StaleWhenDown(up, m, P, d)
  <2> SUFFICES ASSUME ~up, NEW k \in DOMAIN m.topics
               PROVE  /\ \A j \in DOMAIN P : P[j].type = "SUBSCRIBE" =>
                           m.topics[k].inFlightSequence # P[j].seq
                      /\ \A j \in DOMAIN d : d[j].type = "SUBSCRIBE_RESULT" =>
                           m.topics[k].inFlightSequence # d[j].seq
    BY DEF StaleWhenDown
  <2>1. P = p
    BY DEF P
  <2>2. ASSUME NEW j \in DOMAIN p, p[j].type = "SUBSCRIBE",
               m.topics[k].inFlightSequence = p[j].seq
        PROVE  FALSE
    <3>1. p[j].seq \in 1..(m0.nextSequence - 1)
      BY <1>6, <2>2 DEF RequestMet
    <3>2. k \in DOMAIN m0.topics /\ m0.topics[k].inFlightSequence = p[j].seq
      BY <2>2, <3>1, OldStays
    <3> QED
      BY <1>6, <2>2, <3>2 DEF StaleWhenDown
  <2>3. ASSUME NEW j \in DOMAIN d, d[j].type = "SUBSCRIBE_RESULT",
               m.topics[k].inFlightSequence = d[j].seq
        PROVE  FALSE
    <3>1. d[j].seq \in 1..(m0.nextSequence - 1)
      BY <1>6, <2>3 DEF AnswerMet
    <3>2. k \in DOMAIN m0.topics /\ m0.topics[k].inFlightSequence = d[j].seq
      BY <2>3, <3>1, OldStays
    <3> QED
      BY <1>6, <2>3, <3>2 DEF StaleWhenDown
  <2> QED
    BY <2>1, <2>2, <2>3
<1>13. InOrder(m, up, pb, src, P, d, rb, g)
  BY <1>6, <1>7, <1>8, <1>9, <1>10, <1>11, <1>12 DEF InOrder
<1> QED
  BY <1>13 DEF P

\* A request for the catalog joins them.
LEMMA CatalogRequested ==
  ASSUME NEW m, NEW up, NEW pb, NEW src, NEW p \in Seq(UpFrame), NEW d, NEW rb, NEW g,
         InOrder(m, up, pb, src, p, d, rb, g)
  PROVE  /\ InOrder(m, up, pb, src, p \o <<ManifestRequest>>, d, rb, g)
         /\ CatalogFirst(p \o <<ManifestRequest>>, Len(p \o <<ManifestRequest>>) + 1, d)
<1> DEFINE P == p \o <<ManifestRequest>>
<1>1. Len(p) \in Nat /\ DOMAIN p = 1..Len(p)
  OBVIOUS
<1>2. <<ManifestRequest>> \in Seq(UpFrame)
  BY DEF UpFrame
<1>3. /\ DOMAIN P = 1..(Len(p) + 1) /\ Len(P) = Len(p) + 1
      /\ \A i \in 1..Len(p) : P[i] = p[i]
      /\ P[Len(p) + 1] = ManifestRequest
  BY <1>1, <1>2
<1>4. ManifestRequest.type = "MANIFEST_REQUEST"
  BY DEF ManifestRequest
<1> HIDE DEF P
<1>5. Extends(p, P)
  BY <1>1, <1>3 DEF Extends
<1>6. CatalogFirst(P, Len(P) + 1, d)
  BY <1>1, <1>3, <1>4 DEF CatalogFirst
<1>7. ASSUME NEW j \in DOMAIN P, P[j].type = "SUBSCRIBE"
      PROVE  j \in DOMAIN p /\ P[j] = p[j]
  BY <1>1, <1>3, <1>4, <1>7
<1>8. ASSUME NEW j \in DOMAIN P PROVE RequestMet(m, pb, P, d, j)
  <2> SUFFICES ASSUME P[j].type = "SUBSCRIBE" PROVE RequestMet(m, pb, P, d, j)
    BY DEF RequestMet
  <2>1. j \in DOMAIN p /\ P[j] = p[j] /\ RequestMet(m, pb, p, d, j)
    BY <1>7 DEF InOrder
  <2>2. CatalogFirst(p, j, d) => CatalogFirst(P, j, d)
    BY <1>5, CatalogStaysFirst
  <2> QED
    BY <2>1, <2>2 DEF RequestMet
<1>9. StaleWhenDown(up, m, P, d)
  BY <1>7 DEF InOrder, StaleWhenDown
<1>10. InOrder(m, up, pb, src, P, d, rb, g)
  BY <1>6, <1>8, <1>9 DEF InOrder, CatalogComes
<1> QED
  BY <1>6, <1>10 DEF P

\* A blank object has nothing to put in order.
LEMMA BlankInOrder ==
  ASSUME NEW m, NEW up, NEW pb, NEW src, NEW p, NEW d, NEW rb, NEW g,
         InOrder(m, up, pb, src, p, d, rb, g),
         NEW n, Blank(n), n.nextSequence = m.nextSequence,
         NEW up2, NEW pb2, CatalogComes(up2, pb2, p, d)
  PROVE  InOrder(n, up2, pb2, src, p, d, rb, g)
<1>1. \A k \in DOMAIN n.topics : n.topics[k].subscriptionId = 0 /\ n.topics[k].inFlightSequence = 0
  BY DEF Blank
<1>2. /\ \A j \in DOMAIN p : p[j].type = "SUBSCRIBE" =>
           p[j].seq \in 1..(n.nextSequence - 1) /\ p[j].seq # 0
      /\ \A j \in DOMAIN d : d[j].type = "SUBSCRIBE_RESULT" =>
           d[j].seq \in 1..(n.nextSequence - 1) /\ d[j].seq # 0
  BY DEF InOrder, RequestMet, AnswerMet
<1>3. GrantsNamed(n, pb2, src, g) /\ RequestsAimed(n, src)
  BY <1>1 DEF GrantsNamed, RequestsAimed
<1>4. /\ \A j \in DOMAIN p : RequestMet(n, pb2, p, d, j)
      /\ \A j \in DOMAIN d : AnswerMet(n, pb2, src, d, g, j)
      /\ StaleWhenDown(up2, n, p, d)
  BY <1>1, <1>2 DEF RequestMet, AnswerMet, StaleWhenDown
<1> QED
  BY <1>3, <1>4 DEF InOrder

\* Taking the head of a queue.
LEMMA TailIs ==
  ASSUME NEW S, NEW s \in Seq(S), s # <<>>
  PROVE  /\ Tail(s) \in Seq(S) /\ Head(s) \in S /\ 1 \in DOMAIN s /\ Head(s) = s[1]
         /\ Len(s) \in Nat \ {0} /\ DOMAIN s = 1..Len(s)
         /\ Len(Tail(s)) = Len(s) - 1 /\ DOMAIN Tail(s) = 1..(Len(s) - 1)
         /\ \A i \in DOMAIN Tail(s) : i + 1 \in DOMAIN s /\ Tail(s)[i] = s[i + 1]
<1>1. Tail(s) \in Seq(S) /\ Head(s) = s[1] /\ Len(Tail(s)) = Len(s) - 1
  BY HeadTailProperties
<1>2. Len(s) \in Nat \ {0} /\ DOMAIN s = 1..Len(s)
  BY EmptySeq
<1>3. DOMAIN Tail(s) = 1..(Len(s) - 1)
  BY <1>1, <1>2
<1>4. ASSUME NEW i \in 1..(Len(s) - 1) PROVE Tail(s)[i] = s[i + 1]
  BY <1>2, <1>4
<1>5. s[1] \in S
  BY <1>2
<1> QED
  BY <1>1, <1>2, <1>3, <1>4, <1>5

\* The child takes a frame that is no catalog, or takes none while it is down.
LEMMA TakenInOrder ==
  ASSUME NEW m, NEW up, NEW pb, NEW src, NEW p, NEW d \in Seq(DeskFrame), NEW rb, NEW g,
         InOrder(m, up, pb, src, p, d, rb, g),
         d # <<>>, ~up \/ Head(d).type # "MANIFEST_DATA"
  PROVE  InOrder(m, up, pb, src, p, Tail(d), rb, g)
<1> DEFINE D == Tail(d)
<1>1. /\ 1 \in DOMAIN d /\ Head(d) = d[1] /\ Len(d) \in Nat \ {0}
      /\ DOMAIN d = 1..Len(d) /\ DOMAIN D = 1..(Len(d) - 1)
      /\ \A i \in DOMAIN D : i + 1 \in DOMAIN d /\ D[i] = d[i + 1]
  BY TailIs
<1> HIDE DEF D
<1>2. ASSUME NEW i \in DOMAIN d, d[i].type = "MANIFEST_DATA", up
      PROVE  i - 1 \in DOMAIN D /\ D[i - 1] = d[i] /\ i \in Int
  <2>1. i # 1 /\ i \in 1..Len(d)
    BY <1>1, <1>2
  <2>2. i - 1 \in DOMAIN D /\ (i - 1) + 1 = i
    BY <1>1, <2>1
  <2> QED
    BY <1>1, <2>1, <2>2
<1>3. ASSUME NEW j, up, CatalogFirst(p, j, d) PROVE CatalogFirst(p, j, D)
  BY <1>2, <1>3 DEF CatalogFirst
<1>4. CatalogComes(up, pb, p, D)
  BY <1>3 DEF InOrder, CatalogComes
<1>5. BootsRise(src, D, rb)
  <2>1. ASSUME NEW i \in DOMAIN D, D[i].type = "MANIFEST_DATA"
        PROVE  /\ D[i].boot \in src..rb
               /\ \A j \in DOMAIN D : i < j /\ D[j].type = "MANIFEST_DATA" => D[i].boot <= D[j].boot
    <3>1. i + 1 \in DOMAIN d /\ D[i] = d[i + 1]
      BY <1>1
    <3>2. ASSUME NEW j \in DOMAIN D, i < j, D[j].type = "MANIFEST_DATA"
          PROVE  j + 1 \in DOMAIN d /\ D[j] = d[j + 1] /\ i + 1 < j + 1
      BY <1>1, <3>2
    <3> QED
      BY <2>1, <3>1, <3>2 DEF InOrder, BootsRise
  <2> QED
    BY <2>1 DEF InOrder, BootsRise
<1>6. StaleWhenDown(up, m, p, D)
  <2> SUFFICES ASSUME ~up, NEW k \in DOMAIN m.topics
               PROVE  /\ \A j \in DOMAIN p : p[j].type = "SUBSCRIBE" =>
                           m.topics[k].inFlightSequence # p[j].seq
                      /\ \A j \in DOMAIN D : D[j].type = "SUBSCRIBE_RESULT" =>
                           m.topics[k].inFlightSequence # D[j].seq
    BY DEF StaleWhenDown
  <2> QED
    BY <1>1 DEF InOrder, StaleWhenDown
<1>7. ASSUME NEW j \in DOMAIN p PROVE RequestMet(m, pb, p, D, j)
  <2>1. RequestMet(m, pb, p, d, j)
    BY DEF InOrder
  <2>2. CASE up
    BY <1>3, <2>1, <2>2 DEF RequestMet
  <2>3. CASE ~up
    BY <2>1, <2>3 DEF InOrder, RequestMet, StaleWhenDown
  <2> QED
    BY <2>2, <2>3
<1>8. ASSUME NEW j \in DOMAIN D PROVE AnswerMet(m, pb, src, D, g, j)
  <2>1. j + 1 \in DOMAIN d /\ D[j] = d[j + 1] /\ AnswerMet(m, pb, src, d, g, j + 1)
    BY <1>1 DEF InOrder
  <2>2. CASE up
    <3>1. CatalogBefore(d, j + 1) => CatalogBefore(D, j)
      <4> SUFFICES ASSUME NEW i \in DOMAIN d, i < j + 1, d[i].type = "MANIFEST_DATA"
                   PROVE  CatalogBefore(D, j)
        BY DEF CatalogBefore
      <4>1. i - 1 \in DOMAIN D /\ D[i - 1] = d[i] /\ i - 1 < j
        BY <1>1, <1>2, <2>2
      <4> QED
        BY <4>1 DEF CatalogBefore
    <3>2. ASSUME NEW i \in DOMAIN D, i < j, D[i].type = "MANIFEST_DATA"
          PROVE  i + 1 \in DOMAIN d /\ i + 1 < j + 1 /\ D[i] = d[i + 1]
      BY <1>1, <3>2
    <3> QED
      BY <2>1, <3>1, <3>2 DEF AnswerMet
  <2>3. CASE ~up
    <3>1. d[j + 1].type = "SUBSCRIBE_RESULT" =>
            \A k \in DOMAIN m.topics : m.topics[k].inFlightSequence # d[j + 1].seq
      BY <2>1, <2>3 DEF InOrder, StaleWhenDown
    <3> QED
      BY <2>1, <3>1 DEF AnswerMet
  <2> QED
    BY <2>2, <2>3
<1>9. InOrder(m, up, pb, src, p, D, rb, g)
  BY <1>4, <1>5, <1>6, <1>7, <1>8 DEF InOrder
<1> QED
  BY <1>9 DEF D

\* A topic is addressed to a number.
LEMMA TargetIsNumber ==
  ASSUME NEW m, Good(m), NEW k \in DOMAIN m.topics
  PROVE  m.topics[k].targetBootId \in Nat
<1>1. m.topics[k] \in Topic
  BY DEF Good, ManagerOK
<1>2. m.topics[k].targetBootId \in BootId \cup {0}
  BY <1>1 DEF Topic
<1>3. \A b \in BootId \cup {0} : b \in Nat
  BY BootIdAssumption
<1> QED
  BY <1>2, <1>3

\* The child takes an answer: a grant it then holds is from the catalog's boot.
LEMMA AnswerInOrder ==
  ASSUME NEW m, NEW pb, NEW src \in Nat, NEW p, NEW d \in Seq(DeskFrame), NEW rb, NEW g,
         Good(m), InOrder(m, TRUE, pb, src, p, d, rb, g),
         d # <<>>, Head(d).type = "SUBSCRIBE_RESULT",
         NEW n, n.nextSequence = m.nextSequence,
         AnswerTaken(m, n, Head(d).seq, Head(d).status, Head(d).id)
  PROVE  InOrder(n, TRUE, pb, src, p, Tail(d), rb, g)
<1> DEFINE f == Head(d)
<1>1. /\ 1 \in DOMAIN d /\ f = d[1] /\ f \in DeskFrame
      /\ DOMAIN d = 1..Len(d) /\ Len(d) \in Nat
  BY TailIs
<1>2. AnswerMet(m, pb, src, d, g, 1)
  BY <1>1 DEF InOrder
<1>3. ASSUME NEW k \in DOMAIN n.topics
      PROVE  /\ k \in DOMAIN m.topics
             /\ n.topics[k].targetBootId = m.topics[k].targetBootId
             /\ IF m.topics[k].inFlightSequence = f.seq
                  THEN /\ n.topics[k].inFlightSequence = 0
                       /\ n.topics[k].subscriptionId = IF f.status = "SUCCESS" THEN f.id ELSE 0
                  ELSE n.topics[k] = m.topics[k]
  BY DEF AnswerTaken
<1>4. f.seq # 0
  BY <1>1, <1>2 DEF AnswerMet
<1> HIDE DEF f
<1>5. GrantsNamed(n, pb, src, g)
  <2> SUFFICES ASSUME NEW k \in DOMAIN n.topics, n.topics[k].subscriptionId # 0
               PROVE  /\ pb # 0 /\ n.topics[k].targetBootId = src
                      /\ [boot |-> n.topics[k].targetBootId, key |-> k,
                          id |-> n.topics[k].subscriptionId] \in g
    BY DEF GrantsNamed
  <2>1. CASE m.topics[k].inFlightSequence = f.seq
    <3>1. f.status = "SUCCESS" /\ n.topics[k].subscriptionId = f.id
      BY <1>3, <2>1
    <3>2. /\ [boot |-> m.topics[k].targetBootId, key |-> k, id |-> f.id] \in g
          /\ IF pb = 0 THEN CatalogBefore(d, 1) ELSE src <= m.topics[k].targetBootId
      BY <1>1, <1>2, <1>3, <2>1, <3>1 DEF AnswerMet, f
    <3>3. ~CatalogBefore(d, 1)
      BY <1>1 DEF CatalogBefore
    <3>4. m.topics[k].targetBootId <= src
      BY <1>3, <1>4, <2>1 DEF InOrder, RequestsAimed
    <3>5. m.topics[k].targetBootId \in Nat
      BY <1>3, TargetIsNumber
    <3> QED
      BY <1>3, <3>1, <3>2, <3>3, <3>4, <3>5
  <2>2. CASE m.topics[k].inFlightSequence # f.seq
    <3>1. k \in DOMAIN m.topics /\ n.topics[k] = m.topics[k]
      BY <1>3, <2>2
    <3> QED
      BY <3>1 DEF InOrder, GrantsNamed
  <2> QED
    BY <2>1, <2>2
<1>6. ASSUME NEW k \in DOMAIN n.topics, NEW q, q # 0, n.topics[k].inFlightSequence = q
      PROVE  /\ k \in DOMAIN m.topics /\ m.topics[k].inFlightSequence = q
             /\ n.topics[k].targetBootId = m.topics[k].targetBootId
  BY <1>3, <1>6
<1>7. RequestsAimed(n, src)
  BY <1>6 DEF InOrder, RequestsAimed
<1>8. ASSUME NEW j \in DOMAIN p PROVE RequestMet(n, pb, p, d, j)
  <2>1. RequestMet(m, pb, p, d, j)
    BY DEF InOrder
  <2>2. p[j].type = "SUBSCRIBE" => p[j].seq # 0
    BY <2>1 DEF RequestMet
  <2> QED
    BY <1>6, <2>1, <2>2 DEF RequestMet
<1>9. ASSUME NEW j \in DOMAIN d PROVE AnswerMet(n, pb, src, d, g, j)
  <2>1. AnswerMet(m, pb, src, d, g, j)
    BY DEF InOrder
  <2>2. d[j].type = "SUBSCRIBE_RESULT" => d[j].seq # 0
    BY <2>1 DEF AnswerMet
  <2> QED
    BY <1>6, <2>1, <2>2 DEF AnswerMet
<1>10. InOrder(n, TRUE, pb, src, p, d, rb, g)
  BY <1>5, <1>7, <1>8, <1>9 DEF InOrder, StaleWhenDown
<1> QED
  BY <1>10, TakenInOrder

\* The child takes a catalog: the boots of the child and of TelemetryCatalog are
\* its, and a reboot has left nothing to put in order.
LEMMA CatalogInOrder ==
  ASSUME NEW m, NEW pb, NEW src \in Nat, NEW p, NEW d \in Seq(DeskFrame), NEW rb \in Nat, NEW g,
         Good(m), InOrder(m, TRUE, pb, src, p, d, rb, g), pb # 0 => pb = src,
         d # <<>>, Head(d).type = "MANIFEST_DATA",
         NEW b, b = Head(d).boot, b # 0,
         NEW n, n.nextSequence = m.nextSequence,
         IF pb # 0 /\ b # pb THEN Blank(n) ELSE n.topics = m.topics
  PROVE  InOrder(n, TRUE, b, b, p, Tail(d), rb, g)
<1> DEFINE D == Tail(d)
<1>1. /\ 1 \in DOMAIN d /\ Head(d) = d[1] /\ Len(d) \in Nat \ {0}
      /\ DOMAIN d = 1..Len(d) /\ DOMAIN D = 1..(Len(d) - 1)
      /\ \A i \in DOMAIN D : i + 1 \in DOMAIN d /\ D[i] = d[i + 1]
  BY TailIs
<1> HIDE DEF D
<1>2. /\ BootsRise(src, d, rb) /\ b \in src..rb
      /\ \A j \in DOMAIN d : 1 < j /\ d[j].type = "MANIFEST_DATA" => b <= d[j].boot
  BY <1>1 DEF InOrder, BootsRise
<1>3. BootsRise(b, D, rb)
  <2>1. ASSUME NEW i \in DOMAIN D, D[i].type = "MANIFEST_DATA"
        PROVE  /\ D[i].boot \in b..rb
               /\ \A j \in DOMAIN D : i < j /\ D[j].type = "MANIFEST_DATA" => D[i].boot <= D[j].boot
    <3>1. i + 1 \in DOMAIN d /\ D[i] = d[i + 1] /\ 1 < i + 1
      BY <1>1
    <3>2. ASSUME NEW j \in DOMAIN D, i < j, D[j].type = "MANIFEST_DATA"
          PROVE  j + 1 \in DOMAIN d /\ D[j] = d[j + 1] /\ i + 1 < j + 1
      BY <1>1, <3>2
    <3>3. D[i].boot \in src..rb /\ b <= D[i].boot
      BY <1>2, <2>1, <3>1 DEF BootsRise
    <3> QED
      BY <1>2, <2>1, <3>1, <3>2, <3>3 DEF BootsRise
  <2> QED
    BY <1>2, <2>1 DEF BootsRise
<1>4. \A k \in DOMAIN n.topics : n.topics[k].subscriptionId # 0 =>
        /\ k \in DOMAIN m.topics /\ n.topics[k] = m.topics[k]
        /\ pb # 0 /\ b = src
  BY DEF Blank, InOrder, GrantsNamed
<1>5. GrantsNamed(n, b, b, g)
  BY <1>4 DEF InOrder, GrantsNamed
<1>6. /\ \A j \in DOMAIN p : p[j].type = "SUBSCRIBE" =>
           p[j].seq \in 1..(n.nextSequence - 1) /\ p[j].seq # 0
      /\ \A j \in DOMAIN d : d[j].type = "SUBSCRIBE_RESULT" =>
           d[j].seq \in 1..(n.nextSequence - 1) /\ d[j].seq # 0
  BY DEF InOrder, RequestMet, AnswerMet
<1>7. ASSUME NEW k \in DOMAIN n.topics, n.topics[k].inFlightSequence # 0
      PROVE  /\ k \in DOMAIN m.topics /\ n.topics[k] = m.topics[k]
             /\ pb # 0 => b = src
  BY <1>7 DEF Blank
<1>8. RequestsAimed(n, b)
  <2> SUFFICES ASSUME NEW k \in DOMAIN n.topics, n.topics[k].inFlightSequence # 0
               PROVE  n.topics[k].targetBootId <= b
    BY DEF RequestsAimed
  <2>1. k \in DOMAIN m.topics /\ n.topics[k] = m.topics[k]
    BY <1>7
  <2>2. n.topics[k].targetBootId <= src
    BY <2>1 DEF InOrder, RequestsAimed
  <2>3. m.topics[k].targetBootId \in Nat
    BY <2>1, TargetIsNumber
  <2> QED
    BY <1>2, <2>1, <2>2, <2>3
<1>9. ASSUME NEW j \in DOMAIN p PROVE RequestMet(n, b, p, D, j)
  <2>1. RequestMet(m, pb, p, d, j)
    BY DEF InOrder
  <2> QED
    BY <1>6, <1>7, <2>1 DEF RequestMet
<1>10. ASSUME NEW j \in DOMAIN D PROVE AnswerMet(n, b, b, D, g, j)
  <2> SUFFICES ASSUME D[j].type = "SUBSCRIBE_RESULT" PROVE AnswerMet(n, b, b, D, g, j)
    BY DEF AnswerMet
  <2>1. /\ j + 1 \in DOMAIN d /\ D[j] = d[j + 1] /\ 1 < j + 1
        /\ AnswerMet(m, pb, src, d, g, j + 1)
    BY <1>1 DEF InOrder
  <2>2. D[j].seq \in 1..(n.nextSequence - 1) /\ D[j].seq # 0
    BY <1>6, <2>1
  <2>3. ASSUME NEW k \in DOMAIN n.topics, n.topics[k].inFlightSequence = D[j].seq,
               D[j].status = "SUCCESS"
        PROVE  /\ [boot |-> n.topics[k].targetBootId, key |-> k, id |-> D[j].id] \in g
               /\ b <= n.topics[k].targetBootId
               /\ \A i \in DOMAIN D : i < j /\ D[i].type = "MANIFEST_DATA" =>
                    D[i].boot <= n.topics[k].targetBootId
    <3>1. k \in DOMAIN m.topics /\ n.topics[k] = m.topics[k]
      BY <1>7, <2>2, <2>3
    <3>2. /\ [boot |-> m.topics[k].targetBootId, key |-> k, id |-> d[j + 1].id] \in g
          /\ \A i \in DOMAIN d : i < j + 1 /\ d[i].type = "MANIFEST_DATA" =>
               d[i].boot <= m.topics[k].targetBootId
      BY <2>1, <2>3, <3>1 DEF AnswerMet
    <3>3. b <= m.topics[k].targetBootId
      BY <1>1, <2>1, <3>2
    <3>4. ASSUME NEW i \in DOMAIN D, i < j, D[i].type = "MANIFEST_DATA"
          PROVE  i + 1 \in DOMAIN d /\ i + 1 < j + 1 /\ D[i] = d[i + 1]
      BY <1>1, <3>4
    <3> QED
      BY <2>1, <3>1, <3>2, <3>3, <3>4
  <2> QED
    BY <2>2, <2>3 DEF AnswerMet
<1>11. InOrder(n, TRUE, b, b, p, D, rb, g)
  BY <1>3, <1>5, <1>8, <1>9, <1>10 DEF InOrder, CatalogComes, StaleWhenDown
<1> QED
  BY <1>11 DEF D

\* x is the robot's answer to f: the catalog of its boot, or a grant for the boot
\* f names, if that is its own.
Answers(f, x, rb, g) ==
  /\ f.type = "MANIFEST_REQUEST" => x.type = "MANIFEST_DATA"
  /\ x.type = "MANIFEST_DATA" => x.boot = rb
  /\ x.type = "SUBSCRIBE_RESULT" =>
       /\ f.type = "SUBSCRIBE" /\ x.seq = f.seq
       /\ x.status = "SUCCESS" =>
            f.boot = rb /\ [boot |-> rb, key |-> f.key, id |-> x.id] \in g

\* The robot answers the frame at the head of its queue.
LEMMA RobotInOrder ==
  ASSUME NEW m, NEW up, NEW pb, NEW src \in Nat, NEW p \in Seq(UpFrame),
         NEW d \in Seq(DeskFrame), NEW rb \in Nat, NEW g,
         InOrder(m, up, pb, src, p, d, rb, g), p # <<>>,
         NEW x \in DeskFrame, NEW G, g \subseteq G, Answers(Head(p), x, rb, G)
  PROVE  InOrder(m, up, pb, src, Tail(p), Append(d, x), rb, G)
<1> DEFINE P == Tail(p)
           D == Append(d, x)
           f == Head(p)
<1>1. /\ 1 \in DOMAIN p /\ f = p[1] /\ Len(p) \in Nat \ {0}
      /\ DOMAIN p = 1..Len(p) /\ DOMAIN P = 1..(Len(p) - 1) /\ Len(P) = Len(p) - 1
      /\ \A i \in DOMAIN P : i + 1 \in DOMAIN p /\ P[i] = p[i + 1]
  BY TailIs
<1>2. /\ Len(d) \in Nat /\ DOMAIN d = 1..Len(d) /\ DOMAIN D = 1..(Len(d) + 1)
      /\ D[Len(d) + 1] = x /\ \A i \in DOMAIN d : i \in DOMAIN D /\ D[i] = d[i]
  BY AppendProperties
<1> HIDE DEF P, D, f
<1>3. Answers(f, x, rb, G)
  BY DEF f
<1>4. ASSUME NEW j, NEW l, \A i \in DOMAIN p : i < j => i - 1 < l, CatalogFirst(p, j, d)
      PROVE  CatalogFirst(P, l, D)
  <2>1. CASE \E i \in DOMAIN d : d[i].type = "MANIFEST_DATA"
    BY <1>2, <2>1 DEF CatalogFirst
  <2>2. ASSUME NEW i \in DOMAIN p, i < j, p[i].type = "MANIFEST_REQUEST"
        PROVE  CatalogFirst(P, l, D)
    <3>1. CASE i = 1
      <4>1. x.type = "MANIFEST_DATA"
        BY <1>1, <1>3, <2>2, <3>1 DEF Answers
      <4>2. Len(d) + 1 \in DOMAIN D /\ D[Len(d) + 1] = x
        BY <1>2
      <4> QED
        BY <4>1, <4>2 DEF CatalogFirst
    <3>2. CASE i # 1
      <4>1. i - 1 \in DOMAIN P /\ (i - 1) + 1 = i /\ i - 1 < l
        BY <1>1, <1>4, <2>2, <3>2
      <4>2. P[i - 1] = p[i]
        BY <1>1, <4>1
      <4> QED
        BY <2>2, <4>1, <4>2 DEF CatalogFirst
    <3> QED
      BY <3>1, <3>2
  <2> QED
    BY <1>4, <2>1, <2>2 DEF CatalogFirst
<1>5. ASSUME NEW j \in DOMAIN P PROVE RequestMet(m, pb, P, D, j)
  <2>1. /\ j + 1 \in DOMAIN p /\ P[j] = p[j + 1] /\ j \in Nat
        /\ RequestMet(m, pb, p, d, j + 1)
    BY <1>1 DEF InOrder
  <2>2. \A i \in DOMAIN p : i < j + 1 => i - 1 < j
    BY <1>1, <2>1
  <2>3. CatalogFirst(p, j + 1, d) => CatalogFirst(P, j, D)
    BY <1>4, <2>2
  <2> QED
    BY <2>1, <2>3 DEF RequestMet
<1>6. CatalogComes(up, pb, P, D)
  <2>1. \A i \in DOMAIN p : i < Len(p) + 1 => i - 1 < Len(P) + 1
    BY <1>1
  <2> QED
    BY <1>4, <2>1 DEF InOrder, CatalogComes
<1>7. \A i \in DOMAIN d : d[i].type = "MANIFEST_DATA" => d[i].boot \in src..rb
  BY DEF InOrder, BootsRise
<1>8. BootsRise(src, D, rb)
  <2>0. src <= rb
    BY DEF InOrder, BootsRise
  <2>1. ASSUME NEW i \in DOMAIN D, D[i].type = "MANIFEST_DATA"
        PROVE  D[i].boot \in src..rb
    BY <1>2, <1>3, <1>7, <2>0, <2>1 DEF Answers
  <2>2. ASSUME NEW i \in DOMAIN D, D[i].type = "MANIFEST_DATA",
               NEW j \in DOMAIN D, i < j, D[j].type = "MANIFEST_DATA"
        PROVE  D[i].boot <= D[j].boot
    <3>1. i \in DOMAIN d /\ D[i] = d[i]
      BY <1>2, <2>2
    <3>2. CASE j \in DOMAIN d
      BY <1>2, <2>2, <3>1, <3>2 DEF InOrder, BootsRise
    <3>3. CASE j = Len(d) + 1
      <4>1. D[j].boot = rb
        BY <1>2, <1>3, <2>2, <3>3 DEF Answers
      <4> QED
        BY <1>7, <2>2, <3>1, <4>1
    <3> QED
      BY <1>2, <3>2, <3>3
  <2> QED
    BY <2>0, <2>1, <2>2 DEF BootsRise
<1>9. RequestMet(m, pb, p, d, 1)
  BY <1>1 DEF InOrder
<1>10. ASSUME NEW j \in DOMAIN D PROVE AnswerMet(m, pb, src, D, G, j)
  <2> SUFFICES ASSUME D[j].type = "SUBSCRIBE_RESULT" PROVE AnswerMet(m, pb, src, D, G, j)
    BY DEF AnswerMet
  <2>1. CASE j \in DOMAIN d
    <3>1. D[j] = d[j] /\ AnswerMet(m, pb, src, d, g, j)
      BY <1>2, <2>1 DEF InOrder
    <3>2. CatalogBefore(d, j) => CatalogBefore(D, j)
      BY <1>2 DEF CatalogBefore
    <3>3. ASSUME NEW i \in DOMAIN D, i < j PROVE i \in DOMAIN d /\ D[i] = d[i]
      BY <1>2, <2>1, <3>3
    <3> QED
      BY <3>1, <3>2, <3>3 DEF AnswerMet
  <2>2. CASE j = Len(d) + 1
    <3>1. D[j] = x /\ x.type = "SUBSCRIBE_RESULT"
      BY <1>2, <2>2
    <3>2. /\ f.type = "SUBSCRIBE" /\ x.seq = f.seq
          /\ x.status = "SUCCESS" =>
               f.boot = rb /\ [boot |-> rb, key |-> f.key, id |-> x.id] \in G
      BY <1>3, <3>1 DEF Answers
    <3>3. /\ f.seq \in 1..(m.nextSequence - 1)
          /\ \A k \in DOMAIN m.topics : m.topics[k].inFlightSequence = f.seq =>
               /\ f.key = k /\ f.boot = m.topics[k].targetBootId
               /\ pb = 0 => CatalogFirst(p, 1, d)
      BY <1>1, <1>9, <3>2 DEF RequestMet
    <3>4. ASSUME NEW k \in DOMAIN m.topics, m.topics[k].inFlightSequence = x.seq,
                 x.status = "SUCCESS"
          PROVE  /\ [boot |-> m.topics[k].targetBootId, key |-> k, id |-> x.id] \in G
                 /\ IF pb = 0 THEN CatalogBefore(D, j) ELSE src <= m.topics[k].targetBootId
                 /\ \A i \in DOMAIN D : i < j /\ D[i].type = "MANIFEST_DATA" =>
                      D[i].boot <= m.topics[k].targetBootId
      <4>1. f.key = k /\ m.topics[k].targetBootId = rb /\ (pb = 0 => CatalogFirst(p, 1, d))
        BY <3>2, <3>3, <3>4
      <4>2. pb = 0 => CatalogBefore(D, j)
        <5> SUFFICES ASSUME pb = 0 PROVE CatalogBefore(D, j)
          OBVIOUS
        <5>1. PICK i \in DOMAIN d : d[i].type = "MANIFEST_DATA"
          BY <1>1, <4>1 DEF CatalogFirst
        <5>2. i \in DOMAIN D /\ D[i] = d[i] /\ i < j
          BY <1>2, <2>2
        <5> QED
          BY <5>1, <5>2 DEF CatalogBefore
      <4>3. src <= rb
        BY DEF InOrder, BootsRise
      <4>4. \A i \in DOMAIN D : i < j /\ D[i].type = "MANIFEST_DATA" => D[i].boot <= rb
        BY <1>2, <1>7, <2>2
      <4> QED
        BY <3>2, <3>4, <4>1, <4>2, <4>3, <4>4
    <3> QED
      BY <3>1, <3>2, <3>3, <3>4 DEF AnswerMet
  <2> QED
    BY <1>2, <2>1, <2>2
<1>11. StaleWhenDown(up, m, P, D)
  <2> SUFFICES ASSUME ~up, NEW k \in DOMAIN m.topics
               PROVE  /\ \A j \in DOMAIN P : P[j].type = "SUBSCRIBE" =>
                           m.topics[k].inFlightSequence # P[j].seq
                      /\ \A j \in DOMAIN D : D[j].type = "SUBSCRIBE_RESULT" =>
                           m.topics[k].inFlightSequence # D[j].seq
    BY DEF StaleWhenDown
  <2>1. /\ \A j \in DOMAIN p : p[j].type = "SUBSCRIBE" =>
             m.topics[k].inFlightSequence # p[j].seq
        /\ \A j \in DOMAIN d : d[j].type = "SUBSCRIBE_RESULT" =>
             m.topics[k].inFlightSequence # d[j].seq
    BY DEF InOrder, StaleWhenDown
  <2>2. x.type = "SUBSCRIBE_RESULT" => m.topics[k].inFlightSequence # x.seq
    BY <1>1, <1>3, <2>1 DEF Answers
  <2> QED
    BY <1>1, <1>2, <2>1, <2>2
<1>12. GrantsNamed(m, pb, src, G) /\ RequestsAimed(m, src)
  BY DEF InOrder, GrantsNamed
<1>13. InOrder(m, up, pb, src, P, D, rb, G)
  BY <1>5, <1>6, <1>8, <1>10, <1>11, <1>12 DEF InOrder
<1> QED
  BY <1>13 DEF P, D

-----------------------------------------------------------------------------
(* Every step keeps the frames in order. *)

\* Of the object, the order of frames depends on the topics and the counter only.
LEMMA SameInOrder ==
  ASSUME NEW m, NEW up, NEW pb, NEW src, NEW p, NEW d, NEW rb, NEW g,
         InOrder(m, up, pb, src, p, d, rb, g),
         NEW n, n.topics = m.topics, n.nextSequence = m.nextSequence
  PROVE  InOrder(n, up, pb, src, p, d, rb, g)
BY DEF InOrder, GrantsNamed, RequestsAimed, RequestMet, AnswerMet, StaleWhenDown

\* The types, as the lemmas above need them.
Setting ==
  /\ DemandInv /\ Good(mgr)
  /\ linkUp \in BOOLEAN
  /\ sourceBootId[Robot] \in Nat /\ robot.boot \in Nat
  /\ child.peerBootId # 0 => child.peerBootId = sourceBootId[Robot]
  /\ toRobot \in Seq(UpFrame) /\ toDesk \in Seq(DeskFrame)

\* They are what HCInv says of them.
LEMMA SettingIs == HCInv => Setting
<1> SUFFICES ASSUME HCInv PROVE Setting
  OBVIOUS
<1>1. \A b \in BootId \cup {0} : b \in Nat
  BY BootIdAssumption
<1>2. sourceBootId \in [Source -> BootId \cup {0}] /\ Robot \in Source
  BY RobotAssumption DEF HCInv, DemandInv, IInv, Boots
<1>3. sourceBootId[Robot] \in BootId \cup {0} /\ robot.boot \in BootId \cup {0}
  BY <1>2 DEF HCInv, LinkTyped, RobotOK
<1>4. DemandInv /\ Good(mgr) /\ linkUp = sessionUp /\ sessionUp \in BOOLEAN
  BY DEF HCInv, ChildOK, DemandInv, IInv
<1> QED
  BY <1>1, <1>3, <1>4 DEF HCInv, ChildOK, LinkTyped, Setting

\* A handler that starts from an object in order sends its frames.
LEMMA HandlerInOrder ==
  ASSUME Setting', NEW n, NEW p \in Seq(UpFrame),
         InOrder(n, linkUp', child'.peerBootId, sourceBootId'[Robot], p, toDesk',
                 robot'.boot, granted'),
         Moved(sourceBootId'[Robot], n, mgr'),
         toRobot' = IF linkUp' THEN p \o mgr'.out ELSE p
  PROVE  LinkInOrder'
<1>1. /\ Good(mgr') /\ linkUp' \in BOOLEAN /\ sourceBootId'[Robot] \in Nat
      /\ toDesk' \in Seq(DeskFrame)
  BY DEF Setting
<1>2. InOrder(mgr', linkUp', child'.peerBootId, sourceBootId'[Robot],
              IF linkUp' THEN p \o mgr'.out ELSE p, toDesk', robot'.boot, granted')
  BY <1>1, SentInOrder
<1> QED
  BY <1>2 DEF LinkInOrder

-----------------------------------------------------------------------------
(* What a step makes of the two queues.                                      *)

\* A handler of the manager that starts with n, and with p on the way to the
\* robot, sends its frames; the requests of L are given up without a word.
Spoke(n, p, L) ==
  /\ Starts(mgr, n) /\ Acted(sourceBootId'[Robot], n, mgr', L)
  /\ p \in Seq(UpFrame)
  /\ toRobot' = IF linkUp' THEN p \o mgr'.out ELSE p
  /\ UNCHANGED <<robot, granted>>

SameLink ==
  /\ linkUp' = linkUp /\ child'.peerBootId = child.peerBootId
  /\ sourceBootId'[Robot] = sourceBootId[Robot]

\* A consumer or a timer calls, or hub.peers reports the peer back.
OnItsOwn(n, p, L) ==
  /\ SameLink /\ toDesk' = toDesk
  /\ n.topics = mgr.topics /\ p = toRobot /\ L \subseteq LateTopics

Takes(p, L) == toDesk # <<>> /\ toDesk' = Tail(toDesk) /\ p = toRobot /\ L = {}

\* The frame is none the child waits for, or the link is down.
Ignores(n, p, L) ==
  /\ Takes(p, L) /\ SameLink /\ n.topics = mgr.topics
  /\ linkUp => /\ Head(toDesk).type # "MANIFEST_DATA"
               /\ Head(toDesk).type = "SUBSCRIBE_RESULT" =>
                    Head(toDesk).seq \notin DOMAIN mgr.pendingSubscribes

\* It is the answer to a SUBSCRIBE.
Learns(n, p, L) ==
  /\ Takes(p, L) /\ SameLink /\ linkUp
  /\ Head(toDesk).type = "SUBSCRIBE_RESULT" /\ Head(toDesk).seq # 0
  /\ AnswerTaken(mgr, n, Head(toDesk).seq, Head(toDesk).status, Head(toDesk).id)

\* It is a catalog: of another boot than the one before, it leaves a blank object.
Discovers(n, p, L) ==
  /\ Takes(p, L) /\ linkUp /\ linkUp' = linkUp
  /\ Head(toDesk).type = "MANIFEST_DATA" /\ Head(toDesk).boot # 0
  /\ sourceBootId'[Robot] = Head(toDesk).boot
  /\ child'.peerBootId = Head(toDesk).boot
  /\ IF child.peerBootId # 0 /\ Head(toDesk).boot # child.peerBootId
       THEN Blank(n) ELSE n.topics = mgr.topics

\* The link comes up: the request for the catalog precedes every SUBSCRIBE.
Connects(n, p, L) ==
  /\ ~linkUp /\ linkUp' /\ child'.peerBootId = 0
  /\ sourceBootId'[Robot] = sourceBootId[Robot] /\ toDesk' = toDesk
  /\ Blank(n) /\ p = toRobot \o <<ManifestRequest>> /\ L = {}

\* It goes down: the answers under way are for nobody.
Disconnects(n, p, L) ==
  /\ LinkDown /\ ~linkUp' /\ child'.peerBootId = 0
  /\ sourceBootId'[Robot] = sourceBootId[Robot] /\ toDesk' = toDesk
  /\ Blank(n) /\ p = toRobot /\ L = {}

Talks(n, p, L) ==
  /\ Spoke(n, p, L)
  /\ \/ OnItsOwn(n, p, L) \/ Ignores(n, p, L) \/ Learns(n, p, L)
     \/ Discovers(n, p, L) \/ Connects(n, p, L) \/ Disconnects(n, p, L)

\* The catalog is asked for, or nothing is.
AsksCatalog ==
  /\ linkUp /\ SameLink
  /\ toRobot' \in {toRobot, toRobot \o <<ManifestRequest>>}
  /\ UNCHANGED <<mgr, sourceBootId, toDesk, robot, granted>>

\* The types, as the lemmas below need them.
TalkSetting == Setting /\ Setting' /\ Held(mgr, sourceBootId[Robot])

\* A handler that starts from the object as it is.
LEMMA NowTalks ==
  ASSUME TalkSetting, NEW L \in SUBSET LateTopics,
         Acted(sourceBootId[Robot], Now, mgr', L), Transmit(mgr'.out),
         UNCHANGED <<linkUp, sourceBootId, toDesk, robot, granted>>,
         child'.peerBootId = child.peerBootId
  PROVE  Talks(Now, toRobot, L)
<1>1. Starts(mgr, Now) /\ Now.topics = mgr.topics
  BY NowPrepared, NowDemand DEF TalkSetting, Setting
<1>2. toRobot \in Seq(UpFrame)
  BY DEF TalkSetting, Setting
<1> QED
  BY <1>1, <1>2 DEF Transmit, Talks, Spoke, OnItsOwn, SameLink

\* The handlers of the child that start from the object as it is.
LEMMA ChildTalks ==
  ASSUME TalkSetting,
         \/ \E k \in Key, r \in Rate : UserAdds(k, r)
         \/ \E h \in DOMAIN mgr.subscribers : UserRemoves(h)
         \/ LeaseTimer
  PROVE  \E n, p, L : Talks(n, p, L)
<1>1. DemandInv /\ Held(mgr, sourceBootId[Robot])
  BY DEF TalkSetting, Setting
<1>2. CASE \/ \E k \in Key, r \in Rate : UserAdds(k, r)
           \/ \E h \in DOMAIN mgr.subscribers : UserRemoves(h)
  <2>1. \/ \E k \in Key, r \in Rate : AddSubscriber(k, r)
        \/ \E h \in DOMAIN mgr.subscribers : RemoveSubscriber(h)
    BY <1>2 DEF UserAdds, UserRemoves
  <2>2. Acted(sourceBootId[Robot], Now, mgr', {})
    BY <1>1, <2>1, ConsumerStepActed
  <2>3. UNCHANGED <<linkUp, child, robot, sourceBootId, toDesk, granted>> /\ Transmit(mgr'.out)
    BY <1>2 DEF UserAdds, UserRemoves, AddSubscriber, RemoveSubscriber
  <2>4. Talks(Now, toRobot, {})
    BY <2>2, <2>3, NowTalks
  <2> QED
    BY <2>4
<1>3. CASE LeaseTimer
  <2>1. PICK late \in SUBSET LateTopics, due \in SUBSET DueTopics :
          RenewDueSubscriptions(late, due)
    BY <1>3 DEF LeaseTimer
  <2>2. late \in SUBSET InFlightTopics /\ due \in SUBSET RenewableTopics
    BY DEF LateTopics, DueTopics
  <2>3. Acted(sourceBootId[Robot], Now, mgr', late)
    BY <1>1, <2>1, <2>2, RenewDueActed
  <2>4. UNCHANGED <<linkUp, child, robot, sourceBootId, toDesk, granted>> /\ Transmit(mgr'.out)
    BY <1>3, <2>1 DEF LeaseTimer, RenewDueSubscriptions
  <2>5. Talks(Now, toRobot, late)
    BY <2>3, <2>4, NowTalks
  <2> QED
    BY <2>5
<1> QED
  BY <1>2, <1>3

\* A report of hub.peers asks again for what is wanted, or for the catalog.
LEMMA PresenceTalks ==
  ASSUME TalkSetting, HCInv, NEW online \in BOOLEAN, NEW boot, PeerPresence(online, boot)
  PROVE  AsksCatalog \/ \E n, p, L : Talks(n, p, L)
<1>1. DemandInv /\ Held(mgr, sourceBootId[Robot]) /\ Robot \in Source
      /\ toRobot \in Seq(UpFrame)
  BY RobotAssumption DEF TalkSetting, Setting
<1>2. linkUp /\ UNCHANGED <<linkUp, robot, toDesk, granted>>
  BY DEF PeerPresence
<1>3. child'.peerBootId = child.peerBootId
  <2>1. child \in ChildView
    BY DEF HCInv, ChildOK
  <2>2. \/ child' = [child EXCEPT !.peerOnline = online]
        \/ child' = [child EXCEPT !.peerOnline = online, !.catalogReceived = FALSE]
    BY DEF PeerPresence
  <2> QED
    BY <2>1, <2>2 DEF ChildView
<1>4. \/ PeerReconnected(Robot) /\ Transmit(mgr'.out)
      \/ UNCHANGED vars /\ (Transmit(<<ManifestRequest>>) \/ Transmit(<<>>))
  BY DEF PeerPresence
<1>5. CASE PeerReconnected(Robot) /\ Transmit(mgr'.out)
  <2>1. Acted(sourceBootId[Robot], Now, mgr', {})
    BY <1>1, <1>5, ReconnectedActed
  <2>2. sourceBootId' = sourceBootId
    BY <1>5 DEF PeerReconnected
  <2>3. Talks(Now, toRobot, {})
    BY <1>2, <1>3, <1>5, <2>1, <2>2, NowTalks
  <2> QED
    BY <2>3
<1>6. CASE UNCHANGED vars /\ (Transmit(<<ManifestRequest>>) \/ Transmit(<<>>))
  <2>1. toRobot \o <<>> = toRobot
    BY <1>1, ConcatEmptySeq
  <2> QED
    BY <1>2, <1>3, <1>6, <2>1 DEF Transmit, AsksCatalog, SameLink, vars
<1> QED
  BY <1>4, <1>5, <1>6

\* The virtual link comes up, or goes down.
LEMMA LinkTalks ==
  ASSUME TalkSetting, LinkUp \/ LinkDown
  PROVE  \E n, p, L : Talks(n, p, L)
<1> DEFINE n == ForgetAll(Now)
           p == toRobot \o <<ManifestRequest>>
<1>1. SessionEstablished \/ SessionLost
  BY DEF LinkUp, LinkDown
<1>2. Starts(mgr, n) /\ Blank(n)
  BY ForgetAllBlank DEF TalkSetting, Setting
<1>3. Acted(sourceBootId[Robot], n, mgr', {})
  BY <1>1, SessionActed DEF TalkSetting, Setting
<1>4. sourceBootId' = sourceBootId /\ toDesk' = toDesk /\ UNCHANGED <<robot, granted>>
      /\ child'.peerBootId = 0
  BY <1>1 DEF SessionEstablished, SessionLost, LinkUp, LinkDown
<1>5. toRobot \in Seq(UpFrame) /\ <<ManifestRequest>> \in Seq(UpFrame)
      /\ mgr'.out \in Seq(UpFrame)
  BY SentType DEF TalkSetting, Setting
<1> HIDE DEF n
<1>6. CASE LinkUp
  <2>1. p \in Seq(UpFrame)
    BY <1>5, ConcatProperties
  <2>2. linkUp' = TRUE /\ ~linkUp /\ toRobot' = toRobot \o (<<ManifestRequest>> \o mgr'.out)
    BY <1>6 DEF LinkUp, Transmit
  <2>3. toRobot \o (<<ManifestRequest>> \o mgr'.out) = p \o mgr'.out
    <3>1. ASSUME NEW s \in Seq(UpFrame), NEW t \in Seq(UpFrame), NEW u \in Seq(UpFrame)
          PROVE  (s \o t) \o u = s \o (t \o u)
      BY ConcatAssociative
    <3> HIDE DEF p
    <3>2. p = toRobot \o <<ManifestRequest>>
      BY DEF p
    <3> QED
      BY <1>5, <3>1, <3>2
  <2>4. Talks(n, p, {})
    BY <1>2, <1>3, <1>4, <2>1, <2>2, <2>3 DEF Talks, Spoke, Connects
  <2> QED
    BY <2>4
<1>7. CASE LinkDown
  <2>1. ~linkUp' /\ toRobot' = toRobot
    BY <1>7 DEF LinkDown
  <2>2. Talks(n, toRobot, {})
    BY <1>2, <1>3, <1>4, <1>5, <1>7, <2>1 DEF Talks, Spoke, Disconnects
  <2> QED
    BY <2>2
<1> QED
  BY <1>6, <1>7

\* The child takes a frame.
LEMMA DeskTalks ==
  ASSUME TalkSetting, DeskReceives
  PROVE  \E n, p, L : Talks(n, p, L)
<1> DEFINE f == Head(toDesk)
           src == sourceBootId[Robot]
           pb == child.peerBootId
<1>1. /\ toDesk # <<>> /\ toDesk' = Tail(toDesk) /\ linkUp' = linkUp
      /\ Transmit(mgr'.out) /\ UNCHANGED <<robot, granted>>
  BY DEF DeskReceives
<1>2. /\ toRobot \in Seq(UpFrame) /\ f \in DeskFrame
      /\ DemandInv /\ Held(mgr, src)
  BY <1>1, TailIs DEF TalkSetting, Setting
<1>3. Takes(toRobot, {}) /\ toRobot' = IF linkUp' THEN toRobot \o mgr'.out ELSE toRobot
  BY <1>1 DEF Takes, Transmit
<1>4. Starts(mgr, Now) /\ Now.topics = mgr.topics /\ Prepared(src, Now, Now, {})
  BY <1>2, NowPrepared, NowDemand
<1>5. ASSUME mgr' = Now, UNCHANGED <<sourceBootId, child>>, ~linkUp \/ Unsolicited(f)
      PROVE  Talks(Now, toRobot, {})
  <2>1. linkUp => /\ f.type # "MANIFEST_DATA"
                  /\ f.type = "SUBSCRIBE_RESULT" => f.seq \notin DOMAIN mgr.pendingSubscribes
    BY <1>5 DEF Unsolicited
  <2>2. Acted(src, Now, Now, {})
    BY <1>4, SilentlyActed
  <2> QED
    BY <1>1, <1>2, <1>3, <1>4, <1>5, <2>1, <2>2 DEF Talks, Spoke, Ignores, SameLink
<1>6. ASSUME linkUp, f.type = "SUBSCRIBE_RESULT", SubscribeResult(f.seq, f.status, f.id),
             UNCHANGED child
      PROVE  \E n : Talks(n, toRobot, {})
  <2>1. /\ f.seq \in DOMAIN mgr.pendingSubscribes /\ f.status \in Status
        /\ f.id \in SubscriptionId \cup {0} /\ sourceBootId' = sourceBootId
    BY <1>2, <1>6, FrameKinds DEF SubscribeResult
  <2>2. PICK n : /\ Starts(mgr, n) /\ Acted(src, n, mgr', {})
                 /\ AnswerTaken(mgr, n, f.seq, f.status, f.id) /\ f.seq # 0
    BY <1>2, <1>6, <2>1, SubscribeResultActed
  <2>3. Talks(n, toRobot, {})
    BY <1>1, <1>2, <1>3, <1>6, <2>1, <2>2 DEF Talks, Spoke, Learns, SameLink
  <2> QED
    BY <2>3
<1>7. ASSUME linkUp, f.type = "UNSUBSCRIBE_RESULT", UnsubscribeResult(f.seq),
             UNCHANGED child
      PROVE  Talks(Now, toRobot, {})
  <2>1. f.seq \in DOMAIN mgr.pendingUnsubscribes /\ sourceBootId' = sourceBootId
    BY <1>7 DEF UnsubscribeResult
  <2>2. Acted(src, Now, mgr', {})
    BY <1>2, <1>7, <2>1, UnsubscribeResultActed
  <2> QED
    BY <1>1, <1>2, <1>3, <1>4, <1>7, <2>1, <2>2 DEF Talks, Spoke, Ignores, SameLink
<1>8. ASSUME linkUp, f.type = "MANIFEST_DATA", ReceiveManifest(f)
      PROVE  \E n : Talks(n, toRobot, {})
  <2> DEFINE rebooted == pb # 0 /\ f.boot # pb
  <2>1. /\ ManifestData(Robot, f.boot, rebooted)
        /\ child' = [child EXCEPT !.peerBootId = f.boot, !.catalogReceived = TRUE]
    BY <1>8 DEF ReceiveManifest
  <2>2. f.boot \in BootId /\ f.boot # 0 /\ rebooted \in BOOLEAN
    BY <1>2, <1>8, FrameKinds, BootIdAssumption
  <2>3. sourceBootId'[Robot] = f.boot
    <3>1. sourceBootId' = [sourceBootId EXCEPT ![Robot] = f.boot]
      BY <2>1 DEF ManifestData
    <3>2. sourceBootId \in Boots /\ Robot \in Source
      BY <1>2, NowDemand, RobotAssumption
    <3> QED
      BY <3>1, <3>2 DEF Boots
  <2>4. PICK n : /\ Starts(mgr, n) /\ Acted(f.boot, n, mgr', {})
                 /\ IF rebooted THEN Blank(n) ELSE n.topics = mgr.topics
    BY <1>2, <2>1, <2>2, ManifestActed
  <2>5. child'.peerBootId = f.boot
    <3>1. child'.peerBootId # 0 => child'.peerBootId = sourceBootId'[Robot]
      BY DEF TalkSetting, Setting
    <3> QED
      BY <2>1, <2>2, <2>3, <3>1
  <2>6. Talks(n, toRobot, {})
    BY <1>1, <1>2, <1>3, <1>8, <2>2, <2>3, <2>4, <2>5 DEF Talks, Spoke, Discovers
  <2> QED
    BY <2>6
<1>9. \/ /\ ~linkUp \/ Unsolicited(f)
         /\ mgr' = Now /\ UNCHANGED <<sourceBootId, sessionUp, child>>
      \/ linkUp /\ f.type = "SUBSCRIBE_RESULT" /\ SubscribeResult(f.seq, f.status, f.id)
         /\ UNCHANGED child
      \/ linkUp /\ f.type = "UNSUBSCRIBE_RESULT" /\ UnsubscribeResult(f.seq) /\ UNCHANGED child
      \/ linkUp /\ f.type = "MANIFEST_DATA" /\ ReceiveManifest(f)
  BY DEF DeskReceives
<1> HIDE DEF f
<1> QED
  BY <1>5, <1>6, <1>7, <1>8, <1>9

\* Every step of the desktop.
LEMMA DesktopTalks ==
  ASSUME TalkSetting, HCInv, HCNext,
         ~RobotReceives, ~RobotReboots, ~GrantLapses, ~Lose
  PROVE  AsksCatalog \/ \E n, p, L : Talks(n, p, L)
<1>1. CASE CatalogRetry
  BY <1>1 DEF CatalogRetry, Transmit, AsksCatalog, SameLink, vars
<1> QED
  BY <1>1, ChildTalks, PresenceTalks, LinkTalks, DeskTalks DEF HCNext


-----------------------------------------------------------------------------
(* What the robot makes of a frame f, and its answer x.                      *)

Refuses(f, x) ==
  /\ f.type = "SUBSCRIBE" /\ f.boot # robot.boot
  /\ x.type = "SUBSCRIBE_RESULT" /\ x.seq = f.seq /\ x.status = "REJECTED"
  /\ UNCHANGED <<robot, granted>>

\* A topic that is served already keeps its identity.
Grants(f, x) ==
  /\ f.type = "SUBSCRIBE" /\ f.boot = robot.boot
  /\ x.type = "SUBSCRIBE_RESULT" /\ x.seq = f.seq /\ x.status = "SUCCESS"
  /\ f.key \in DOMAIN robot.subs => x.id = robot.subs[f.key].id
  /\ robot'.boot = robot.boot
  /\ robot'.subs = With(robot.subs, f.key, [id |-> x.id, rate |-> f.rate])
  /\ granted' = granted \cup {[boot |-> robot.boot, key |-> f.key, id |-> x.id]}

Ends(f, x) ==
  /\ f.type = "UNSUBSCRIBE" /\ x.type = "UNSUBSCRIBE_RESULT"
  /\ robot'.boot = robot.boot /\ granted' = granted
  /\ robot'.subs = Without(robot.subs,
       {k \in DOMAIN robot.subs : f.boot = robot.boot /\ robot.subs[k].id = f.id})

Describes(f, x) ==
  /\ f.type = "MANIFEST_REQUEST" /\ x.type = "MANIFEST_DATA" /\ x.boot = robot.boot
  /\ UNCHANGED <<robot, granted>>

Replies(f, x) ==
  /\ f \in UpFrame /\ x \in DeskFrame /\ robot'.boot = robot.boot
  /\ toRobot # <<>> /\ f = Head(toRobot) /\ toRobot' = Tail(toRobot)
  /\ toDesk' = Append(toDesk, x)
  /\ UNCHANGED <<mgr, sourceBootId, linkUp, child>>
  /\ Refuses(f, x) \/ Grants(f, x) \/ Ends(f, x) \/ Describes(f, x)

\* It answers every frame.
LEMMA RobotReplies ==
  ASSUME HCInv, RobotReceives
  PROVE  \E f, x : Replies(f, x)
<1> DEFINE f == Head(toRobot)
<1>1. /\ toRobot # <<>> /\ toRobot' = Tail(toRobot)
      /\ UNCHANGED <<mgr, sourceBootId, linkUp, child>>
  BY DEF RobotReceives, vars
<1>2. f \in UpFrame /\ RobotOK(robot)
  BY <1>1, TailIs DEF HCInv, LinkTyped
<1>3. \/ f.type = "SUBSCRIBE" /\ RobotSubscribes(f)
      \/ f.type = "UNSUBSCRIBE" /\ RobotUnsubscribes(f)
      \/ /\ f.type = "MANIFEST_REQUEST"
         /\ toDesk' = Append(toDesk, [type |-> "MANIFEST_DATA", boot |-> robot.boot])
         /\ UNCHANGED <<robot, granted>>
  BY <1>2, FrameKinds DEF RobotReceives
<1> HIDE DEF f
<1>4. CASE f.type = "SUBSCRIBE" /\ RobotSubscribes(f) /\ f.boot # robot.boot
  <2> DEFINE x == [type |-> "SUBSCRIBE_RESULT", seq |-> f.seq, status |-> "REJECTED", id |-> 0]
  <2>1. x \in DeskFrame
    BY <1>2, <1>4, FrameKinds DEF DeskFrame, Status
  <2>2. toDesk' = Append(toDesk, x) /\ UNCHANGED <<robot, granted>>
    BY <1>4 DEF RobotSubscribes
  <2>3. x.type = "SUBSCRIBE_RESULT" /\ x.seq = f.seq /\ x.status = "REJECTED"
    OBVIOUS
  <2> HIDE DEF x
  <2> QED
    BY <1>1, <1>2, <1>4, <2>1, <2>2, <2>3 DEF f, Replies, Refuses
<1>5. CASE f.type = "SUBSCRIBE" /\ RobotSubscribes(f) /\ f.boot = robot.boot
  <2>1. PICK id \in IF f.key \in DOMAIN robot.subs THEN {robot.subs[f.key].id}
                 ELSE SubscriptionId \ {robot.subs[k].id : k \in DOMAIN robot.subs} :
         /\ robot' = [robot EXCEPT !.subs =
                        With(robot.subs, f.key, [id |-> id, rate |-> f.rate])]
         /\ granted' = granted \cup {[boot |-> robot.boot, key |-> f.key, id |-> id]}
         /\ toDesk' = Append(toDesk, [type |-> "SUBSCRIBE_RESULT", seq |-> f.seq,
                                      status |-> "SUCCESS", id |-> id])
    BY <1>5 DEF RobotSubscribes
  <2> DEFINE x == [type |-> "SUBSCRIBE_RESULT", seq |-> f.seq, status |-> "SUCCESS", id |-> id]
  <2>2. id \in SubscriptionId /\ (f.key \in DOMAIN robot.subs => id = robot.subs[f.key].id)
    BY <1>2, <2>1 DEF RobotOK
  <2>3. x \in DeskFrame
    BY <1>2, <1>5, <2>2, FrameKinds DEF DeskFrame, Status
  <2>4. /\ x.type = "SUBSCRIBE_RESULT" /\ x.seq = f.seq /\ x.status = "SUCCESS" /\ x.id = id
        /\ toDesk' = Append(toDesk, x)
    BY <2>1
  <2>5. /\ robot'.boot = robot.boot
        /\ robot'.subs = With(robot.subs, f.key, [id |-> id, rate |-> f.rate])
    BY <1>2, <2>1 DEF RobotOK
  <2> HIDE DEF x
  <2> QED
    BY <1>1, <1>2, <1>5, <2>1, <2>2, <2>3, <2>4, <2>5 DEF f, Replies, Grants
<1>6. CASE f.type = "UNSUBSCRIBE" /\ RobotUnsubscribes(f)
  <2> DEFINE gone == {k \in DOMAIN robot.subs : f.boot = robot.boot /\ robot.subs[k].id = f.id}
             x == [type |-> "UNSUBSCRIBE_RESULT", seq |-> f.seq]
  <2>1. /\ robot' = [robot EXCEPT !.subs = Without(robot.subs, gone)]
        /\ toDesk' = Append(toDesk, x) /\ granted' = granted
    BY <1>6 DEF RobotUnsubscribes
  <2>2. x \in DeskFrame /\ x.type = "UNSUBSCRIBE_RESULT"
    BY <1>2, <1>6, FrameKinds DEF DeskFrame
  <2> HIDE DEF x
  <2>3. robot'.boot = robot.boot /\ robot'.subs = Without(robot.subs, gone)
    BY <1>2, <2>1 DEF RobotOK
  <2> QED
    BY <1>1, <1>2, <1>6, <2>1, <2>2, <2>3 DEF f, Replies, Ends
<1>7. CASE /\ f.type = "MANIFEST_REQUEST"
           /\ toDesk' = Append(toDesk, [type |-> "MANIFEST_DATA", boot |-> robot.boot])
           /\ UNCHANGED <<robot, granted>>
  <2> DEFINE x == [type |-> "MANIFEST_DATA", boot |-> robot.boot]
  <2>1. x \in DeskFrame /\ x.type = "MANIFEST_DATA" /\ x.boot = robot.boot
    BY <1>2 DEF DeskFrame, RobotOK
  <2>2. toDesk' = Append(toDesk, x)
    BY <1>7
  <2> HIDE DEF x
  <2> QED
    BY <1>1, <1>2, <1>7, <2>1, <2>2 DEF f, Replies, Describes
<1> QED
  BY <1>3, <1>4, <1>5, <1>6, <1>7
-----------------------------------------------------------------------------
(* Every step keeps the frames in order.                                     *)

\* What is live keeps its boot.
LEMMA TalkHeld ==
  ASSUME TalkSetting, NEW n, NEW p, NEW L, Talks(n, p, L)
  PROVE  Held(n, sourceBootId'[Robot]) /\ Held(mgr', sourceBootId'[Robot])
<1> DEFINE b == sourceBootId'[Robot]
<1>1. Held(mgr, sourceBootId[Robot])
  BY DEF TalkSetting
<1>2. Blank(n) => Held(n, b)
  BY BlankDead DEF Held
<1>3. n.topics = mgr.topics /\ b = sourceBootId[Robot] => Held(n, b)
  BY <1>1 DEF Held, Live
<1>4. Held(n, b)
  <2>1. CASE OnItsOwn(n, p, L) \/ Ignores(n, p, L)
    BY <1>3, <2>1 DEF OnItsOwn, Ignores, SameLink
  <2>2. CASE Connects(n, p, L) \/ Disconnects(n, p, L)
    BY <1>2, <2>2 DEF Connects, Disconnects
  <2>3. CASE Learns(n, p, L)
    BY <1>1, <2>3, AnswerHeld DEF Learns, SameLink
  <2>4. CASE Discovers(n, p, L)
    <3>1. CASE Blank(n)
      BY <1>2, <3>1
    <3>2. CASE n.topics = mgr.topics
      BY <1>1, <2>4, <3>2 DEF Held, Live, Discovers
    <3> QED
      BY <2>4, <3>1, <3>2 DEF Discovers
  <2> QED
    BY <2>1, <2>2, <2>3, <2>4 DEF Talks
<1> QED
  BY <1>4, ActedHeld DEF Talks, Spoke

\* A handler starts from an object in order.
LEMMA TalkInOrder ==
  ASSUME TalkSetting, LinkInOrder, NEW n, NEW p, NEW L, Talks(n, p, L)
  PROVE  InOrder(n, linkUp', child'.peerBootId, sourceBootId'[Robot], p, toDesk',
                 robot'.boot, granted')
<1> DEFINE src == sourceBootId[Robot]
           pb == child.peerBootId
<1>1. /\ toDesk \in Seq(DeskFrame) /\ toRobot \in Seq(UpFrame) /\ linkUp \in BOOLEAN
      /\ linkUp' \in BOOLEAN
      /\ Good(mgr) /\ src \in Nat /\ robot.boot \in Nat
      /\ pb # 0 => pb = src
  BY DEF TalkSetting, Setting
<1>2. InOrder(mgr, linkUp, pb, src, toRobot, toDesk, robot.boot, granted)
  BY DEF LinkInOrder
<1>3. n.nextSequence = mgr.nextSequence /\ UNCHANGED <<robot, granted>>
  BY DEF Talks, Spoke, Starts
<1>4. CASE OnItsOwn(n, p, L)
  BY <1>2, <1>3, <1>4, SameInOrder DEF OnItsOwn, SameLink
<1>5. CASE Ignores(n, p, L)
  <2>1. InOrder(mgr, linkUp, pb, src, toRobot, Tail(toDesk), robot.boot, granted)
    BY <1>1, <1>2, <1>5, TakenInOrder DEF Ignores, Takes
  <2> QED
    BY <1>3, <1>5, <2>1, SameInOrder DEF Ignores, Takes, SameLink
<1>6. CASE Learns(n, p, L)
  <2>1. InOrder(mgr, TRUE, pb, src, toRobot, toDesk, robot.boot, granted)
    BY <1>1, <1>2, <1>6 DEF Learns
  <2>2. InOrder(n, TRUE, pb, src, toRobot, Tail(toDesk), robot.boot, granted)
    BY <1>1, <1>3, <1>6, <2>1, AnswerInOrder DEF Learns, Takes
  <2> QED
    BY <1>1, <1>3, <1>6, <2>2 DEF Learns, Takes, SameLink
<1>7. CASE Discovers(n, p, L)
  <2>1. InOrder(mgr, TRUE, pb, src, toRobot, toDesk, robot.boot, granted)
    BY <1>1, <1>2, <1>7 DEF Discovers
  <2>2. InOrder(n, TRUE, Head(toDesk).boot, Head(toDesk).boot, toRobot, Tail(toDesk),
                robot.boot, granted)
    BY <1>1, <1>3, <1>7, <2>1, CatalogInOrder DEF Discovers, Takes
  <2> QED
    BY <1>1, <1>3, <1>7, <2>2 DEF Discovers, Takes
<1>8. CASE Connects(n, p, L)
  <2>1. /\ InOrder(mgr, linkUp, pb, src, p, toDesk, robot.boot, granted)
        /\ CatalogFirst(p, Len(p) + 1, toDesk)
    BY <1>1, <1>2, <1>8, CatalogRequested DEF Connects
  <2>2. Blank(n) /\ CatalogComes(linkUp', 0, p, toDesk)
    BY <1>8, <2>1 DEF Connects, CatalogComes
  <2>3. InOrder(n, linkUp', 0, src, p, toDesk, robot.boot, granted)
    BY <1>3, <2>1, <2>2, BlankInOrder
  <2> QED
    BY <1>3, <1>8, <2>3 DEF Connects
<1>9. CASE Disconnects(n, p, L)
  <2>1. Blank(n) /\ CatalogComes(linkUp', 0, toRobot, toDesk)
    BY <1>9 DEF Disconnects, CatalogComes
  <2>2. InOrder(n, linkUp', 0, src, toRobot, toDesk, robot.boot, granted)
    BY <1>2, <1>3, <2>1, BlankInOrder
  <2> QED
    BY <1>3, <1>9, <2>2 DEF Disconnects
<1> QED
  BY <1>4, <1>5, <1>6, <1>7, <1>8, <1>9 DEF Talks

\* The request for the catalog keeps the order.
LEMMA AskedInOrder ==
  ASSUME Setting, LinkInOrder, AsksCatalog
  PROVE  LinkInOrder'
<1>1. toRobot \in Seq(UpFrame)
  BY DEF Setting
<1> QED
  BY <1>1, CatalogRequested DEF AsksCatalog, SameLink, LinkInOrder

\* The robot answers.
LEMMA AnswerSentInOrder ==
  ASSUME HCInv, LinkInOrder, RobotReceives
  PROVE  LinkInOrder'
<1>1. PICK f, x : Replies(f, x)
  BY RobotReplies
<1>2. /\ toRobot \in Seq(UpFrame) /\ toDesk \in Seq(DeskFrame)
      /\ sourceBootId[Robot] \in Nat /\ robot.boot \in Nat
  BY SettingIs DEF Setting
<1>3. granted \subseteq granted' /\ Answers(f, x, robot.boot, granted')
  BY <1>1 DEF Replies, Refuses, Grants, Ends, Describes, Answers
<1>4. InOrder(mgr, linkUp, child.peerBootId, sourceBootId[Robot], toRobot, toDesk,
              robot.boot, granted)
  BY DEF LinkInOrder
<1>5. x \in DeskFrame /\ toRobot # <<>> /\ f = Head(toRobot)
  BY <1>1 DEF Replies
<1>6. InOrder(mgr, linkUp, child.peerBootId, sourceBootId[Robot], Tail(toRobot),
              Append(toDesk, x), robot.boot, granted')
  BY <1>2, <1>3, <1>4, <1>5, RobotInOrder
<1> QED
  BY <1>1, <1>6 DEF Replies, LinkInOrder

\* The robot restarts, or forgets a grant.
LEMMA RobotFailsInOrder ==
  ASSUME HCInv, LinkInOrder, RobotReboots \/ GrantLapses
  PROVE  LinkInOrder'
<1>1. UNCHANGED <<mgr, sourceBootId, linkUp, child, toRobot, toDesk, granted>>
  BY DEF RobotReboots, GrantLapses, vars
<1>2. robot.boot \in Nat /\ sourceBootId[Robot] \in Nat /\ RobotOK(robot)
  BY SettingIs DEF Setting, HCInv, LinkTyped
<1>3. robot'.boot \in {robot.boot, robot.boot + 1}
  <2>1. CASE RobotReboots
    BY <2>1 DEF RobotReboots
  <2>2. CASE GrantLapses
    <3>1. PICK k \in DOMAIN robot.subs : robot' = [robot EXCEPT !.subs = Without(robot.subs, {k})]
      BY <2>2 DEF GrantLapses
    <3> QED
      BY <1>2, <3>1 DEF RobotOK
  <2> QED
    BY <2>1, <2>2
<1>4. BootsRise(sourceBootId[Robot], toDesk, robot'.boot)
  BY <1>2, <1>3 DEF LinkInOrder, InOrder, BootsRise
<1> QED
  BY <1>1, <1>4 DEF LinkInOrder, InOrder

\* Only Lose loses a frame.
LEMMA LossCounts ==
  ASSUME HCInv, HCNext, spent'.loss = 0
  PROVE  spent.loss = 0 /\ ~Lose
<1>1. spent \in Spent
  BY DEF HCInv, LinkTyped
<1>2. ~Lose
  BY <1>1 DEF Lose, Spent
<1>3. CASE spent' = spent
  BY <1>2, <1>3
<1>4. CASE LinkDown \/ LeaseTimer \/ GrantLapses
  BY <1>1, <1>2, <1>4 DEF LinkDown, LeaseTimer, GrantLapses, Spent
<1>5. CASE \E online \in BOOLEAN, boot \in {0, robot.boot} : PeerPresence(online, boot)
  BY <1>1, <1>2, <1>5 DEF PeerPresence, Spent
<1> QED
  BY <1>2, <1>3, <1>4, <1>5 DEF HCNext, UserAdds, UserRemoves, LinkUp, CatalogRetry,
     DeskReceives, RobotReceives, RobotReboots

\* The order of frames is kept until one of them is lost.
LEMMA StepOrderInv == OrderInv /\ [HCNext]_allVars => OrderInv'
<1> SUFFICES ASSUME OrderInv, [HCNext]_allVars PROVE OrderInv'
  OBVIOUS
<1>1. HCInv /\ HCInv' /\ TalkSetting
  <2>1. HCInv /\ HCInv'
    BY StepHCInv DEF OrderInv
  <2>2. HCInv' => Setting'
    BY SettingIs, PTL
  <2> QED
    BY <2>1, <2>2, SettingIs DEF OrderInv, TalkSetting
<1>2. Held(mgr, sourceBootId[Robot]) /\ (spent.loss = 0 => LinkInOrder)
  BY DEF OrderInv
<1>3. CASE UNCHANGED allVars
  BY <1>1, <1>2, <1>3 DEF allVars, vars, envVars, OrderInv, LinkInOrder
<1>4. CASE HCNext /\ (RobotReceives \/ RobotReboots \/ GrantLapses \/ Lose)
  <2>1. UNCHANGED vars
    BY <1>4 DEF RobotReceives, RobotReboots, GrantLapses, Lose
  <2>2. Held(mgr', sourceBootId'[Robot])
    BY <1>2, <2>1 DEF vars
  <2>3. spent'.loss = 0 => LinkInOrder'
    BY <1>1, <1>2, <1>4, LossCounts, AnswerSentInOrder, RobotFailsInOrder
  <2> QED
    BY <1>1, <2>2, <2>3 DEF OrderInv
<1>5. CASE HCNext /\ AsksCatalog
  <2>1. Held(mgr', sourceBootId'[Robot])
    BY <1>2, <1>5 DEF AsksCatalog
  <2>2. spent'.loss = 0 => LinkInOrder'
    BY <1>1, <1>2, <1>5, LossCounts, AskedInOrder DEF TalkSetting
  <2> QED
    BY <1>1, <2>1, <2>2 DEF OrderInv
<1>6. ASSUME HCNext, NEW n, NEW p, NEW L, Talks(n, p, L) PROVE OrderInv'
  <2>1. Held(mgr', sourceBootId'[Robot])
    BY <1>1, <1>6, TalkHeld
  <2>2. ASSUME LinkInOrder PROVE LinkInOrder'
    <3>1. InOrder(n, linkUp', child'.peerBootId, sourceBootId'[Robot], p, toDesk',
                  robot'.boot, granted')
      BY <1>1, <1>6, <2>2, TalkInOrder
    <3>2. /\ Moved(sourceBootId'[Robot], n, mgr') /\ p \in Seq(UpFrame)
          /\ toRobot' = IF linkUp' THEN p \o mgr'.out ELSE p
      BY <1>6 DEF Talks, Spoke, Acted
    <3> QED
      BY <1>1, <3>1, <3>2, HandlerInOrder DEF TalkSetting
  <2> QED
    BY <1>1, <1>2, <1>6, <2>1, <2>2, LossCounts DEF OrderInv
<1> QED
  BY <1>1, <1>3, <1>4, <1>5, <1>6, DesktopTalks

\* It holds of an empty link.
LEMMA InitOrderInv == HCInit => OrderInv
<1> SUFFICES ASSUME HCInit PROVE OrderInv
  OBVIOUS
<1>1. /\ mgr.topics = <<>> /\ linkUp = FALSE /\ sourceBootId[Robot] = 0
      /\ robot.boot = 1 /\ toRobot = <<>> /\ toDesk = <<>>
  BY RobotAssumption DEF HCInit, Init
<1>2. DOMAIN mgr.topics = {} /\ DOMAIN toRobot = {} /\ DOMAIN toDesk = {}
  BY <1>1
<1>3. LinkInOrder
  BY <1>1, <1>2 DEF LinkInOrder, InOrder, GrantsNamed, RequestsAimed, CatalogComes, BootsRise,
     StaleWhenDown
<1>4. Held(mgr, sourceBootId[Robot])
  BY <1>2 DEF Held, Live
<1> QED
  BY <1>3, <1>4, InitHCInv DEF OrderInv

\* On a link that loses no frame, however it drops, the robot restarts or forgets
\* its grants, answers come late and consumers come and go, the grant the client
\* holds of a topic is one the robot gave for that topic in the boot the client
\* names, and that boot is the catalog's.
THEOREM GrantNamesItsBootHolds ==
  HCSpec => [](spent.loss = 0 => GrantNamesItsBoot)
<1>1. OrderInv => (spent.loss = 0 => GrantNamesItsBoot)
  BY DEF OrderInv, LinkInOrder, InOrder, GrantsNamed, GrantNamesItsBoot
<1> QED
  BY <1>1, InitOrderInv, StepOrderInv, PTL DEF HCSpec

-----------------------------------------------------------------------------
(* Both ends agree: on a link that loses nothing, what the robot serves is   *)
(* what the client believes, unless a word that will change it is on its way.*)

\* The robot does not give one identity to two topics within a boot.
FreshIds == \A g, h \in granted : g.boot = h.boot /\ g.id = h.id => g.key = h.key

\* A frame that makes the robot serve k, or stop.
About(f, k) == f.type \in {"SUBSCRIBE", "UNSUBSCRIBE"} /\ f.key = k

\* No such frame is behind the place i.
NothingAbout(p, i, k) == \A j \in DOMAIN p : j > i => ~About(p[j], k)

Serves(rb, k, id, rate) == k \in DOMAIN rb.subs /\ rb.subs[k] = [id |-> id, rate |-> rate]

\* An UNSUBSCRIBE on its way names a grant the robot gave.
EndsGiven(p, g) ==
  \A j \in DOMAIN p : p[j].type = "UNSUBSCRIBE" =>
    [boot |-> p[j].boot, key |-> p[j].key, id |-> p[j].id] \in g

\* What the robot serves is among the grants of its boot.
ServedGiven(rb, g) ==
  \A k \in DOMAIN rb.subs : [boot |-> rb.boot, key |-> k, id |-> rb.subs[k].id] \in g

\* The grant t of k, from the robot's boot, is served at the rate last sent.
GrantAgreed(t, k, p, rb) ==
  t.subscriptionId # 0 /\ t.inFlightSequence = 0 /\ t.sentRate # 0 /\ t.targetBootId = rb.boot =>
    NothingAbout(p, 0, k) /\ Serves(rb, k, t.subscriptionId, t.sentRate)

\* The request t waits for is at the rate last sent, and the last word about k.
RequestLast(t, k, p, i) ==
  p[i].type = "SUBSCRIBE" /\ p[i].seq = t.inFlightSequence /\ t.sentRate # 0 =>
    p[i].rate = t.sentRate /\ NothingAbout(p, i, k)

\* The grant t waits for is what the robot serves.
AnswerAgreed(t, k, p, d, rb, j) ==
  /\ d[j].type = "SUBSCRIBE_RESULT" /\ d[j].seq = t.inFlightSequence
  /\ d[j].status = "SUCCESS" /\ t.sentRate # 0 /\ t.targetBootId = rb.boot
  => NothingAbout(p, 0, k) /\ Serves(rb, k, d[j].id, t.sentRate)

TopicAgreed(t, k, p, d, rb) ==
  /\ GrantAgreed(t, k, p, rb)
  /\ \A i \in DOMAIN p : RequestLast(t, k, p, i)
  /\ \A j \in DOMAIN d : AnswerAgreed(t, k, p, d, rb, j)

Agreed(m, up, p, d, rb, g) ==
  /\ EndsGiven(p, g) /\ ServedGiven(rb, g)
  /\ up => \A k \in DOMAIN m.topics : TopicAgreed(m.topics[k], k, p, d, rb)

EndsInOrder == Agreed(mgr, linkUp, toRobot, toDesk, robot, granted)

AgreeInv ==
  /\ OrderInv
  /\ spent.loss = 0 /\ spent.lapse = 0 /\ FreshIds => EndsInOrder

\* A frame on its way is one that was, or one the handler sent.
LEMMA SentIs ==
  ASSUME NEW p \in Seq(UpFrame), NEW s \in Seq(UpFrame)
  PROVE  /\ Len(p) \in Nat /\ DOMAIN p = 1..Len(p) /\ p \o s \in Seq(UpFrame)
         /\ \A i \in DOMAIN p : i \in DOMAIN (p \o s) /\ (p \o s)[i] = p[i]
         /\ \A i \in DOMAIN s : /\ i \in Nat \ {0} /\ Len(p) + i \in DOMAIN (p \o s)
                                /\ (p \o s)[Len(p) + i] = s[i]
         /\ \A j \in DOMAIN (p \o s) :
              \/ j \in DOMAIN p /\ (p \o s)[j] = p[j]
              \/ \E i \in DOMAIN s : j = Len(p) + i /\ (p \o s)[j] = s[i]
<1> DEFINE P == p \o s
<1>1. /\ Len(p) \in Nat /\ DOMAIN p = 1..Len(p) /\ Len(s) \in Nat /\ DOMAIN s = 1..Len(s)
      /\ P \in Seq(UpFrame) /\ DOMAIN P = 1..(Len(p) + Len(s))
  OBVIOUS
<1>2. \A i \in 1..Len(p) : P[i] = p[i]
  BY <1>1
<1>3. \A i \in 1..Len(s) : P[Len(p) + i] = s[i]
  BY <1>1
<1> HIDE DEF P
<1>4. ASSUME NEW j \in DOMAIN P, j \notin DOMAIN p
      PROVE  \E i \in DOMAIN s : j = Len(p) + i /\ P[j] = s[i]
  <2>1. j - Len(p) \in 1..Len(s) /\ j = Len(p) + (j - Len(p))
    BY <1>1, <1>4
  <2> QED
    BY <1>1, <1>3, <2>1
<1>5. ASSUME NEW i \in DOMAIN p PROVE i \in DOMAIN P /\ P[i] = p[i]
  BY <1>1, <1>2
<1>6. ASSUME NEW i \in DOMAIN s
      PROVE  i \in Nat \ {0} /\ Len(p) + i \in DOMAIN P /\ P[Len(p) + i] = s[i]
  BY <1>1, <1>3
<1> QED
  BY <1>1, <1>2, <1>4, <1>5, <1>6 DEF P

\* Silence about a topic adds nothing about it.
LEMMA SilenceAdds ==
  ASSUME NEW p \in Seq(UpFrame), NEW m, m.out \in Seq(UpFrame), NEW k, SilentOn(m, k),
         NEW i, NothingAbout(p, i, k)
  PROVE  NothingAbout(p \o m.out, i, k)
<1>1. \A j \in DOMAIN m.out : ~About(m.out[j], k)
  BY DEF SilentOn, About
<1>2. \A j \in DOMAIN (p \o m.out) :
        \/ j \in DOMAIN p /\ (p \o m.out)[j] = p[j]
        \/ \E l \in DOMAIN m.out : j = Len(p) + l /\ (p \o m.out)[j] = m.out[l]
  BY SentIs
<1> QED
  BY <1>1, <1>2 DEF NothingAbout

\* The topic of a blank object agrees with everything, and so does one that a
\* handler released or let go.
LEMMA DeadAgreed ==
  ASSUME NEW t, NEW k, NEW p, NEW d, NEW rb,
         t.subscriptionId = 0, t.inFlightSequence = 0 \/ t.sentRate = 0,
         \A i \in DOMAIN p : p[i].type = "SUBSCRIBE" => p[i].seq # 0,
         \A i \in DOMAIN d : d[i].type = "SUBSCRIBE_RESULT" => d[i].seq # 0
  PROVE  TopicAgreed(t, k, p, d, rb)
BY DEF TopicAgreed, GrantAgreed, RequestLast, AnswerAgreed

\* No frame has the sequence 0.
LEMMA NumbersInOrder ==
  ASSUME NEW m, NEW up, NEW pb, NEW src, NEW p, NEW d, NEW rb, NEW g,
         InOrder(m, up, pb, src, p, d, rb, g)
  PROVE  /\ \A i \in DOMAIN p : p[i].type = "SUBSCRIBE" =>
              p[i].seq \in 1..(m.nextSequence - 1) /\ p[i].seq # 0
         /\ \A i \in DOMAIN d : d[i].type = "SUBSCRIBE_RESULT" =>
              d[i].seq \in 1..(m.nextSequence - 1) /\ d[i].seq # 0
BY DEF InOrder, RequestMet, AnswerMet

\* A blank object leaves nothing to agree on but what was given.
LEMMA BlankAgreed ==
  ASSUME NEW m, NEW up, NEW pb, NEW src, NEW p, NEW d, NEW rb, NEW g, NEW b,
         InOrder(m, up, pb, src, p, d, b, g), Blank(m), EndsGiven(p, g), ServedGiven(rb, g)
  PROVE  Agreed(m, up, p, d, rb, g)
<1>1. /\ \A i \in DOMAIN p : p[i].type = "SUBSCRIBE" => p[i].seq # 0
      /\ \A i \in DOMAIN d : d[i].type = "SUBSCRIBE_RESULT" => d[i].seq # 0
  BY NumbersInOrder
<1>2. ASSUME NEW k \in DOMAIN m.topics PROVE TopicAgreed(m.topics[k], k, p, d, rb)
  <2>1. m.topics[k].subscriptionId = 0 /\ m.topics[k].inFlightSequence = 0
    BY DEF Blank
  <2> QED
    BY <1>1, <2>1, DeadAgreed
<1> QED
  BY <1>2 DEF Agreed

\* What a handler sends of one topic keeps it agreed.
LEMMA SentTopicAgreed ==
  ASSUME NEW b \in Nat, NEW m0, NEW m, NEW L, Acted(b, m0, m, L), Good(m0), Good(m),
         NEW pb, NEW src, NEW p \in Seq(UpFrame), NEW d, NEW rb, NEW g,
         InOrder(m0, TRUE, pb, src, p, d, rb.boot, g),
         InOrder(m, TRUE, pb, src, p \o m.out, d, rb.boot, g),
         m.out \in Seq(UpFrame),
         NEW k \in DOMAIN m.topics, k \in Key,
         k \in DOMAIN m0.topics => TopicAgreed(m0.topics[k], k, p, d, rb)
  PROVE  TopicAgreed(m.topics[k], k, p \o m.out, d, rb)
<1> DEFINE P == p \o m.out
           t == m.topics[k]
<1>1. /\ \A i \in DOMAIN P : P[i].type = "SUBSCRIBE" =>
           P[i].seq # 0 /\ (P[i].seq = t.inFlightSequence => P[i].key = k)
      /\ \A i \in DOMAIN d : d[i].type = "SUBSCRIBE_RESULT" =>
           d[i].seq \in 1..(m0.nextSequence - 1) /\ d[i].seq # 0
      /\ \A i \in DOMAIN p : p[i].type = "SUBSCRIBE" => p[i].seq \in 1..(m0.nextSequence - 1)
  <2>1. InOrder(m, TRUE, pb, src, P, d, rb.boot, g)
    OBVIOUS
  <2> HIDE DEF P
  <2>2. \A i \in DOMAIN P : P[i].type = "SUBSCRIBE" => P[i].seq # 0
    BY <2>1, NumbersInOrder
  <2>3. \A i \in DOMAIN P : RequestMet(m, pb, P, d, i)
    BY <2>1 DEF InOrder
  <2>4. \A i \in DOMAIN P : P[i].type = "SUBSCRIBE" =>
          (P[i].seq = t.inFlightSequence => P[i].key = k)
    BY <2>3 DEF RequestMet
  <2>5. /\ \A i \in DOMAIN d : d[i].type = "SUBSCRIBE_RESULT" =>
             d[i].seq \in 1..(m0.nextSequence - 1) /\ d[i].seq # 0
        /\ \A i \in DOMAIN p : p[i].type = "SUBSCRIBE" => p[i].seq \in 1..(m0.nextSequence - 1)
    BY NumbersInOrder
  <2> QED
    BY <2>2, <2>4, <2>5
<1>2. /\ \A j \in DOMAIN P : \/ j \in DOMAIN p /\ P[j] = p[j]
                             \/ \E l \in DOMAIN m.out : j = Len(p) + l /\ P[j] = m.out[l]
      /\ Len(p) \in Nat /\ DOMAIN p = 1..Len(p)
      /\ \A l \in DOMAIN m.out : l \in Nat \ {0}
  BY SentIs
<1>3. m0.nextSequence \in Nat \ {0}
  BY DEF Good, ManagerOK
<1>4. \A i : SilentOn(m, k) /\ NothingAbout(p, i, k) => NothingAbout(P, i, k)
  BY SilenceAdds
<1> HIDE DEF P
<1>5. TopicAgreed(t, k, P, d, rb)
  <2>1. CASE ~Live(m, k)
    BY <1>1, <2>1, DeadAgreed DEF Live
  <2>2. CASE SilentOn(m, k) /\ Kept(m0, m, k) /\ Live(m, k)
    <3>1. /\ k \in DOMAIN m0.topics
          /\ t.subscriptionId = m0.topics[k].subscriptionId
          /\ t.inFlightSequence = m0.topics[k].inFlightSequence
          /\ t.targetBootId = m0.topics[k].targetBootId
          /\ t.sentRate = m0.topics[k].sentRate
      BY <2>2 DEF Kept
    <3>2. GrantAgreed(t, k, P, rb)
      BY <1>4, <2>2, <3>1 DEF TopicAgreed, GrantAgreed
    <3>3. ASSUME NEW i \in DOMAIN P PROVE RequestLast(t, k, P, i)
      <4>1. CASE i \in DOMAIN p /\ P[i] = p[i]
        BY <1>4, <2>2, <3>1, <4>1 DEF TopicAgreed, RequestLast
      <4>2. CASE \E l \in DOMAIN m.out : P[i] = m.out[l]
        BY <1>1, <2>2, <4>2 DEF SilentOn, RequestLast
      <4> QED
        BY <1>2, <4>1, <4>2
    <3>4. \A j \in DOMAIN d : AnswerAgreed(t, k, P, d, rb, j)
      BY <1>4, <2>2, <3>1 DEF TopicAgreed, AnswerAgreed
    <3> QED
      BY <3>2, <3>3, <3>4 DEF TopicAgreed
  <2>3. CASE Requests(b, m0, m, k)
    <3>1. PICK i \in DOMAIN m.out :
            /\ OneWord(m, k, i)
            /\ m.out[i].type = "SUBSCRIBE" /\ m.out[i].seq = t.inFlightSequence
            /\ m.out[i].rate = t.sentRate
      BY <2>3 DEF Requests, OneWord
    <3>2. t.inFlightSequence >= m0.nextSequence /\ t.inFlightSequence \in Nat
      BY <2>3 DEF Requests, Good, ManagerOK, Topic
    <3>3. /\ t.inFlightSequence # 0 /\ t.inFlightSequence \notin 1..(m0.nextSequence - 1)
      BY <1>3, <3>2
    <3>4. ASSUME NEW j \in DOMAIN P, P[j].type = "SUBSCRIBE", P[j].seq = t.inFlightSequence
          PROVE  P[j].rate = t.sentRate /\ NothingAbout(P, j, k)
      <4>1. P[j].key = k /\ ~(j \in DOMAIN p /\ P[j] = p[j])
        BY <1>1, <3>3, <3>4
      <4>2. PICK l \in DOMAIN m.out : j = Len(p) + l /\ P[j] = m.out[l]
        BY <1>2, <4>1
      <4>3. l = i
        BY <3>1, <4>1, <4>2 DEF OneWord
      <4>4. ASSUME NEW q \in DOMAIN P, q > j, About(P[q], k) PROVE FALSE
        <5>1. q \notin DOMAIN p
          BY <1>2, <4>2, <4>4
        <5>2. PICK r \in DOMAIN m.out : q = Len(p) + r /\ P[q] = m.out[r]
          BY <1>2, <5>1
        <5>3. r = i
          BY <3>1, <4>4, <5>2 DEF OneWord, About
        <5> QED
          BY <1>2, <4>2, <4>3, <4>4, <5>2, <5>3
      <4> QED
        BY <3>1, <4>2, <4>3, <4>4 DEF NothingAbout
    <3>5. \A j \in DOMAIN d : AnswerAgreed(t, k, P, d, rb, j)
      BY <1>1, <3>3 DEF AnswerAgreed
    <3> QED
      BY <3>3, <3>4, <3>5 DEF TopicAgreed, GrantAgreed, RequestLast
  <2>4. CASE Releases(m0, m, k) /\ Live(m, k)
    <3>1. t.subscriptionId = 0 /\ t.sentRate = 0
      BY <2>4 DEF Releases
    <3> QED
      BY <1>1, <3>1, DeadAgreed
  <2> QED
    BY <2>1, <2>2, <2>3, <2>4 DEF Acted
<1> QED
  BY <1>5 DEF P

\* The frames of a handler keep both ends agreed.
LEMMA SentAgreed ==
  ASSUME NEW b \in Nat, NEW m0, NEW m, NEW L, Acted(b, m0, m, L), Good(m0), Good(m),
         NEW up \in BOOLEAN, NEW pb, NEW src, NEW p \in Seq(UpFrame), NEW d, NEW rb, NEW g,
         NEW P, up => P = p \o m.out, ~up => P = p,
         InOrder(m0, up, pb, src, p, d, rb.boot, g), InOrder(m, up, pb, src, P, d, rb.boot, g),
         Agreed(m0, up, p, d, rb, g)
  PROVE  Agreed(m, up, P, d, rb, g)
<1>1. CASE ~up
  BY <1>1 DEF Agreed
<1>2. CASE up
  <2>1. m.out \in Seq(Frame) /\ m.out \in Seq(UpFrame) /\ P = p \o m.out /\ up = TRUE
    BY <1>2, SeqMonotonic DEF Good, ManagerOK, UpFrame
  <2>2. ASSUME NEW k \in DOMAIN m.topics PROVE TopicAgreed(m.topics[k], k, P, d, rb)
    <3>1. k \in Key
      BY DEF Good, ManagerOK
    <3>2. k \in DOMAIN m0.topics => TopicAgreed(m0.topics[k], k, p, d, rb)
      BY <1>2 DEF Agreed
    <3> QED
      BY <2>1, <3>1, <3>2, SentTopicAgreed
  <2>3. ASSUME NEW l \in DOMAIN m.out, m.out[l].type = "UNSUBSCRIBE"
        PROVE  [boot |-> m.out[l].boot, key |-> m.out[l].key, id |-> m.out[l].id] \in g
    <3> DEFINE k == m.out[l].key
    <3>1. m.out[l] \in Frame
      BY <2>1
    <3>2. k \in Key
      BY <3>1 DEF Frame
    <3>3. ~SilentOn(m, k)
      BY DEF SilentOn
    <3>4. ~Requests(b, m0, m, k)
      BY <2>3 DEF Requests, OneWord
    <3>5. Releases(m0, m, k)
      BY <3>2, <3>3, <3>4 DEF Acted
    <3>6. /\ k \in DOMAIN m0.topics /\ m0.topics[k].subscriptionId # 0
          /\ m.out[l].boot = m0.topics[k].targetBootId
          /\ m.out[l].id = m0.topics[k].subscriptionId
      BY <3>5 DEF Releases, OneWord
    <3> QED
      BY <3>6 DEF InOrder, GrantsNamed
  <2>4. EndsGiven(P, g)
    <3> DEFINE s == m.out
               Q == p \o s
    <3>1. s \in Seq(UpFrame) /\ P = Q
      BY <2>1
    <3> HIDE DEF s
    <3>2. \A j \in DOMAIN Q : \/ j \in DOMAIN p /\ Q[j] = p[j]
                              \/ \E l \in DOMAIN s : j = Len(p) + l /\ Q[j] = s[l]
      BY <3>1, SentIs
    <3> HIDE DEF Q
    <3>3. \A j \in DOMAIN P : \/ j \in DOMAIN p /\ P[j] = p[j]
                              \/ \E l \in DOMAIN s : P[j] = s[l]
      BY <3>1, <3>2
    <3>4. \A l \in DOMAIN s : s[l].type = "UNSUBSCRIBE" =>
            [boot |-> s[l].boot, key |-> s[l].key, id |-> s[l].id] \in g
      BY <2>3 DEF s
    <3>5. EndsGiven(p, g)
      BY DEF Agreed
    <3> QED
      BY <3>3, <3>4, <3>5 DEF EndsGiven
  <2> QED
    BY <2>2, <2>4 DEF Agreed
<1> QED
  BY <1>1, <1>2

\* Of the object, the agreement depends on the topics only; a frame taken from
\* the robot's queue of answers takes nothing from it.
LEMMA TailAgreed ==
  ASSUME NEW m, NEW up, NEW p, NEW d \in Seq(DeskFrame), NEW rb, NEW g,
         Agreed(m, up, p, d, rb, g), d # <<>>, NEW n, n.topics = m.topics
  PROVE  Agreed(n, up, p, Tail(d), rb, g)
<1>1. \A i \in DOMAIN Tail(d) : i + 1 \in DOMAIN d /\ Tail(d)[i] = d[i + 1]
  BY TailIs
<1>2. ASSUME up, NEW k \in DOMAIN n.topics
      PROVE  TopicAgreed(n.topics[k], k, p, Tail(d), rb)
  <2>1. TopicAgreed(n.topics[k], k, p, d, rb)
    BY <1>2 DEF Agreed
  <2>2. ASSUME NEW j \in DOMAIN Tail(d)
        PROVE  AnswerAgreed(n.topics[k], k, p, Tail(d), rb, j)
    BY <1>1, <2>1 DEF TopicAgreed, AnswerAgreed
  <2> QED
    BY <2>1, <2>2 DEF TopicAgreed
<1> QED
  BY <1>2 DEF Agreed

\* A request for the catalog is about no topic.
LEMMA AskedAgreed ==
  ASSUME NEW m, NEW up, NEW p \in Seq(UpFrame), NEW d, NEW rb, NEW g,
         Agreed(m, up, p, d, rb, g)
  PROVE  Agreed(m, up, p \o <<ManifestRequest>>, d, rb, g)
<1> DEFINE P == p \o <<ManifestRequest>>
<1>1. ManifestRequest.type = "MANIFEST_REQUEST" /\ <<ManifestRequest>> \in Seq(UpFrame)
  BY DEF ManifestRequest, UpFrame
<1>2. \A j \in DOMAIN P : (j \in DOMAIN p /\ P[j] = p[j]) \/ P[j] = ManifestRequest
  <2>1. \A j \in DOMAIN <<ManifestRequest>> : <<ManifestRequest>>[j] = ManifestRequest
    OBVIOUS
  <2>2. \A j \in DOMAIN P :
          \/ j \in DOMAIN p /\ P[j] = p[j]
          \/ \E i \in DOMAIN <<ManifestRequest>> :
               j = Len(p) + i /\ P[j] = <<ManifestRequest>>[i]
    BY <1>1, SentIs
  <2> QED
    BY <2>1, <2>2
<1> HIDE DEF P
<1>3. \A i, k : NothingAbout(p, i, k) => NothingAbout(P, i, k)
  BY <1>1, <1>2 DEF NothingAbout, About
<1>4. EndsGiven(P, g)
  BY <1>1, <1>2 DEF Agreed, EndsGiven
<1>5. ASSUME NEW t, NEW k, TopicAgreed(t, k, p, d, rb) PROVE TopicAgreed(t, k, P, d, rb)
  <2>1. GrantAgreed(t, k, P, rb) /\ \A j \in DOMAIN d : AnswerAgreed(t, k, P, d, rb, j)
    BY <1>3, <1>5 DEF TopicAgreed, GrantAgreed, AnswerAgreed
  <2>2. \A i \in DOMAIN P : RequestLast(t, k, P, i)
    BY <1>1, <1>2, <1>3, <1>5 DEF TopicAgreed, RequestLast
  <2> QED
    BY <2>1, <2>2 DEF TopicAgreed
<1>6. Agreed(m, up, P, d, rb, g)
  BY <1>4, <1>5 DEF Agreed
<1> QED
  BY <1>6 DEF P

\* The child takes the answer to a request: what it learns is what is served.
LEMMA AnswerAgrees ==
  ASSUME NEW m, NEW pb, NEW src, NEW p, NEW d \in Seq(DeskFrame), NEW rb, NEW g, NEW b,
         Agreed(m, TRUE, p, d, rb, g), InOrder(m, TRUE, pb, src, p, d, b, g),
         d # <<>>, Head(d).type = "SUBSCRIBE_RESULT", Head(d).seq # 0,
         NEW n, AnswerTaken(m, n, Head(d).seq, Head(d).status, Head(d).id)
  PROVE  Agreed(n, TRUE, p, Tail(d), rb, g)
<1> DEFINE f == Head(d)
           D == Tail(d)
<1>1. /\ \A i \in DOMAIN D : i + 1 \in DOMAIN d /\ D[i] = d[i + 1]
      /\ 1 \in DOMAIN d /\ f = d[1]
  BY TailIs
<1>2. /\ \A i \in DOMAIN p : p[i].type = "SUBSCRIBE" => p[i].seq # 0
      /\ \A i \in DOMAIN D : D[i].type = "SUBSCRIBE_RESULT" => D[i].seq # 0
  <2>1. /\ \A i \in DOMAIN p : p[i].type = "SUBSCRIBE" => p[i].seq # 0
        /\ \A i \in DOMAIN d : d[i].type = "SUBSCRIBE_RESULT" => d[i].seq # 0
    BY NumbersInOrder
  <2> HIDE DEF D
  <2> QED
    BY <1>1, <2>1
<1> HIDE DEF D
<1>3. ASSUME NEW k \in DOMAIN n.topics PROVE TopicAgreed(n.topics[k], k, p, D, rb)
  <2> DEFINE t == n.topics[k]
             s == m.topics[k]
  <2>1. k \in DOMAIN m.topics /\ TopicAgreed(s, k, p, d, rb)
    BY DEF AnswerTaken, Agreed
  <2>2. CASE s.inFlightSequence = f.seq
    <3>1. /\ t.inFlightSequence = 0 /\ t.targetBootId = s.targetBootId
          /\ t.subscriptionId = IF f.status = "SUCCESS" THEN f.id ELSE 0
          /\ t.subscriptionId # 0 => t.sentRate = s.sentRate
      BY <2>2 DEF AnswerTaken
    <3>2. AnswerAgreed(s, k, p, d, rb, 1)
      BY <1>1, <2>1 DEF TopicAgreed
    <3>3. GrantAgreed(t, k, p, rb)
      BY <1>1, <2>2, <3>1, <3>2 DEF AnswerAgreed, GrantAgreed
    <3> QED
      BY <1>2, <3>1, <3>3 DEF TopicAgreed, RequestLast, AnswerAgreed
  <2>3. CASE s.inFlightSequence # f.seq
    <3>1. t = s
      BY <2>3 DEF AnswerTaken
    <3> HIDE DEF t, s
    <3>2. \A j \in DOMAIN D : AnswerAgreed(s, k, p, D, rb, j)
      BY <1>1, <2>1 DEF TopicAgreed, AnswerAgreed
    <3>3. TopicAgreed(t, k, p, D, rb)
      BY <2>1, <3>1, <3>2 DEF TopicAgreed
    <3> QED
      BY <3>3 DEF t
  <2> QED
    BY <2>2, <2>3
<1>4. Agreed(n, TRUE, p, D, rb, g)
  BY <1>3 DEF Agreed
<1> QED
  BY <1>4 DEF D

\* A handler starts from an object that agrees.
LEMMA TalkAgreed ==
  ASSUME TalkSetting, LinkInOrder, EndsInOrder, NEW n, NEW p, NEW L, Talks(n, p, L)
  PROVE  Agreed(n, linkUp', p, toDesk', robot', granted')
<1>1. /\ toDesk \in Seq(DeskFrame) /\ toRobot \in Seq(UpFrame)
      /\ linkUp \in BOOLEAN /\ linkUp' \in BOOLEAN
  BY DEF TalkSetting, Setting
<1>2. InOrder(mgr, linkUp, child.peerBootId, sourceBootId[Robot], toRobot, toDesk,
              robot.boot, granted)
  BY DEF LinkInOrder
<1>3. Agreed(mgr, linkUp, toRobot, toDesk, robot, granted)
  BY DEF EndsInOrder
<1>4. robot' = robot /\ granted' = granted
  BY DEF Talks, Spoke
<1>5. InOrder(n, linkUp', child'.peerBootId, sourceBootId'[Robot], p, toDesk',
              robot'.boot, granted')
  BY TalkInOrder
<1>6. ASSUME Blank(n), EndsGiven(p, granted)
      PROVE  Agreed(n, linkUp', p, toDesk', robot', granted')
  <2>1. ServedGiven(robot, granted)
    BY <1>3 DEF Agreed
  <2> QED
    BY <1>4, <1>5, <1>6, <2>1, BlankAgreed
<1>7. EndsGiven(toRobot, granted) /\ EndsGiven(toRobot \o <<ManifestRequest>>, granted)
  <2>1. Agreed(mgr, linkUp, toRobot \o <<ManifestRequest>>, toDesk, robot, granted)
    BY <1>1, <1>3, AskedAgreed
  <2> QED
    BY <1>3, <2>1 DEF Agreed
<1>8. CASE OnItsOwn(n, p, L)
  BY <1>3, <1>4, <1>8 DEF OnItsOwn, SameLink, Agreed
<1>9. CASE Ignores(n, p, L)
  BY <1>1, <1>3, <1>4, <1>9, TailAgreed DEF Ignores, Takes, SameLink
<1>10. CASE Learns(n, p, L)
  <2>1. linkUp = TRUE /\ linkUp' = TRUE /\ toDesk' = Tail(toDesk) /\ p = toRobot
    BY <1>1, <1>10 DEF Learns, Takes, SameLink
  <2> QED
    BY <1>1, <1>2, <1>3, <1>4, <1>10, <2>1, AnswerAgrees DEF Learns, Takes
<1>11. CASE Discovers(n, p, L)
  <2>1. CASE Blank(n)
    BY <1>6, <1>7, <1>11, <2>1 DEF Discovers, Takes
  <2>2. CASE n.topics = mgr.topics
    BY <1>1, <1>3, <1>4, <1>11, <2>2, TailAgreed DEF Discovers, Takes
  <2> QED
    BY <1>11, <2>1, <2>2 DEF Discovers
<1>12. CASE Connects(n, p, L) \/ Disconnects(n, p, L)
  BY <1>6, <1>7, <1>12 DEF Connects, Disconnects
<1> QED
  BY <1>8, <1>9, <1>10, <1>11, <1>12 DEF Talks

\* The robot answers the frame at the head of its queue: what it served it serves
\* still, unless the frame is about it, and a grant is served at the rate asked.
LEMMA RobotAgreed ==
  ASSUME NEW m, NEW up, NEW pb, NEW src, NEW p \in Seq(UpFrame), NEW d \in Seq(DeskFrame),
         NEW rb, NEW g, InOrder(m, up, pb, src, p, d, rb.boot, g),
         Agreed(m, up, p, d, rb, g), p # <<>>,
         NEW x \in DeskFrame, NEW RB, NEW G, g \subseteq G, RB.boot = rb.boot, ServedGiven(RB, G),
         \A k, id, rate : NothingAbout(p, 0, k) /\ Serves(rb, k, id, rate) => Serves(RB, k, id, rate),
         x.type = "SUBSCRIBE_RESULT" /\ x.status = "SUCCESS" =>
           /\ Head(p).type = "SUBSCRIBE" /\ x.seq = Head(p).seq
           /\ Serves(RB, Head(p).key, x.id, Head(p).rate)
  PROVE  Agreed(m, up, Tail(p), Append(d, x), RB, G)
<1> DEFINE P == Tail(p)
           D == Append(d, x)
           f == Head(p)
<1>1. /\ 1 \in DOMAIN p /\ f = p[1] /\ DOMAIN p = 1..Len(p) /\ DOMAIN P = 1..(Len(p) - 1)
      /\ Len(p) \in Nat
      /\ \A i \in DOMAIN P : i + 1 \in DOMAIN p /\ P[i] = p[i + 1]
  BY TailIs
<1>2. /\ Len(d) \in Nat /\ DOMAIN d = 1..Len(d) /\ DOMAIN D = 1..(Len(d) + 1)
      /\ D[Len(d) + 1] = x /\ \A i \in DOMAIN d : D[i] = d[i]
  BY AppendProperties
<1>3. x.type = "SUBSCRIBE_RESULT" /\ x.status = "SUCCESS" =>
           /\ f.type = "SUBSCRIBE" /\ x.seq = f.seq
           /\ Serves(RB, f.key, x.id, f.rate)
  OBVIOUS
<1> HIDE DEF P, D, f
<1>4. ASSUME NEW k, NEW i \in Nat, NEW l, NothingAbout(p, l, k), l = 0 \/ l <= i + 1, l \in Nat
      PROVE  NothingAbout(P, i, k)
  <2> SUFFICES ASSUME NEW j \in DOMAIN P, j > i PROVE ~About(P[j], k)
    BY DEF NothingAbout
  <2>1. j + 1 \in DOMAIN p /\ P[j] = p[j + 1] /\ j + 1 > l
    BY <1>1, <1>4
  <2> QED
    BY <1>4, <2>1 DEF NothingAbout
<1>5. EndsGiven(P, G)
  BY <1>1 DEF Agreed, EndsGiven
<1>6. ASSUME up, NEW k \in DOMAIN m.topics PROVE TopicAgreed(m.topics[k], k, P, D, RB)
  <2> DEFINE t == m.topics[k]
  <2>1. TopicAgreed(t, k, p, d, rb)
    BY <1>6 DEF Agreed
  <2> HIDE DEF t
  <2>2. NothingAbout(p, 0, k) => NothingAbout(P, 0, k)
    BY <1>4
  <2>3. GrantAgreed(t, k, P, RB)
    BY <2>1, <2>2 DEF TopicAgreed, GrantAgreed
  <2>4. ASSUME NEW i \in DOMAIN P PROVE RequestLast(t, k, P, i)
    <3>1. i + 1 \in DOMAIN p /\ P[i] = p[i + 1] /\ i \in Nat /\ RequestLast(t, k, p, i + 1)
      BY <1>1, <2>1 DEF TopicAgreed
    <3>2. NothingAbout(p, i + 1, k) => NothingAbout(P, i, k)
      BY <1>4, <3>1
    <3> QED
      BY <3>1, <3>2 DEF RequestLast
  <2>5. ASSUME NEW j \in DOMAIN D PROVE AnswerAgreed(t, k, P, D, RB, j)
    <3>1. CASE j \in DOMAIN d
      BY <1>2, <2>1, <2>2, <3>1 DEF TopicAgreed, AnswerAgreed
    <3>2. CASE j = Len(d) + 1
      <4> SUFFICES ASSUME x.type = "SUBSCRIBE_RESULT", x.status = "SUCCESS",
                          x.seq = t.inFlightSequence, t.sentRate # 0
                   PROVE  NothingAbout(P, 0, k) /\ Serves(RB, k, x.id, t.sentRate)
        BY <1>2, <3>2 DEF AnswerAgreed
      <4>1. f.type = "SUBSCRIBE" /\ t.inFlightSequence = f.seq
            /\ Serves(RB, f.key, x.id, f.rate)
        BY <1>3
      <4>2. f.key = k
        BY <1>1, <4>1 DEF InOrder, RequestMet, t
      <4>3. f.rate = t.sentRate /\ NothingAbout(p, 1, k)
        BY <1>1, <2>1, <4>1 DEF TopicAgreed, RequestLast
      <4>4. NothingAbout(P, 0, k)
        BY <1>4, <4>3
      <4> QED
        BY <4>1, <4>2, <4>3, <4>4
    <3> QED
      BY <1>2, <3>1, <3>2
  <2>6. TopicAgreed(t, k, P, D, RB)
    BY <2>3, <2>4, <2>5 DEF TopicAgreed
  <2> QED
    BY <2>6 DEF t
<1>7. Agreed(m, up, P, D, RB, G)
  BY <1>5, <1>6 DEF Agreed
<1> QED
  BY <1>7 DEF P, D

\* Its answer keeps both ends agreed: a topic it stops serving is one the frame
\* names, since it gave no identity twice.
LEMMA ReplyAgreed ==
  ASSUME HCInv, LinkInOrder, EndsInOrder, FreshIds, RobotReceives
  PROVE  EndsInOrder'
<1>1. PICK f, x : Replies(f, x)
  BY RobotReplies
<1>2. toRobot \in Seq(UpFrame) /\ toDesk \in Seq(DeskFrame) /\ RobotOK(robot)
  BY DEF HCInv, LinkTyped
<1>3. /\ toRobot # <<>> /\ f = Head(toRobot) /\ f = toRobot[1] /\ 1 \in DOMAIN toRobot
      /\ f \in UpFrame /\ x \in DeskFrame /\ robot'.boot = robot.boot
  BY <1>1, <1>2, TailIs DEF Replies
<1>4. /\ InOrder(mgr, linkUp, child.peerBootId, sourceBootId[Robot], toRobot, toDesk,
                 robot.boot, granted)
      /\ Agreed(mgr, linkUp, toRobot, toDesk, robot, granted)
  BY DEF LinkInOrder, EndsInOrder
<1>5. EndsGiven(toRobot, granted) /\ ServedGiven(robot, granted)
  BY <1>4 DEF Agreed
<1>6. ASSUME granted \subseteq granted', ServedGiven(robot', granted'),
             \A k, id, rate : NothingAbout(toRobot, 0, k) /\ Serves(robot, k, id, rate) =>
                                Serves(robot', k, id, rate),
             x.type = "SUBSCRIBE_RESULT" /\ x.status = "SUCCESS" =>
               /\ f.type = "SUBSCRIBE" /\ x.seq = f.seq
               /\ Serves(robot', f.key, x.id, f.rate)
      PROVE  EndsInOrder'
  <2>1. Agreed(mgr, linkUp, Tail(toRobot), Append(toDesk, x), robot', granted')
    BY <1>2, <1>3, <1>4, <1>6, RobotAgreed
  <2> QED
    BY <1>1, <2>1 DEF Replies, EndsInOrder
<1>7. CASE Refuses(f, x) \/ Describes(f, x)
  BY <1>5, <1>6, <1>7 DEF Refuses, Describes
<1>8. CASE Grants(f, x)
  <2> DEFINE s == [id |-> x.id, rate |-> f.rate]
  <2>1. /\ DOMAIN robot'.subs = DOMAIN robot.subs \cup {f.key}
        /\ robot'.subs[f.key] = s
        /\ \A k \in DOMAIN robot.subs : k # f.key => robot'.subs[k] = robot.subs[k]
        /\ granted' = granted \cup {[boot |-> robot.boot, key |-> f.key, id |-> x.id]}
    BY <1>8 DEF Grants, With
  <2>2. s.id = x.id
    OBVIOUS
  <2>3. ASSUME NEW k \in DOMAIN robot'.subs
        PROVE  [boot |-> robot'.boot, key |-> k, id |-> robot'.subs[k].id] \in granted'
    <3>1. CASE k = f.key
      BY <1>3, <2>1, <2>2, <3>1
    <3>2. CASE k # f.key
      BY <1>3, <1>5, <2>1, <3>2 DEF ServedGiven
    <3> QED
      BY <3>1, <3>2
  <2>4. ASSUME NEW k, NothingAbout(toRobot, 0, k) PROVE k # f.key
    BY <1>3, <1>8, <2>4 DEF NothingAbout, About, Grants
  <2>5. \A k, id, rate : NothingAbout(toRobot, 0, k) /\ Serves(robot, k, id, rate) =>
                           Serves(robot', k, id, rate)
    BY <2>1, <2>4 DEF Serves
  <2>6. Serves(robot', f.key, x.id, f.rate) /\ f.type = "SUBSCRIBE" /\ x.seq = f.seq
    BY <1>8, <2>1 DEF Serves, Grants
  <2>7. granted \subseteq granted'
    BY <2>1
  <2> QED
    BY <1>6, <2>3, <2>5, <2>6, <2>7 DEF ServedGiven
<1>9. CASE Ends(f, x)
  <2> DEFINE gone == {k \in DOMAIN robot.subs : f.boot = robot.boot /\ robot.subs[k].id = f.id}
  <2>1. /\ DOMAIN robot'.subs = DOMAIN robot.subs \ gone
        /\ \A k \in DOMAIN robot.subs \ gone : robot'.subs[k] = robot.subs[k]
        /\ granted' = granted
    BY <1>9 DEF Ends, Without, Restrict
  <2>2. ASSUME NEW k \in gone PROVE k = f.key
    <3>1. [boot |-> f.boot, key |-> f.key, id |-> f.id] \in granted
      BY <1>3, <1>5, <1>9 DEF EndsGiven, Ends
    <3>2. [boot |-> robot.boot, key |-> k, id |-> robot.subs[k].id] \in granted
      BY <1>5 DEF ServedGiven
    <3> QED
      BY <3>1, <3>2 DEF FreshIds
  <2>3. ASSUME NEW k, NothingAbout(toRobot, 0, k) PROVE k \notin gone
    BY <1>3, <1>9, <2>2, <2>3 DEF NothingAbout, About, Ends
  <2> HIDE DEF gone
  <2>4. \A k, id, rate : NothingAbout(toRobot, 0, k) /\ Serves(robot, k, id, rate) =>
                           Serves(robot', k, id, rate)
    BY <2>1, <2>3 DEF Serves
  <2>5. ServedGiven(robot', granted')
    BY <1>3, <1>5, <2>1 DEF ServedGiven
  <2> QED
    BY <1>6, <1>9, <2>1, <2>4, <2>5 DEF Ends
<1> QED
  BY <1>1, <1>7, <1>8, <1>9 DEF Replies

\* A restart leaves no grant of the robot's boot to agree on.
LEMMA RebootAgreed ==
  ASSUME HCInv, LinkInOrder, EndsInOrder, RobotReboots
  PROVE  EndsInOrder'
<1>1. /\ UNCHANGED <<mgr, sourceBootId, linkUp, toRobot, toDesk, granted>>
      /\ robot' = [boot |-> robot.boot + 1, subs |-> <<>>]
  BY DEF RobotReboots, vars
<1>2. /\ robot.boot \in Nat /\ sourceBootId[Robot] \in Nat /\ Good(mgr)
      /\ sourceBootId[Robot] <= robot.boot
  BY SettingIs DEF Setting, LinkInOrder, InOrder, BootsRise
<1>3. robot'.boot = robot.boot + 1 /\ DOMAIN robot'.subs = {}
  BY <1>1
<1>4. EndsGiven(toRobot, granted) /\ ServedGiven(robot', granted)
  BY <1>3 DEF EndsInOrder, Agreed, ServedGiven
<1>5. ASSUME linkUp, NEW k \in DOMAIN mgr.topics
      PROVE  TopicAgreed(mgr.topics[k], k, toRobot, toDesk, robot')
  <2> DEFINE t == mgr.topics[k]
  <2>1. TopicAgreed(t, k, toRobot, toDesk, robot)
    BY <1>5 DEF EndsInOrder, Agreed
  <2>2. t.subscriptionId # 0 \/ t.inFlightSequence # 0 => t.targetBootId <= sourceBootId[Robot]
    <3>1. t.subscriptionId # 0 => t.targetBootId = sourceBootId[Robot]
      BY DEF LinkInOrder, InOrder, GrantsNamed
    <3>2. t.inFlightSequence # 0 => t.targetBootId <= sourceBootId[Robot]
      BY DEF LinkInOrder, InOrder, RequestsAimed
    <3> HIDE DEF t
    <3> QED
      BY <1>2, <3>1, <3>2
  <2>3. t.targetBootId \in Nat
    BY <1>2, TargetIsNumber
  <2>4. t.subscriptionId # 0 \/ t.inFlightSequence # 0 => t.targetBootId # robot'.boot
    BY <1>2, <1>3, <2>2, <2>3
  <2>5. \A j \in DOMAIN toDesk : toDesk[j].type = "SUBSCRIBE_RESULT" => toDesk[j].seq # 0
    BY NumbersInOrder DEF LinkInOrder
  <2> HIDE DEF t
  <2>6. TopicAgreed(t, k, toRobot, toDesk, robot')
    BY <2>1, <2>4, <2>5 DEF TopicAgreed, GrantAgreed, AnswerAgreed
  <2> QED
    BY <2>6 DEF t
<1> QED
  BY <1>1, <1>4, <1>5 DEF EndsInOrder, Agreed

\* Only GrantLapses lapses a grant.
LEMMA LapseCounts ==
  ASSUME HCInv, HCNext, spent'.lapse = 0
  PROVE  spent.lapse = 0 /\ ~GrantLapses
<1>1. spent \in Spent
  BY DEF HCInv, LinkTyped
<1>2. ~GrantLapses
  BY <1>1 DEF GrantLapses, Spent
<1>3. CASE spent' = spent
  BY <1>2, <1>3
<1>4. CASE LinkDown \/ LeaseTimer \/ Lose
  BY <1>1, <1>2, <1>4 DEF LinkDown, LeaseTimer, Lose, Spent
<1>5. CASE \E online \in BOOLEAN, boot \in {0, robot.boot} : PeerPresence(online, boot)
  BY <1>1, <1>2, <1>5 DEF PeerPresence, Spent
<1> QED
  BY <1>2, <1>3, <1>4, <1>5 DEF HCNext, UserAdds, UserRemoves, LinkUp, CatalogRetry,
     DeskReceives, RobotReceives, RobotReboots

\* What was given stays given.
LEMMA FreshBefore ==
  ASSUME HCInv, HCNext, FreshIds' PROVE FreshIds
<1>1. CASE RobotReceives
  <2>1. PICK f, x : Replies(f, x)
    BY <1>1, RobotReplies
  <2>2. granted \subseteq granted'
    BY <2>1 DEF Replies, Refuses, Grants, Ends, Describes
  <2> QED
    BY <2>2 DEF FreshIds
<1>2. CASE granted' = granted
  BY <1>2 DEF FreshIds
<1> QED
  BY <1>1, <1>2 DEF HCNext, UserAdds, UserRemoves, LinkUp, LinkDown, CatalogRetry, PeerPresence,
     LeaseTimer, DeskReceives, RobotReboots, GrantLapses, Lose

\* Both ends stay agreed until a frame or a grant is lost, or an identity reused.
LEMMA StepAgreeInv == AgreeInv /\ [HCNext]_allVars => AgreeInv'
<1> SUFFICES ASSUME AgreeInv, [HCNext]_allVars PROVE AgreeInv'
  OBVIOUS
<1>1. OrderInv /\ OrderInv' /\ HCInv /\ HCInv'
  BY StepOrderInv DEF AgreeInv, OrderInv
<1>2. TalkSetting
  <2>1. HCInv' => Setting'
    BY SettingIs, PTL
  <2> QED
    BY <1>1, <2>1, SettingIs DEF OrderInv, TalkSetting
<1>3. CASE UNCHANGED allVars
  BY <1>1, <1>3 DEF allVars, vars, envVars, AgreeInv, EndsInOrder, FreshIds
<1>4. CASE HCNext
  <2> SUFFICES ASSUME spent'.loss = 0, spent'.lapse = 0, FreshIds' PROVE EndsInOrder'
    BY <1>1 DEF AgreeInv
  <2>1. /\ spent.loss = 0 /\ spent.lapse = 0 /\ FreshIds /\ ~Lose /\ ~GrantLapses
        /\ LinkInOrder /\ LinkInOrder' /\ EndsInOrder
    BY <1>1, <1>4, LossCounts, LapseCounts, FreshBefore DEF OrderInv, AgreeInv
  <2>2. CASE RobotReceives
    BY <1>1, <2>1, <2>2, ReplyAgreed
  <2>3. CASE RobotReboots
    BY <1>1, <2>1, <2>3, RebootAgreed
  <2>4. CASE AsksCatalog
    <3>1. Agreed(mgr, linkUp, toRobot \o <<ManifestRequest>>, toDesk, robot, granted)
      BY <1>2, <2>1, AskedAgreed DEF TalkSetting, Setting, EndsInOrder
    <3> QED
      BY <2>1, <2>4, <3>1 DEF AsksCatalog, SameLink, EndsInOrder
  <2>5. ASSUME NEW n, NEW p, NEW L, Talks(n, p, L) PROVE EndsInOrder'
    <3>1. Agreed(n, linkUp', p, toDesk', robot', granted')
      BY <1>2, <2>1, <2>5, TalkAgreed
    <3>2. InOrder(n, linkUp', child'.peerBootId, sourceBootId'[Robot], p, toDesk',
                  robot'.boot, granted')
      BY <1>2, <2>1, <2>5, TalkInOrder
    <3>3. InOrder(mgr', linkUp', child'.peerBootId, sourceBootId'[Robot], toRobot', toDesk',
                  robot'.boot, granted')
      BY <2>1 DEF LinkInOrder
    <3>4. /\ Good(n) /\ Acted(sourceBootId'[Robot], n, mgr', L) /\ p \in Seq(UpFrame)
          /\ linkUp' => toRobot' = p \o mgr'.out
          /\ ~linkUp' => toRobot' = p
      BY <2>5 DEF Talks, Spoke, Starts
    <3>5. Good(mgr') /\ linkUp' \in BOOLEAN /\ sourceBootId'[Robot] \in Nat
      BY <1>2 DEF TalkSetting, Setting
    <3>6. Agreed(mgr', linkUp', toRobot', toDesk', robot', granted')
      BY <3>1, <3>2, <3>3, <3>4, <3>5, SentAgreed
    <3> QED
      BY <3>6 DEF EndsInOrder
  <2> QED
    BY <1>1, <1>2, <1>4, <2>1, <2>2, <2>3, <2>4, <2>5, DesktopTalks
<1> QED
  BY <1>3, <1>4

\* They agree on an empty link.
LEMMA InitAgreeInv == HCInit => AgreeInv
<1> SUFFICES ASSUME HCInit PROVE AgreeInv
  OBVIOUS
<1>1. /\ linkUp = FALSE /\ robot = [boot |-> 1, subs |-> <<>>] /\ toRobot = <<>>
  BY DEF HCInit
<1>2. DOMAIN robot.subs = {} /\ DOMAIN toRobot = {}
  BY <1>1
<1>3. EndsInOrder
  BY <1>1, <1>2 DEF EndsInOrder, Agreed, EndsGiven, ServedGiven
<1> QED
  BY <1>3, InitOrderInv DEF AgreeInv

\* A grant on a quiet link is wanted, and was asked for at the rate wanted.
LEMMA QuietGrant ==
  ASSUME OrderInv, Quiet, NEW k \in DOMAIN mgr.topics, mgr.topics[k].subscriptionId # 0
  PROVE  /\ mgr.topics[k].inFlightSequence = 0
         /\ mgr.topics[k].sentRate = DesiredRate(mgr, k) /\ mgr.topics[k].sentRate # 0
<1>1. /\ Good(mgr) /\ CountedExcept(mgr, {}) /\ DemandExcept(mgr, sessionUp, {})
      /\ Held(mgr, sourceBootId[Robot])
  BY DEF OrderInv, HCInv, DemandInv, IInv
<1>2. mgr.topics[k].inFlightSequence = 0
  BY DEF Quiet, InFlightTopics
<1>3. k \in Key /\ Live(mgr, k)
  BY <1>1 DEF Good, ManagerOK, Live
<1>4. ConsumersOf(mgr, k) # {} /\ ~mgr.topics[k].deferredForBootId
  BY <1>1, <1>3 DEF CountedExcept, Held
<1>5. mgr.topics[k].sentRate = DesiredRate(mgr, k)
  BY <1>1, <1>4 DEF DemandExcept, AtRate
<1>6. DesiredRate(mgr, k) \in Rate
  BY <1>1, <1>4, DesiredRateType DEF Good
<1> QED
  BY <1>2, <1>5, <1>6, MaxRateAssumption DEF Rate

\* On a link that loses no frame, to a robot that forgets no grant but by a restart
\* and gives no identity twice in a boot, once the link has gone quiet a grant the
\* client holds from the robot's boot is the one it serves, at the rate the
\* consumers want, however often the link dropped, the robot restarted, answers
\* came late and consumers came and went.
THEOREM EndsAgreeHolds ==
  HCSpec => [](spent.loss = 0 /\ spent.lapse = 0 /\ FreshIds => EndsAgree)
<1>1. ASSUME AgreeInv, EndsInOrder, Quiet, linkUp, NEW k \in DOMAIN mgr.topics,
             mgr.topics[k].subscriptionId # 0, mgr.topics[k].targetBootId = robot.boot
      PROVE  /\ k \in DOMAIN robot.subs
             /\ robot.subs[k] = [id |-> mgr.topics[k].subscriptionId, rate |-> DesiredRate(mgr, k)]
  <2>1. /\ mgr.topics[k].inFlightSequence = 0
        /\ mgr.topics[k].sentRate = DesiredRate(mgr, k) /\ mgr.topics[k].sentRate # 0
    BY <1>1, QuietGrant DEF AgreeInv
  <2>2. GrantAgreed(mgr.topics[k], k, toRobot, robot)
    BY <1>1 DEF EndsInOrder, Agreed, TopicAgreed
  <2> QED
    BY <1>1, <2>1, <2>2 DEF GrantAgreed, Serves
<1>2. AgreeInv => (spent.loss = 0 /\ spent.lapse = 0 /\ FreshIds => EndsAgree)
  BY <1>1 DEF AgreeInv, EndsAgree
<1> QED
  BY <1>2, InitAgreeInv, StepAgreeInv, PTL DEF HCSpec

-----------------------------------------------------------------------------
(* Nothing is streamed for nobody: on a link that stays up and loses         *)
(* nothing, a topic the robot streams is held, awaited or being given up.    *)

\* No request for k is behind the place i.
NoRequest(p, i, k) ==
  \A j \in DOMAIN p : j > i => ~(p[j].type = "SUBSCRIBE" /\ p[j].key = k)

\* What the robot serves is a grant held, to be had again, or being given up.
Accounted(m, p, rb) ==
  \A k \in DOMAIN rb.subs :
    \/ /\ k \in DOMAIN m.topics
       /\ m.topics[k].inFlightSequence # 0 \/ m.topics[k].subscriptionId = rb.subs[k].id
    \/ \E j \in DOMAIN p : p[j].type = "UNSUBSCRIBE" /\ p[j].boot = rb.boot /\ p[j].id = rb.subs[k].id

\* A request the robot will grant is one the client waits for.
RequestsAwaited(m, p, src, rb) ==
  \A j \in DOMAIN p : p[j].type = "SUBSCRIBE" =>
    /\ p[j].boot <= src
    /\ p[j].boot = rb.boot =>
         p[j].key \in DOMAIN m.topics /\ m.topics[p[j].key].inFlightSequence # 0

\* The answer t waits for is on its way, or its request is, and says of k what
\* the robot serves; it refuses only what was addressed to an earlier boot.
Awaits(t, k, p, d, rb) ==
  /\ \/ \E i \in DOMAIN p : p[i].type = "SUBSCRIBE" /\ p[i].seq = t.inFlightSequence
     \/ \E i \in DOMAIN d : d[i].type = "SUBSCRIBE_RESULT" /\ d[i].seq = t.inFlightSequence
  /\ \A i \in DOMAIN p : p[i].type = "SUBSCRIBE" /\ p[i].seq = t.inFlightSequence =>
       NoRequest(p, i, k)
  /\ \A j \in DOMAIN d : d[j].type = "SUBSCRIBE_RESULT" /\ d[j].seq = t.inFlightSequence =>
       IF d[j].status = "SUCCESS"
         THEN t.targetBootId = rb.boot =>
                NoRequest(p, 0, k) /\ (k \in DOMAIN rb.subs => rb.subs[k].id = d[j].id)
         ELSE t.targetBootId < rb.boot

\* Nothing was ever sent while the link was down.
NeverUp(up, src, p, d, rb) ==
  ~up => src = 0 /\ p = <<>> /\ d = <<>> /\ DOMAIN rb.subs = {}

Streamed(m, up, pb, src, p, d, rb) ==
  /\ pb = src
  /\ DOMAIN rb.subs # {} => src = rb.boot
  /\ Accounted(m, p, rb)
  /\ RequestsAwaited(m, p, src, rb)
  /\ \A k \in DOMAIN m.topics : m.topics[k].inFlightSequence # 0 =>
       m.topics[k].targetBootId = src /\ Awaits(m.topics[k], k, p, d, rb)
  /\ NeverUp(up, src, p, d, rb)

LinkStreams ==
  Streamed(mgr, linkUp, child.peerBootId, sourceBootId[Robot], toRobot, toDesk, robot)

StreamInv ==
  /\ OrderInv
  /\ ~SlowAnswers /\ spent.loss = 0 /\ spent.drop = 0 => LinkStreams

\* A handler that asks for no k leaves the last request for it the last.
LEMMA NoMoreAsked ==
  ASSUME NEW p \in Seq(UpFrame), NEW m, m.out \in Seq(UpFrame), NEW k,
         \A j \in DOMAIN m.out : ~(m.out[j].type = "SUBSCRIBE" /\ m.out[j].key = k),
         NEW i, NoRequest(p, i, k)
  PROVE  NoRequest(p \o m.out, i, k)
<1>1. \A j \in DOMAIN (p \o m.out) :
        \/ j \in DOMAIN p /\ (p \o m.out)[j] = p[j]
        \/ \E l \in DOMAIN m.out : j = Len(p) + l /\ (p \o m.out)[j] = m.out[l]
  BY SentIs
<1> QED
  BY <1>1 DEF NoRequest

\* What a handler sends of a topic it waits for: nothing, or the end of the grant
\* it renews, or the request.
LEMMA SentAwaits ==
  ASSUME NEW b \in Nat, NEW m0, NEW m, Acted(b, m0, m, {}), Good(m0), Good(m),
         NEW pb, NEW src, NEW p \in Seq(UpFrame), NEW d, NEW rb, NEW g,
         InOrder(m0, TRUE, pb, src, p, d, rb.boot, g),
         InOrder(m, TRUE, pb, src, p \o m.out, d, rb.boot, g),
         m.out \in Seq(UpFrame),
         NEW k \in DOMAIN m.topics, k \in Key, m.topics[k].inFlightSequence # 0,
         k \in DOMAIN m0.topics /\ m0.topics[k].inFlightSequence # 0 =>
           m0.topics[k].targetBootId = b /\ Awaits(m0.topics[k], k, p, d, rb)
  PROVE  m.topics[k].targetBootId = b /\ Awaits(m.topics[k], k, p \o m.out, d, rb)
<1> DEFINE P == p \o m.out
           t == m.topics[k]
<1>1. /\ \A i \in DOMAIN P : P[i].type = "SUBSCRIBE" /\ P[i].seq = t.inFlightSequence =>
           P[i].key = k
      /\ \A i \in DOMAIN d : d[i].type = "SUBSCRIBE_RESULT" => d[i].seq \in 1..(m0.nextSequence - 1)
      /\ \A i \in DOMAIN p : p[i].type = "SUBSCRIBE" => p[i].seq \in 1..(m0.nextSequence - 1)
  <2>1. InOrder(m, TRUE, pb, src, P, d, rb.boot, g)
    OBVIOUS
  <2> HIDE DEF P
  <2>2. \A i \in DOMAIN P : P[i].type = "SUBSCRIBE" => P[i].seq # 0
    BY <2>1, NumbersInOrder
  <2>3. \A i \in DOMAIN P : RequestMet(m, pb, P, d, i)
    BY <2>1 DEF InOrder
  <2>4. \A i \in DOMAIN P : P[i].type = "SUBSCRIBE" =>
          (P[i].seq = t.inFlightSequence => P[i].key = k)
    BY <2>3 DEF RequestMet
  <2>5. /\ \A i \in DOMAIN d : d[i].type = "SUBSCRIBE_RESULT" =>
             d[i].seq \in 1..(m0.nextSequence - 1) /\ d[i].seq # 0
        /\ \A i \in DOMAIN p : p[i].type = "SUBSCRIBE" => p[i].seq \in 1..(m0.nextSequence - 1)
    BY NumbersInOrder
  <2> QED
    BY <2>2, <2>4, <2>5
<1>2. /\ \A j \in DOMAIN P : \/ j \in DOMAIN p /\ P[j] = p[j]
                             \/ \E l \in DOMAIN m.out : j = Len(p) + l /\ P[j] = m.out[l]
      /\ \A j \in DOMAIN p : j \in DOMAIN P /\ P[j] = p[j]
      /\ \A l \in DOMAIN m.out : l \in Nat \ {0} /\ Len(p) + l \in DOMAIN P
                                 /\ P[Len(p) + l] = m.out[l]
      /\ Len(p) \in Nat /\ DOMAIN p = 1..Len(p)
  BY SentIs
<1>3. m0.nextSequence \in Nat \ {0}
  BY DEF Good, ManagerOK
<1>4. ASSUME \A j \in DOMAIN m.out : ~(m.out[j].type = "SUBSCRIBE" /\ m.out[j].key = k),
             NEW i, NoRequest(p, i, k)
      PROVE  NoRequest(P, i, k)
  BY <1>4, NoMoreAsked
<1> HIDE DEF P
<1>5. ASSUME \A j \in DOMAIN m.out : ~(m.out[j].type = "SUBSCRIBE" /\ m.out[j].key = k),
             k \in DOMAIN m0.topics,
             t.inFlightSequence = m0.topics[k].inFlightSequence,
             t.targetBootId = m0.topics[k].targetBootId
      PROVE  t.targetBootId = b /\ Awaits(t, k, P, d, rb)
  <2> DEFINE s == m0.topics[k]
  <2>1. t.targetBootId = b /\ Awaits(s, k, p, d, rb)
    BY <1>5
  <2>2. t.inFlightSequence = s.inFlightSequence /\ t.targetBootId = s.targetBootId
    BY <1>5
  <2> HIDE DEF s, t
  <2>3. ASSUME NEW i \in DOMAIN P, P[i].type = "SUBSCRIBE", P[i].seq = t.inFlightSequence
        PROVE  NoRequest(P, i, k)
    <3>1. i \in DOMAIN p /\ P[i] = p[i]
      BY <1>1, <1>2, <1>5, <2>3 DEF t
    <3> QED
      BY <1>4, <1>5, <2>1, <2>2, <2>3, <3>1 DEF Awaits
  <2>4. NoRequest(p, 0, k) => NoRequest(P, 0, k)
    BY <1>4, <1>5
  <2>5. Awaits(t, k, P, d, rb)
    BY <1>2, <2>1, <2>2, <2>3, <2>4 DEF Awaits
  <2> QED
    BY <2>1, <2>5 DEF t
<1>6. t.targetBootId = b /\ Awaits(t, k, P, d, rb)
  <2>1. CASE SilentOn(m, k) /\ Kept(m0, m, k)
    <3>1. /\ k \in DOMAIN m0.topics /\ t.inFlightSequence = m0.topics[k].inFlightSequence
          /\ t.targetBootId = m0.topics[k].targetBootId
      BY <2>1 DEF Kept, Live
    <3> QED
      BY <1>5, <2>1, <3>1 DEF SilentOn
  <2>2. CASE Releases(m0, m, k)
    <3>1. /\ k \in DOMAIN m0.topics /\ t.inFlightSequence = m0.topics[k].inFlightSequence
          /\ t.targetBootId = m0.topics[k].targetBootId
      BY <2>2 DEF Releases, Live
    <3>2. \A j \in DOMAIN m.out : ~(m.out[j].type = "SUBSCRIBE" /\ m.out[j].key = k)
      BY <2>2 DEF Releases, OneWord
    <3> QED
      BY <1>5, <3>1, <3>2
  <2>3. CASE Requests(b, m0, m, k)
    <3>1. PICK i \in DOMAIN m.out :
            /\ OneWord(m, k, i)
            /\ m.out[i].type = "SUBSCRIBE" /\ m.out[i].seq = t.inFlightSequence
      BY <2>3 DEF Requests, OneWord
    <3>2. t.inFlightSequence >= m0.nextSequence /\ t.inFlightSequence \in Nat /\ t.targetBootId = b
      BY <2>3 DEF Requests, Good, ManagerOK, Topic
    <3>3. t.inFlightSequence \notin 1..(m0.nextSequence - 1)
      BY <1>3, <3>2
    <3>4. \E j \in DOMAIN P : P[j].type = "SUBSCRIBE" /\ P[j].seq = t.inFlightSequence
      BY <1>2, <3>1
    <3>5. ASSUME NEW j \in DOMAIN P, P[j].type = "SUBSCRIBE", P[j].seq = t.inFlightSequence
          PROVE  NoRequest(P, j, k)
      <4>1. P[j].key = k /\ ~(j \in DOMAIN p /\ P[j] = p[j])
        BY <1>1, <3>3, <3>5
      <4>2. PICK l \in DOMAIN m.out : j = Len(p) + l /\ P[j] = m.out[l]
        BY <1>2, <4>1
      <4>3. l = i
        BY <3>1, <4>1, <4>2 DEF OneWord
      <4>4. ASSUME NEW q \in DOMAIN P, q > j, P[q].key = k PROVE FALSE
        <5>1. q \notin DOMAIN p
          BY <1>2, <4>2, <4>4
        <5>2. PICK r \in DOMAIN m.out : q = Len(p) + r /\ P[q] = m.out[r]
          BY <1>2, <5>1
        <5>3. r = i
          BY <3>1, <4>4, <5>2 DEF OneWord
        <5> QED
          BY <1>2, <4>2, <4>3, <4>4, <5>2, <5>3
      <4> QED
        BY <4>4 DEF NoRequest
    <3>6. \A j \in DOMAIN d : d[j].type = "SUBSCRIBE_RESULT" => d[j].seq # t.inFlightSequence
      BY <1>1, <3>3
    <3> QED
      BY <3>2, <3>4, <3>5, <3>6 DEF Awaits
  <2> QED
    BY <2>1, <2>2, <2>3 DEF Acted
<1> QED
  BY <1>6 DEF P

\* A topic that waits for an answer when a handler starts waits for one when it ends.
LEMMA StillAwaited ==
  ASSUME NEW b \in Nat, NEW m0, NEW m, Acted(b, m0, m, {}), Good(m0), NEW k \in Key,
         k \in DOMAIN m0.topics, m0.topics[k].inFlightSequence # 0
  PROVE  k \in DOMAIN m.topics /\ m.topics[k].inFlightSequence # 0
<1>1. m0.nextSequence \in Nat \ {0}
  BY DEF Good, ManagerOK
<1>2. CASE Requests(b, m0, m, k)
  BY <1>1, <1>2 DEF Requests
<1>3. CASE Kept(m0, m, k)
  BY <1>3 DEF Kept, Live
<1>4. CASE Releases(m0, m, k)
  BY <1>4 DEF Releases
<1> QED
  BY <1>2, <1>3, <1>4 DEF Acted

\* The frames of a handler keep the robot's streams wanted.
LEMMA SentStreamed ==
  ASSUME NEW src \in Nat, NEW m0, NEW m, Acted(src, m0, m, {}), Good(m0), Good(m), Held(m, src),
         NEW up \in BOOLEAN, NEW pb, NEW p \in Seq(UpFrame), NEW d, NEW rb, RobotOK(rb), NEW g,
         NEW P, up => P = p \o m.out, ~up => P = p,
         InOrder(m0, up, pb, src, p, d, rb.boot, g), InOrder(m, up, pb, src, P, d, rb.boot, g),
         Streamed(m0, up, pb, src, p, d, rb)
  PROVE  Streamed(m, up, pb, src, P, d, rb)
<1>0. \A k \in DOMAIN m.topics : k \in Key
  BY DEF Good, ManagerOK
<1>1. CASE ~up
  <2>1. src = 0 /\ DOMAIN p = {} /\ P = p /\ DOMAIN rb.subs = {}
    BY <1>1 DEF Streamed, NeverUp
  <2>2. \A k \in DOMAIN m.topics : m.topics[k].inFlightSequence = 0
    BY <1>0, <2>1 DEF Held, Live
  <2> QED
    BY <2>1, <2>2 DEF Streamed, Accounted, RequestsAwaited
<1>2. CASE up
  <2>1. m.out \in Seq(Frame) /\ m.out \in Seq(UpFrame) /\ P = p \o m.out /\ up = TRUE
    BY <1>2, SeqMonotonic DEF Good, ManagerOK, UpFrame
  <2>2. /\ \A j \in DOMAIN P : \/ j \in DOMAIN p /\ P[j] = p[j]
                               \/ \E l \in DOMAIN m.out : j = Len(p) + l /\ P[j] = m.out[l]
        /\ \A j \in DOMAIN p : j \in DOMAIN P /\ P[j] = p[j]
        /\ \A l \in DOMAIN m.out : Len(p) + l \in DOMAIN P /\ P[Len(p) + l] = m.out[l]
    <3> DEFINE s == m.out
               Q == p \o s
    <3>1. s \in Seq(UpFrame) /\ P = Q
      BY <2>1
    <3> HIDE DEF s
    <3>2. \A i \in DOMAIN p : i \in DOMAIN Q /\ Q[i] = p[i]
      BY <3>1, SentIs
    <3>3. \A i \in DOMAIN s : Len(p) + i \in DOMAIN Q /\ Q[Len(p) + i] = s[i]
      BY <3>1, SentIs
    <3>4. \A j \in DOMAIN Q : \/ j \in DOMAIN p /\ Q[j] = p[j]
                              \/ \E i \in DOMAIN s : j = Len(p) + i /\ Q[j] = s[i]
      BY <3>1, SentIs
    <3> HIDE DEF Q
    <3>5. /\ \A j \in DOMAIN P : \/ j \in DOMAIN p /\ P[j] = p[j]
                                 \/ \E l \in DOMAIN s : j = Len(p) + l /\ P[j] = s[l]
          /\ \A j \in DOMAIN p : j \in DOMAIN P /\ P[j] = p[j]
          /\ \A l \in DOMAIN s : Len(p) + l \in DOMAIN P /\ P[Len(p) + l] = s[l]
      BY <3>1, <3>2, <3>3, <3>4
    <3> QED
      BY <3>5 DEF s
  <2>3. ASSUME NEW k \in DOMAIN m.topics, m.topics[k].inFlightSequence # 0
        PROVE  m.topics[k].targetBootId = src /\ Awaits(m.topics[k], k, P, d, rb)
    <3>1. k \in DOMAIN m0.topics /\ m0.topics[k].inFlightSequence # 0 =>
            m0.topics[k].targetBootId = src /\ Awaits(m0.topics[k], k, p, d, rb)
      BY DEF Streamed
    <3>2. /\ InOrder(m0, TRUE, pb, src, p, d, rb.boot, g)
          /\ InOrder(m, TRUE, pb, src, p \o m.out, d, rb.boot, g)
      BY <2>1
    <3>3. k \in Key /\ m.out \in Seq(UpFrame)
      BY <1>0, <2>1
    <3>4. m.topics[k].targetBootId = src /\ Awaits(m.topics[k], k, p \o m.out, d, rb)
      BY <2>3, <3>1, <3>2, <3>3, SentAwaits
    <3> QED
      BY <2>1, <3>4
  <2>4. ASSUME NEW k \in DOMAIN rb.subs
        PROVE  \/ /\ k \in DOMAIN m.topics
                  /\ m.topics[k].inFlightSequence # 0 \/ m.topics[k].subscriptionId = rb.subs[k].id
               \/ \E j \in DOMAIN P : /\ P[j].type = "UNSUBSCRIBE" /\ P[j].boot = rb.boot
                                      /\ P[j].id = rb.subs[k].id
    <3>1. k \in Key /\ rb.subs[k].id # 0 /\ src = rb.boot
      <4>1. k \in Key /\ rb.subs[k].id \in SubscriptionId
        BY DEF RobotOK
      <4> QED
        BY <4>1, SubscriptionIdAssumption DEF Streamed
    <3>2. CASE \E j \in DOMAIN p : /\ p[j].type = "UNSUBSCRIBE" /\ p[j].boot = rb.boot
                                   /\ p[j].id = rb.subs[k].id
      BY <2>2, <3>2
    <3>3. CASE k \in DOMAIN m0.topics /\ m0.topics[k].inFlightSequence # 0
      BY <3>1, <3>3, StillAwaited
    <3>4. CASE /\ k \in DOMAIN m0.topics /\ m0.topics[k].inFlightSequence = 0
               /\ m0.topics[k].subscriptionId = rb.subs[k].id
      <4>1. m0.topics[k].targetBootId = rb.boot
        BY <3>1, <3>4 DEF InOrder, GrantsNamed
      <4>2. CASE Kept(m0, m, k)
        BY <3>1, <3>4, <4>2 DEF Kept, Live
      <4>3. CASE Requests(src, m0, m, k)
        BY <4>3 DEF Requests, Good, ManagerOK
      <4>4. CASE Releases(m0, m, k)
        <5>1. PICK l \in DOMAIN m.out :
                /\ m.out[l].type = "UNSUBSCRIBE"
                /\ m.out[l].boot = rb.boot /\ m.out[l].id = rb.subs[k].id
          BY <3>4, <4>1, <4>4 DEF Releases, OneWord
        <5> QED
          BY <2>2, <5>1
      <4> QED
        BY <3>1, <4>2, <4>3, <4>4 DEF Acted
    <3> QED
      BY <3>2, <3>3, <3>4 DEF Streamed, Accounted
  <2>5. ASSUME NEW j \in DOMAIN P, P[j].type = "SUBSCRIBE"
        PROVE  /\ P[j].boot <= src
               /\ P[j].boot = rb.boot =>
                    P[j].key \in DOMAIN m.topics /\ m.topics[P[j].key].inFlightSequence # 0
    <3>1. CASE j \in DOMAIN p /\ P[j] = p[j]
      <4>1. /\ p[j].boot <= src
            /\ p[j].boot = rb.boot =>
                 p[j].key \in DOMAIN m0.topics /\ m0.topics[p[j].key].inFlightSequence # 0
        BY <2>5, <3>1 DEF Streamed, RequestsAwaited
      <4>2. \A k \in DOMAIN m0.topics : k \in Key
        BY DEF Good, ManagerOK
      <4> QED
        BY <3>1, <4>1, <4>2, StillAwaited
    <3>2. ASSUME NEW l \in DOMAIN m.out, P[j] = m.out[l]
          PROVE  P[j].boot = src /\ P[j].key \in DOMAIN m.topics
                 /\ m.topics[P[j].key].inFlightSequence # 0
      <4> DEFINE k == m.out[l].key
      <4>1. m.out[l] \in Frame /\ m.out[l].type = "SUBSCRIBE"
        BY <2>1, <2>5, <3>2
      <4>2. k \in Key
        BY <4>1 DEF Frame
      <4>3. ~SilentOn(m, k) /\ ~Releases(m0, m, k)
        BY <4>1 DEF SilentOn, Releases, OneWord
      <4>4. Requests(src, m0, m, k)
        BY <4>2, <4>3 DEF Acted
      <4>5. /\ k \in DOMAIN m.topics /\ m.topics[k].inFlightSequence >= m0.nextSequence
            /\ m.out[l].boot = src
        BY <4>4 DEF Requests, OneWord
      <4>6. m0.nextSequence \in Nat \ {0}
        BY DEF Good, ManagerOK
      <4>7. m.topics[k].inFlightSequence # 0
        BY <4>5, <4>6
      <4> QED
        BY <3>2, <4>5, <4>7
    <3> QED
      BY <2>2, <3>1, <3>2
  <2> QED
    BY <1>2, <2>3, <2>4, <2>5 DEF Streamed, Accounted, RequestsAwaited, NeverUp
<1> QED
  BY <1>1, <1>2

\* An answer is on its way to every topic that waits: no retry is due.
LEMMA NoneLate ==
  ASSUME ~SlowAnswers, LinkStreams PROVE LateTopics = {}
<1>1. ASSUME NEW k \in InFlightTopics PROVE AnswerTravels(mgr.topics[k].inFlightSequence)
  <2>1. k \in DOMAIN mgr.topics /\ mgr.topics[k].inFlightSequence # 0
    BY DEF InFlightTopics
  <2>2. Awaits(mgr.topics[k], k, toRobot, toDesk, robot)
    BY <2>1 DEF LinkStreams, Streamed
  <2> QED
    BY <2>2 DEF Awaits, AnswerTravels
<1> QED
  BY <1>1 DEF LateTopics

\* The child takes a frame that no topic waits for.
LEMMA TakenAwaits ==
  ASSUME NEW t, NEW k, NEW p, NEW d \in Seq(DeskFrame), NEW rb, Awaits(t, k, p, d, rb), d # <<>>,
         Head(d).type = "SUBSCRIBE_RESULT" => Head(d).seq # t.inFlightSequence
  PROVE  Awaits(t, k, p, Tail(d), rb)
<1> DEFINE D == Tail(d)
<1>1. /\ \A i \in DOMAIN D : i + 1 \in DOMAIN d /\ D[i] = d[i + 1]
      /\ 1 \in DOMAIN d /\ Head(d) = d[1] /\ DOMAIN d = 1..Len(d) /\ Len(d) \in Nat
      /\ DOMAIN D = 1..(Len(d) - 1)
  BY TailIs
<1> HIDE DEF D
<1>2. ASSUME NEW i \in DOMAIN d, d[i].type = "SUBSCRIBE_RESULT", d[i].seq = t.inFlightSequence
      PROVE  \E j \in DOMAIN D : D[j].type = "SUBSCRIBE_RESULT" /\ D[j].seq = t.inFlightSequence
  <2>1. i # 1
    BY <1>1, <1>2
  <2>2. i - 1 \in DOMAIN D /\ (i - 1) + 1 = i
    BY <1>1, <2>1
  <2>3. D[i - 1] = d[i]
    BY <1>1, <2>2
  <2> QED
    BY <1>2, <2>2, <2>3
<1>3. Awaits(t, k, p, D, rb)
  BY <1>1, <1>2 DEF Awaits
<1> QED
  BY <1>3 DEF D

\* The object stays as it was.
LEMMA TakenStreamed ==
  ASSUME NEW m, NEW pb, NEW src, NEW p, NEW d \in Seq(DeskFrame), NEW rb,
         Streamed(m, TRUE, pb, src, p, d, rb), d # <<>>,
         \A k \in DOMAIN m.topics : Head(d).type = "SUBSCRIBE_RESULT" =>
           Head(d).seq # m.topics[k].inFlightSequence \/ m.topics[k].inFlightSequence = 0,
         NEW n, n.topics = m.topics
  PROVE  Streamed(n, TRUE, pb, src, p, Tail(d), rb)
<1>1. ASSUME NEW k \in DOMAIN n.topics, n.topics[k].inFlightSequence # 0
      PROVE  n.topics[k].targetBootId = src /\ Awaits(n.topics[k], k, p, Tail(d), rb)
  BY <1>1, TakenAwaits DEF Streamed
<1> QED
  BY <1>1 DEF Streamed, Accounted, RequestsAwaited, NeverUp

\* The child takes the answer to a request: the grant it learns of is the one the
\* robot serves, and a refusal was of a robot that serves nothing.
LEMMA AnswerStreamed ==
  ASSUME NEW m, NEW pb, NEW src \in Nat, NEW p \in Seq(UpFrame), NEW d \in Seq(DeskFrame),
         NEW rb, rb.boot \in Nat, src <= rb.boot, Streamed(m, TRUE, pb, src, p, d, rb),
         d # <<>>, Head(d).type = "SUBSCRIBE_RESULT", Head(d).seq # 0,
         NEW n, AnswerTaken(m, n, Head(d).seq, Head(d).status, Head(d).id)
  PROVE  Streamed(n, TRUE, pb, src, p, Tail(d), rb)
<1> DEFINE f == Head(d)
<1>1. 1 \in DOMAIN d /\ f = d[1] /\ f.type = "SUBSCRIBE_RESULT"
  BY TailIs
<1>2. /\ \A i \in DOMAIN p : i > 0
      /\ \A i \in DOMAIN p : p[i].type = "SUBSCRIBE" => p[i].boot \in Nat
  <2>1. \A b \in BootId : b \in Nat
    BY BootIdAssumption
  <2>2. ASSUME NEW x \in UpFrame, x.type = "SUBSCRIBE" PROVE x.boot \in BootId
    BY <2>2 DEF UpFrame, Frame, ManifestRequest
  <2> QED
    BY <2>1, <2>2
<1>3. ASSUME NEW k \in DOMAIN m.topics, m.topics[k].inFlightSequence = f.seq, src = rb.boot
      PROVE  /\ f.status = "SUCCESS" /\ NoRequest(p, 0, k)
             /\ k \in DOMAIN rb.subs => rb.subs[k].id = f.id
  <2>1. m.topics[k].targetBootId = src /\ Awaits(m.topics[k], k, p, d, rb)
    BY <1>3 DEF Streamed
  <2> QED
    BY <1>1, <1>3, <2>1 DEF Awaits
<1>4. \A k \in DOMAIN n.topics :
        /\ k \in DOMAIN m.topics
        /\ IF m.topics[k].inFlightSequence = f.seq
             THEN /\ n.topics[k].inFlightSequence = 0
                  /\ f.status = "SUCCESS" => n.topics[k].subscriptionId = f.id
             ELSE n.topics[k] = m.topics[k]
  BY DEF AnswerTaken
<1>5. DOMAIN n.topics = DOMAIN m.topics
  BY DEF AnswerTaken
<1> HIDE DEF f
<1>6. Accounted(n, p, rb)
  <2> SUFFICES ASSUME NEW k \in DOMAIN rb.subs
               PROVE  \/ /\ k \in DOMAIN n.topics
                         /\ \/ n.topics[k].inFlightSequence # 0
                            \/ n.topics[k].subscriptionId = rb.subs[k].id
                      \/ \E j \in DOMAIN p : /\ p[j].type = "UNSUBSCRIBE" /\ p[j].boot = rb.boot
                                             /\ p[j].id = rb.subs[k].id
    BY DEF Accounted
  <2>1. src = rb.boot
    BY DEF Streamed
  <2> QED
    BY <1>3, <1>4, <1>5, <2>1 DEF Streamed, Accounted
<1>7. RequestsAwaited(n, p, src, rb)
  <2> SUFFICES ASSUME NEW j \in DOMAIN p, p[j].type = "SUBSCRIBE"
               PROVE  /\ p[j].boot <= src
                      /\ p[j].boot = rb.boot =>
                           p[j].key \in DOMAIN n.topics /\ n.topics[p[j].key].inFlightSequence # 0
    BY DEF RequestsAwaited
  <2>1. /\ p[j].boot <= src
        /\ p[j].boot = rb.boot =>
             p[j].key \in DOMAIN m.topics /\ m.topics[p[j].key].inFlightSequence # 0
    BY DEF Streamed, RequestsAwaited
  <2>2. p[j].boot = rb.boot => src = rb.boot
    BY <2>1
  <2>3. ASSUME NEW k \in DOMAIN m.topics, src = rb.boot, p[j].key = k
        PROVE  m.topics[k].inFlightSequence # f.seq
    BY <1>2, <1>3, <2>3 DEF NoRequest
  <2> QED
    BY <1>4, <1>5, <2>1, <2>2, <2>3
<1>8. ASSUME NEW k \in DOMAIN n.topics, n.topics[k].inFlightSequence # 0
      PROVE  n.topics[k].targetBootId = src /\ Awaits(n.topics[k], k, p, Tail(d), rb)
  <2>1. /\ k \in DOMAIN m.topics /\ n.topics[k] = m.topics[k]
        /\ m.topics[k].inFlightSequence # f.seq
    BY <1>4, <1>8
  <2>2. m.topics[k].targetBootId = src /\ Awaits(m.topics[k], k, p, d, rb)
    BY <1>8, <2>1 DEF Streamed
  <2> QED
    BY <2>1, <2>2, TakenAwaits DEF f
<1> QED
  BY <1>6, <1>7, <1>8 DEF Streamed, NeverUp

\* A catalog of a later boot finds nothing streamed and nothing the robot will grant.
LEMMA CatalogStreamed ==
  ASSUME NEW m, NEW pb, NEW src \in Nat, NEW p \in Seq(UpFrame), NEW d, NEW rb,
         rb.boot \in Nat, Streamed(m, TRUE, pb, src, p, d, rb),
         NEW b \in Nat, src < b, b <= rb.boot,
         NEW n, \A k \in DOMAIN n.topics : n.topics[k].inFlightSequence = 0, NEW D
  PROVE  Streamed(n, TRUE, b, b, p, D, rb)
<1>1. DOMAIN rb.subs = {}
  BY DEF Streamed
<1>2. \A b1 \in BootId : b1 \in Nat
  BY BootIdAssumption
<1>3. ASSUME NEW x \in UpFrame, x.type = "SUBSCRIBE" PROVE x.boot \in Nat
  BY <1>2, <1>3 DEF UpFrame, Frame, ManifestRequest
<1>4. RequestsAwaited(n, p, b, rb)
  <2> SUFFICES ASSUME NEW j \in DOMAIN p, p[j].type = "SUBSCRIBE"
               PROVE  p[j].boot <= b /\ p[j].boot # rb.boot
    BY DEF RequestsAwaited
  <2>1. p[j].boot <= src /\ p[j].boot \in Nat
    BY <1>3 DEF Streamed, RequestsAwaited
  <2> QED
    BY <2>1
<1> QED
  BY <1>1, <1>4 DEF Streamed, Accounted, NeverUp

\* A request for the catalog is about no topic.
LEMMA AskedStreamed ==
  ASSUME NEW m, NEW up \in BOOLEAN, NEW pb, NEW src, NEW p \in Seq(UpFrame), NEW d, NEW rb,
         Streamed(m, up, pb, src, p, d, rb)
  PROVE  Streamed(m, TRUE, pb, src, p \o <<ManifestRequest>>, d, rb)
<1> DEFINE P == p \o <<ManifestRequest>>
<1>1. ManifestRequest.type = "MANIFEST_REQUEST" /\ <<ManifestRequest>> \in Seq(UpFrame)
  BY DEF ManifestRequest, UpFrame
<1>2. /\ \A j \in DOMAIN P : (j \in DOMAIN p /\ P[j] = p[j]) \/ P[j] = ManifestRequest
      /\ \A j \in DOMAIN p : j \in DOMAIN P /\ P[j] = p[j]
  <2>1. \A j \in DOMAIN <<ManifestRequest>> : <<ManifestRequest>>[j] = ManifestRequest
    OBVIOUS
  <2>2. /\ \A j \in DOMAIN P :
             \/ j \in DOMAIN p /\ P[j] = p[j]
             \/ \E i \in DOMAIN <<ManifestRequest>> :
                  j = Len(p) + i /\ P[j] = <<ManifestRequest>>[i]
        /\ \A j \in DOMAIN p : j \in DOMAIN P /\ P[j] = p[j]
    BY <1>1, SentIs
  <2> QED
    BY <2>1, <2>2
<1> HIDE DEF P
<1>3. \A i, k : NoRequest(p, i, k) => NoRequest(P, i, k)
  BY <1>1, <1>2 DEF NoRequest
<1>4. \A t, k : Awaits(t, k, p, d, rb) => Awaits(t, k, P, d, rb)
  <2> SUFFICES ASSUME NEW t, NEW k, Awaits(t, k, p, d, rb) PROVE Awaits(t, k, P, d, rb)
    OBVIOUS
  <2>1. ASSUME NEW i \in DOMAIN P, P[i].type = "SUBSCRIBE", P[i].seq = t.inFlightSequence
        PROVE  NoRequest(P, i, k)
    BY <1>1, <1>2, <1>3, <2>1 DEF Awaits
  <2> QED
    BY <1>2, <1>3, <2>1 DEF Awaits
<1>5. RequestsAwaited(m, P, src, rb)
  BY <1>1, <1>2 DEF Streamed, RequestsAwaited
<1>6. Accounted(m, P, rb)
  BY <1>2 DEF Streamed, Accounted
<1>7. Streamed(m, TRUE, pb, src, P, d, rb)
  BY <1>4, <1>5, <1>6 DEF Streamed, NeverUp
<1> QED
  BY <1>7 DEF P

\* A handler starts from an object that streams what is wanted, on a link that
\* stays up.
LEMMA TalkStreamed ==
  ASSUME TalkSetting, LinkInOrder, LinkStreams, ~LinkDown,
         NEW n, NEW p, NEW L, Talks(n, p, L)
  PROVE  Streamed(n, linkUp', child'.peerBootId, sourceBootId'[Robot], p, toDesk', robot')
<1> DEFINE src == sourceBootId[Robot]
           pb == child.peerBootId
<1>1. /\ toDesk \in Seq(DeskFrame) /\ toRobot \in Seq(UpFrame) /\ linkUp \in BOOLEAN
      /\ linkUp' \in BOOLEAN /\ Good(mgr) /\ src \in Nat /\ robot.boot \in Nat
      /\ Held(mgr, src) /\ Good(n)
  BY DEF TalkSetting, Setting, Talks, Spoke, Starts
<1>2. Streamed(mgr, linkUp, pb, src, toRobot, toDesk, robot) /\ pb = src
  BY DEF LinkStreams, Streamed
<1>3. robot' = robot
  BY DEF Talks, Spoke
<1>4. BootsRise(src, toDesk, robot.boot) /\ src <= robot.boot
  BY DEF LinkInOrder, InOrder, BootsRise
<1>5. \A k \in DOMAIN mgr.topics : k \in Key
  BY <1>1 DEF Good, ManagerOK
<1>6. toDesk # <<>> => linkUp = TRUE /\ 1 \in DOMAIN toDesk /\ Head(toDesk) = toDesk[1]
  BY <1>1, <1>2, TailIs DEF Streamed, NeverUp
<1>7. CASE OnItsOwn(n, p, L)
  BY <1>2, <1>3, <1>7 DEF OnItsOwn, SameLink, Streamed, Accounted, RequestsAwaited
<1>8. CASE Ignores(n, p, L)
  <2>1. /\ toDesk # <<>> /\ toDesk' = Tail(toDesk) /\ p = toRobot /\ n.topics = mgr.topics
        /\ linkUp' = linkUp /\ child'.peerBootId = pb /\ sourceBootId'[Robot] = src
    BY <1>8 DEF Ignores, Takes, SameLink
  <2>2. ASSUME NEW k \in DOMAIN mgr.topics, Head(toDesk).type = "SUBSCRIBE_RESULT",
               mgr.topics[k].inFlightSequence # 0
        PROVE  Head(toDesk).seq # mgr.topics[k].inFlightSequence
    <3>1. Head(toDesk).seq \notin DOMAIN mgr.pendingSubscribes
      BY <1>6, <1>8, <2>1, <2>2 DEF Ignores
    <3> QED
      BY <1>1, <2>2, <3>1 DEF Good, Correlated
  <2>3. Streamed(n, TRUE, pb, src, toRobot, Tail(toDesk), robot)
    BY <1>1, <1>2, <1>6, <2>1, <2>2, TakenStreamed
  <2> QED
    BY <1>3, <1>6, <2>1, <2>3
<1>9. CASE Learns(n, p, L)
  <2>1. /\ toDesk # <<>> /\ toDesk' = Tail(toDesk) /\ p = toRobot
        /\ linkUp' = linkUp /\ child'.peerBootId = pb /\ sourceBootId'[Robot] = src
    BY <1>9 DEF Learns, Takes, SameLink
  <2>2. Streamed(n, TRUE, pb, src, toRobot, Tail(toDesk), robot)
    BY <1>1, <1>2, <1>4, <1>6, <1>9, <2>1, AnswerStreamed DEF Learns
  <2> QED
    BY <1>3, <1>6, <2>1, <2>2
<1>10. CASE Discovers(n, p, L)
  <2> DEFINE b == Head(toDesk).boot
  <2>1. /\ toDesk # <<>> /\ toDesk' = Tail(toDesk) /\ p = toRobot
        /\ linkUp' = TRUE /\ child'.peerBootId = b /\ sourceBootId'[Robot] = b
        /\ Head(toDesk).type = "MANIFEST_DATA" /\ b # 0
        /\ IF pb # 0 /\ b # pb THEN Blank(n) ELSE n.topics = mgr.topics
    BY <1>6, <1>10 DEF Discovers, Takes
  <2>2. b \in src..robot.boot
    BY <1>4, <1>6, <2>1 DEF BootsRise
  <2> HIDE DEF b
  <2>3. CASE b = src
    <3>1. Streamed(n, TRUE, pb, src, toRobot, Tail(toDesk), robot)
      BY <1>1, <1>2, <1>6, <2>1, <2>3, TakenStreamed
    <3> QED
      BY <1>2, <1>3, <2>1, <2>3, <3>1
  <2>4. CASE b # src
    <3>1. src < b /\ b <= robot.boot /\ b \in Nat
      BY <1>1, <2>2, <2>4
    <3>2. \A k \in DOMAIN n.topics : n.topics[k].inFlightSequence = 0
      <4>1. CASE Blank(n)
        BY <4>1 DEF Blank
      <4>2. CASE src = 0 /\ n.topics = mgr.topics
        BY <1>1, <1>5, <4>2 DEF Held, Live
      <4> QED
        BY <1>2, <2>1, <2>4, <4>1, <4>2
    <3>3. Streamed(mgr, TRUE, pb, src, toRobot, toDesk, robot)
      BY <1>2, <1>6, <2>1
    <3>4. toRobot \in Seq(UpFrame) /\ src \in Nat /\ robot.boot \in Nat
      BY <1>1
    <3>5. Streamed(n, TRUE, b, b, toRobot, Tail(toDesk), robot)
      BY <3>1, <3>2, <3>3, <3>4, CatalogStreamed
    <3> QED
      BY <1>3, <2>1, <3>5
  <2> QED
    BY <2>3, <2>4
<1>11. CASE Connects(n, p, L)
  <2>1. /\ linkUp' = TRUE /\ child'.peerBootId = 0 /\ sourceBootId'[Robot] = src
        /\ toDesk' = toDesk /\ Blank(n) /\ p = toRobot \o <<ManifestRequest>> /\ ~linkUp
    BY <1>1, <1>11 DEF Connects
  <2>2. src = 0 /\ toRobot = <<>> /\ DOMAIN robot.subs = {}
    BY <1>2, <2>1 DEF Streamed, NeverUp
  <2>3. Streamed(n, linkUp, 0, src, toRobot, toDesk, robot)
    BY <1>2, <2>1, <2>2 DEF Streamed, NeverUp, Accounted, RequestsAwaited, Blank
  <2>4. Streamed(n, TRUE, 0, src, p, toDesk, robot)
    BY <1>1, <2>1, <2>3, AskedStreamed
  <2> QED
    BY <1>3, <2>1, <2>4
<1> QED
  BY <1>7, <1>8, <1>9, <1>10, <1>11 DEF Talks, Disconnects

\* The robot's answer to the frame at the head of its queue leaves its streams
\* wanted: it grants only what is awaited, and ends what is given up.
LEMMA ReplyStreamed ==
  ASSUME HCInv, LinkInOrder, LinkStreams, RobotReceives
  PROVE  LinkStreams'
<1> DEFINE src == sourceBootId[Robot]
           p == toRobot
           d == toDesk
           P == toRobot'
           D == toDesk'
           rb == robot
           RB == robot'
<1>1. PICK f, x : Replies(f, x)
  BY RobotReplies
<1>2. /\ p \in Seq(UpFrame) /\ d \in Seq(DeskFrame) /\ x \in DeskFrame
      /\ src \in Nat /\ rb.boot \in Nat /\ src <= rb.boot
  BY <1>1, SettingIs DEF Setting, LinkInOrder, InOrder, BootsRise, Replies
<1>3. /\ f = p[1] /\ 1 \in DOMAIN p /\ DOMAIN p = 1..Len(p) /\ DOMAIN P = 1..(Len(p) - 1)
      /\ Len(p) \in Nat /\ RB.boot = rb.boot /\ p # <<>>
      /\ \A i \in DOMAIN P : i + 1 \in DOMAIN p /\ P[i] = p[i + 1]
  BY <1>1, <1>2, TailIs DEF Replies
<1>4. /\ Len(d) \in Nat /\ DOMAIN d = 1..Len(d) /\ DOMAIN D = 1..(Len(d) + 1)
      /\ D[Len(d) + 1] = x /\ \A i \in DOMAIN d : i \in DOMAIN D /\ D[i] = d[i]
  BY <1>1, <1>2, AppendProperties DEF Replies
<1>5. /\ Accounted(mgr, p, rb) /\ RequestsAwaited(mgr, p, src, rb)
      /\ DOMAIN rb.subs # {} => src = rb.boot
      /\ \A k \in DOMAIN mgr.topics : mgr.topics[k].inFlightSequence # 0 =>
           mgr.topics[k].targetBootId = src /\ Awaits(mgr.topics[k], k, p, d, rb)
      /\ child.peerBootId = src /\ linkUp
  BY <1>3 DEF LinkStreams, Streamed, NeverUp
<1>6. UNCHANGED <<mgr, sourceBootId, linkUp, child>>
  BY <1>1 DEF Replies
<1>7. /\ f.type = "SUBSCRIBE" =>
           \A k \in DOMAIN mgr.topics : mgr.topics[k].inFlightSequence = f.seq =>
             f.key = k /\ f.boot = mgr.topics[k].targetBootId
      /\ f.type = "SUBSCRIBE" /\ f.boot = rb.boot =>
           /\ f.key \in DOMAIN mgr.topics /\ mgr.topics[f.key].inFlightSequence # 0
           /\ src = rb.boot
  BY <1>2, <1>3, <1>5 DEF LinkInOrder, InOrder, RequestMet, RequestsAwaited
<1>8. /\ Grants(f, x) => /\ DOMAIN RB.subs = DOMAIN rb.subs \cup {f.key}
                         /\ RB.subs[f.key].id = x.id
                         /\ \A k \in DOMAIN rb.subs : k # f.key => RB.subs[k] = rb.subs[k]
      /\ Ends(f, x) => /\ \A k \in DOMAIN RB.subs : k \in DOMAIN rb.subs /\ RB.subs[k] = rb.subs[k]
                       /\ \A k \in DOMAIN RB.subs : ~(f.boot = rb.boot /\ rb.subs[k].id = f.id)
      /\ Refuses(f, x) \/ Describes(f, x) => RB = rb
  <2>1. ASSUME Grants(f, x)
        PROVE  /\ DOMAIN RB.subs = DOMAIN rb.subs \cup {f.key}
               /\ RB.subs[f.key].id = x.id
               /\ \A k \in DOMAIN rb.subs : k # f.key => RB.subs[k] = rb.subs[k]
    <3>1. RB.subs = With(rb.subs, f.key, [id |-> x.id, rate |-> f.rate])
      BY <2>1 DEF Grants
    <3> QED
      BY <3>1 DEF With
  <2>2. ASSUME Ends(f, x)
        PROVE  /\ \A k \in DOMAIN RB.subs : k \in DOMAIN rb.subs /\ RB.subs[k] = rb.subs[k]
               /\ \A k \in DOMAIN RB.subs : ~(f.boot = rb.boot /\ rb.subs[k].id = f.id)
    <3> DEFINE gone == {k \in DOMAIN rb.subs : f.boot = rb.boot /\ rb.subs[k].id = f.id}
    <3>1. RB.subs = Without(rb.subs, gone)
      BY <2>2 DEF Ends
    <3>2. /\ DOMAIN RB.subs = DOMAIN rb.subs \ gone
          /\ \A k \in DOMAIN rb.subs \ gone : RB.subs[k] = rb.subs[k]
      BY <3>1 DEF Without, Restrict
    <3> QED
      BY <3>2
  <2> QED
    BY <2>1, <2>2 DEF Refuses, Describes
<1>9. Refuses(f, x) \/ Grants(f, x) \/ Ends(f, x) \/ Describes(f, x)
  BY <1>1 DEF Replies
<1> HIDE DEF src, p, d, P, D, rb, RB
<1>10. ASSUME NEW k, NEW i \in Nat, NEW l, NoRequest(p, l, k), l = 0 \/ l <= i + 1, l \in Nat
       PROVE  NoRequest(P, i, k)
  <2> SUFFICES ASSUME NEW j \in DOMAIN P, j > i
               PROVE  ~(P[j].type = "SUBSCRIBE" /\ P[j].key = k)
    BY DEF NoRequest
  <2>1. j + 1 \in DOMAIN p /\ P[j] = p[j + 1] /\ j + 1 > l
    BY <1>3, <1>10
  <2> QED
    BY <1>10, <2>1 DEF NoRequest
<1>11. DOMAIN RB.subs # {} => src = RB.boot
  BY <1>3, <1>5, <1>7, <1>8, <1>9 DEF Grants, rb
<1>12. RequestsAwaited(mgr, P, src, RB)
  BY <1>3, <1>5 DEF RequestsAwaited
<1>13. Accounted(mgr, P, RB)
  <2> SUFFICES ASSUME NEW k \in DOMAIN RB.subs,
                      ~(/\ k \in DOMAIN mgr.topics
                        /\ \/ mgr.topics[k].inFlightSequence # 0
                           \/ mgr.topics[k].subscriptionId = RB.subs[k].id)
               PROVE  \E j \in DOMAIN P : /\ P[j].type = "UNSUBSCRIBE" /\ P[j].boot = RB.boot
                                          /\ P[j].id = RB.subs[k].id
    BY DEF Accounted
  <2>1. k \in DOMAIN rb.subs /\ RB.subs[k] = rb.subs[k]
    <3>1. CASE Grants(f, x)
      <4>1. k # f.key
        BY <1>7, <3>1 DEF Grants, rb
      <4> QED
        BY <1>8, <3>1, <4>1
    <3> QED
      BY <1>8, <1>9, <3>1
  <2>2. PICK j \in DOMAIN p : /\ p[j].type = "UNSUBSCRIBE" /\ p[j].boot = rb.boot
                              /\ p[j].id = rb.subs[k].id
    BY <1>5, <2>1 DEF Accounted
  <2>3. j # 1
    BY <1>3, <1>8, <1>9, <2>2 DEF Refuses, Grants, Describes
  <2>4. j - 1 \in DOMAIN P /\ (j - 1) + 1 = j
    BY <1>3, <2>3
  <2>5. P[j - 1] = p[j]
    BY <1>3, <2>4
  <2> QED
    BY <1>3, <2>1, <2>2, <2>4, <2>5
<1>14. ASSUME NEW k \in DOMAIN mgr.topics, mgr.topics[k].inFlightSequence # 0
       PROVE  mgr.topics[k].targetBootId = src /\ Awaits(mgr.topics[k], k, P, D, RB)
  <2> DEFINE t == mgr.topics[k]
  <2>1. t.targetBootId = src /\ Awaits(t, k, p, d, rb)
    BY <1>5, <1>14
  <2>2. f.type = "SUBSCRIBE" /\ f.seq = t.inFlightSequence => f.key = k /\ f.boot = t.targetBootId
    BY <1>7
  <2>3. NoRequest(p, 0, k) \/ NoRequest(p, 1, k) => NoRequest(P, 0, k)
    BY <1>10
  <2> HIDE DEF t
  <2>4. \/ \E i \in DOMAIN P : P[i].type = "SUBSCRIBE" /\ P[i].seq = t.inFlightSequence
        \/ \E i \in DOMAIN D : D[i].type = "SUBSCRIBE_RESULT" /\ D[i].seq = t.inFlightSequence
    <3>1. CASE \E i \in DOMAIN d : d[i].type = "SUBSCRIBE_RESULT" /\ d[i].seq = t.inFlightSequence
      BY <1>4, <3>1
    <3>2. ASSUME NEW i \in DOMAIN p, p[i].type = "SUBSCRIBE", p[i].seq = t.inFlightSequence, i # 1
          PROVE  \E j \in DOMAIN P : P[j].type = "SUBSCRIBE" /\ P[j].seq = t.inFlightSequence
      <4>1. i - 1 \in DOMAIN P /\ (i - 1) + 1 = i
        BY <1>3, <3>2
      <4>2. P[i - 1] = p[i]
        BY <1>3, <4>1
      <4> QED
        BY <3>2, <4>1, <4>2
    <3>3. CASE p[1].type = "SUBSCRIBE" /\ p[1].seq = t.inFlightSequence
      <4>1. x.type = "SUBSCRIBE_RESULT" /\ x.seq = t.inFlightSequence
        BY <1>3, <1>9, <3>3 DEF Refuses, Grants, Ends, Describes
      <4>2. Len(d) + 1 \in DOMAIN D /\ D[Len(d) + 1] = x
        BY <1>4
      <4> QED
        BY <4>1, <4>2
    <3> QED
      BY <2>1, <3>1, <3>2, <3>3 DEF Awaits
  <2>5. ASSUME NEW i \in DOMAIN P, P[i].type = "SUBSCRIBE", P[i].seq = t.inFlightSequence
        PROVE  NoRequest(P, i, k)
    <3>1. i + 1 \in DOMAIN p /\ P[i] = p[i + 1] /\ i \in Nat
      BY <1>3
    <3>2. NoRequest(p, i + 1, k)
      BY <2>1, <2>5, <3>1 DEF Awaits
    <3> QED
      BY <1>10, <3>1, <3>2
  <2>6. ASSUME NEW j \in DOMAIN D, D[j].type = "SUBSCRIBE_RESULT", D[j].seq = t.inFlightSequence
        PROVE  IF D[j].status = "SUCCESS"
                 THEN t.targetBootId = RB.boot =>
                        NoRequest(P, 0, k) /\ (k \in DOMAIN RB.subs => RB.subs[k].id = D[j].id)
                 ELSE t.targetBootId < RB.boot
    <3>1. CASE j \in DOMAIN d
      <4>1. D[j] = d[j]
        BY <1>4, <3>1
      <4>2. IF d[j].status = "SUCCESS"
              THEN t.targetBootId = rb.boot =>
                     NoRequest(p, 0, k) /\ (k \in DOMAIN rb.subs => rb.subs[k].id = d[j].id)
              ELSE t.targetBootId < rb.boot
        BY <2>1, <2>6, <3>1, <4>1 DEF Awaits
      <4>3. ASSUME NoRequest(p, 0, k), k \in DOMAIN RB.subs
            PROVE  k \in DOMAIN rb.subs /\ RB.subs[k] = rb.subs[k]
        <5>1. Grants(f, x) => k # f.key
          BY <1>3, <4>3 DEF NoRequest, Grants
        <5> QED
          BY <1>8, <1>9, <4>3, <5>1
      <4> QED
        BY <1>3, <2>3, <4>1, <4>2, <4>3
    <3>2. CASE j = Len(d) + 1
      <4>1. D[j] = x
        BY <1>4, <3>2
      <4>2. /\ f.type = "SUBSCRIBE" /\ f.seq = t.inFlightSequence
            /\ Refuses(f, x) \/ Grants(f, x)
        BY <1>9, <2>6, <4>1 DEF Refuses, Grants, Ends, Describes
      <4>3. f.key = k /\ f.boot = t.targetBootId /\ NoRequest(p, 1, k)
        BY <1>3, <2>1, <2>2, <4>2 DEF Awaits
      <4>4. Refuses(f, x) => x.status # "SUCCESS" /\ t.targetBootId < rb.boot
        BY <1>2, <2>1, <4>3 DEF Refuses, rb, src
      <4>5. Grants(f, x) => x.status = "SUCCESS" /\ RB.subs[k].id = x.id
        BY <1>8, <4>3 DEF Grants
      <4> QED
        BY <1>3, <2>3, <4>1, <4>2, <4>3, <4>4, <4>5
    <3> QED
      BY <1>4, <3>1, <3>2
  <2>7. Awaits(t, k, P, D, RB)
    BY <2>4, <2>5, <2>6 DEF Awaits
  <2> QED
    BY <2>1, <2>7 DEF t
<1>15. Streamed(mgr, linkUp, child.peerBootId, src, P, D, RB)
  BY <1>5, <1>11, <1>12, <1>13, <1>14 DEF Streamed, NeverUp
<1> QED
  BY <1>6, <1>15 DEF LinkStreams, src, P, D, RB

\* A restart ends every stream and makes every request under way one of an earlier
\* boot; a lapse ends one.
LEMMA FailureStreamed ==
  ASSUME HCInv, LinkInOrder, LinkStreams, RobotReboots \/ GrantLapses
  PROVE  LinkStreams'
<1> DEFINE src == sourceBootId[Robot]
<1>1. UNCHANGED <<mgr, sourceBootId, linkUp, child, toRobot, toDesk>>
  BY DEF RobotReboots, GrantLapses, vars
<1>2. /\ robot.boot \in Nat /\ src \in Nat /\ src <= robot.boot /\ RobotOK(robot)
      /\ Streamed(mgr, linkUp, child.peerBootId, src, toRobot, toDesk, robot)
  BY SettingIs DEF Setting, HCInv, LinkTyped, LinkInOrder, InOrder, BootsRise, LinkStreams
<1>3. \A j \in DOMAIN toRobot : toRobot[j].type = "SUBSCRIBE" => toRobot[j].boot \in Nat
  <2>1. \A b \in BootId : b \in Nat
    BY BootIdAssumption
  <2>2. ASSUME NEW x \in UpFrame, x.type = "SUBSCRIBE" PROVE x.boot \in BootId
    BY <2>2 DEF UpFrame, Frame, ManifestRequest
  <2> QED
    BY <2>1, <2>2 DEF HCInv, LinkTyped
<1>4. CASE RobotReboots
  <2>1. robot'.boot = robot.boot + 1 /\ DOMAIN robot'.subs = {}
    BY <1>4 DEF RobotReboots
  <2>2. RequestsAwaited(mgr, toRobot, src, robot')
    <3> SUFFICES ASSUME NEW j \in DOMAIN toRobot, toRobot[j].type = "SUBSCRIBE"
                 PROVE  toRobot[j].boot <= src /\ toRobot[j].boot # robot'.boot
      BY DEF RequestsAwaited
    <3>1. toRobot[j].boot <= src
      BY <1>2 DEF Streamed, RequestsAwaited
    <3> QED
      BY <1>2, <1>3, <2>1, <3>1
  <2>3. ASSUME NEW k \in DOMAIN mgr.topics, mgr.topics[k].inFlightSequence # 0
        PROVE  /\ mgr.topics[k].targetBootId = src
               /\ Awaits(mgr.topics[k], k, toRobot, toDesk, robot')
    <3>1. /\ mgr.topics[k].targetBootId = src
          /\ Awaits(mgr.topics[k], k, toRobot, toDesk, robot)
      BY <1>2, <2>3 DEF Streamed
    <3>2. src # robot'.boot /\ src < robot'.boot
      BY <1>2, <2>1
    <3> HIDE DEF src
    <3> QED
      BY <3>1, <3>2 DEF Awaits
  <2> QED
    BY <1>1, <1>2, <2>1, <2>2, <2>3 DEF LinkStreams, Streamed, Accounted, NeverUp
<1>5. CASE GrantLapses
  <2>1. PICK gone \in DOMAIN robot.subs :
          robot' = [robot EXCEPT !.subs = Without(robot.subs, {gone})]
    BY <1>5 DEF GrantLapses
  <2>2. robot'.boot = robot.boot /\ robot'.subs = Without(robot.subs, {gone})
    BY <1>2, <2>1 DEF RobotOK
  <2>3. \A k \in DOMAIN robot'.subs : k \in DOMAIN robot.subs /\ robot'.subs[k] = robot.subs[k]
    BY <2>2 DEF Without, Restrict
  <2>4. Accounted(mgr, toRobot, robot') /\ RequestsAwaited(mgr, toRobot, src, robot')
    <3>1. Accounted(mgr, toRobot, robot) /\ RequestsAwaited(mgr, toRobot, src, robot)
      BY <1>2 DEF Streamed
    <3> HIDE DEF src
    <3>2. Accounted(mgr, toRobot, robot')
      BY <2>2, <2>3, <3>1 DEF Accounted
    <3>3. robot'.boot = robot.boot
      BY <2>2
    <3>4. RequestsAwaited(mgr, toRobot, src, robot')
      BY <3>1, <3>3 DEF RequestsAwaited
    <3> QED
      BY <3>2, <3>4
  <2>5. \A t, k : Awaits(t, k, toRobot, toDesk, robot) => Awaits(t, k, toRobot, toDesk, robot')
    BY <2>2, <2>3 DEF Awaits
  <2> QED
    BY <1>1, <1>2, <2>1, <2>2, <2>3, <2>4, <2>5 DEF LinkStreams, Streamed, NeverUp
<1> QED
  BY <1>4, <1>5

\* Only LinkDown drops the link.
LEMMA DropCounts ==
  ASSUME HCInv, HCNext, spent'.drop = 0
  PROVE  spent.drop = 0 /\ ~LinkDown
<1>1. spent \in Spent
  BY DEF HCInv, LinkTyped
<1>2. ~LinkDown
  BY <1>1 DEF LinkDown, Spent
<1>3. CASE spent' = spent
  BY <1>2, <1>3
<1>4. CASE GrantLapses \/ LeaseTimer \/ Lose
  BY <1>1, <1>2, <1>4 DEF GrantLapses, LeaseTimer, Lose, Spent
<1>5. CASE \E online \in BOOLEAN, boot \in {0, robot.boot} : PeerPresence(online, boot)
  BY <1>1, <1>2, <1>5 DEF PeerPresence, Spent
<1> QED
  BY <1>2, <1>3, <1>4, <1>5 DEF HCNext, UserAdds, UserRemoves, LinkUp, CatalogRetry,
     DeskReceives, RobotReceives, RobotReboots

\* What is streamed stays wanted until a frame is lost or the link drops.
LEMMA StepStreamInv == StreamInv /\ [HCNext]_allVars => StreamInv'
<1> SUFFICES ASSUME StreamInv, [HCNext]_allVars PROVE StreamInv'
  OBVIOUS
<1>1. OrderInv /\ OrderInv' /\ HCInv /\ HCInv'
  BY StepOrderInv DEF StreamInv, OrderInv
<1>2. TalkSetting
  <2>1. HCInv' => Setting'
    BY SettingIs, PTL
  <2> QED
    BY <1>1, <2>1, SettingIs DEF OrderInv, TalkSetting
<1>3. CASE UNCHANGED allVars
  BY <1>1, <1>3 DEF allVars, vars, envVars, StreamInv, LinkStreams
<1>4. CASE HCNext
  <2> SUFFICES ASSUME ~SlowAnswers, spent'.loss = 0, spent'.drop = 0 PROVE LinkStreams'
    BY <1>1 DEF StreamInv
  <2>1. /\ spent.loss = 0 /\ spent.drop = 0 /\ ~Lose /\ ~LinkDown
        /\ LinkInOrder /\ LinkInOrder' /\ LinkStreams
    BY <1>1, <1>4, LossCounts, DropCounts DEF OrderInv, StreamInv
  <2>2. CASE RobotReceives
    BY <1>1, <2>1, <2>2, ReplyStreamed
  <2>3. CASE RobotReboots \/ GrantLapses
    BY <1>1, <2>1, <2>3, FailureStreamed
  <2>4. CASE AsksCatalog
    <3>1. Streamed(mgr, TRUE, child.peerBootId, sourceBootId[Robot],
                   toRobot \o <<ManifestRequest>>, toDesk, robot)
      BY <1>2, <2>1, AskedStreamed DEF TalkSetting, Setting, LinkStreams
    <3>2. linkUp = TRUE /\ linkUp' = TRUE
      BY <1>2, <2>4 DEF AsksCatalog, SameLink, TalkSetting, Setting
    <3> QED
      BY <2>1, <2>4, <3>1, <3>2 DEF AsksCatalog, SameLink, LinkStreams
  <2>5. ASSUME NEW n, NEW p, NEW L, Talks(n, p, L) PROVE LinkStreams'
    <3> DEFINE src == sourceBootId'[Robot]
    <3>1. Streamed(n, linkUp', child'.peerBootId, src, p, toDesk', robot')
      BY <1>2, <2>1, <2>5, TalkStreamed
    <3>2. InOrder(n, linkUp', child'.peerBootId, src, p, toDesk', robot'.boot, granted')
      BY <1>2, <2>1, <2>5, TalkInOrder
    <3>3. InOrder(mgr', linkUp', child'.peerBootId, src, toRobot', toDesk',
                  robot'.boot, granted')
      BY <2>1 DEF LinkInOrder
    <3>4. /\ Good(n) /\ Acted(src, n, mgr', L) /\ p \in Seq(UpFrame)
          /\ linkUp' => toRobot' = p \o mgr'.out
          /\ ~linkUp' => toRobot' = p
      BY <2>5 DEF Talks, Spoke, Starts
    <3>5. L = {}
      BY <2>1, <2>5, NoneLate DEF Talks, OnItsOwn, Ignores, Learns, Discovers, Connects,
         Disconnects, Takes
    <3>6. /\ Good(mgr') /\ linkUp' \in BOOLEAN /\ src \in Nat /\ RobotOK(robot')
          /\ Held(mgr', src)
      BY <1>1, <1>2 DEF TalkSetting, Setting, OrderInv, HCInv, LinkTyped
    <3>7. Streamed(mgr', linkUp', child'.peerBootId, src, toRobot', toDesk', robot')
      BY <3>1, <3>2, <3>3, <3>4, <3>5, <3>6, SentStreamed
    <3> QED
      BY <3>7 DEF LinkStreams
  <2> QED
    BY <1>1, <1>2, <1>4, <2>1, <2>2, <2>3, <2>4, <2>5, DesktopTalks
<1> QED
  BY <1>3, <1>4

\* Nothing is streamed on an empty link.
LEMMA InitStreamInv == HCInit => StreamInv
<1> SUFFICES ASSUME HCInit PROVE StreamInv
  OBVIOUS
<1>1. /\ linkUp = FALSE /\ robot = [boot |-> 1, subs |-> <<>>] /\ toRobot = <<>> /\ toDesk = <<>>
      /\ mgr.topics = <<>> /\ sourceBootId[Robot] = 0
      /\ child = [catalogReceived |-> FALSE, peerBootId |-> 0, peerOnline |-> TRUE]
  BY RobotAssumption DEF HCInit, Init
<1>2. /\ DOMAIN robot.subs = {} /\ DOMAIN toRobot = {} /\ DOMAIN mgr.topics = {}
      /\ child.peerBootId = 0
  BY <1>1
<1>3. LinkStreams
  BY <1>1, <1>2 DEF LinkStreams, Streamed, Accounted, RequestsAwaited, NeverUp
<1> QED
  BY <1>3, InitOrderInv DEF StreamInv

\* On a link that loses no frame and stays up, with answers that come before the
\* retry, once the link has gone quiet every topic the robot streams has a consumer:
\* however often consumers come and go while their requests are under way, the robot
\* restarts or forgets a grant, and hub.peers reports the peer gone and back.
THEOREM StreamIsWantedHolds ==
  HCSpec => [](~SlowAnswers /\ spent.loss = 0 /\ spent.drop = 0 => StreamIsWanted)
<1>1. ASSUME OrderInv, LinkStreams, Quiet, NEW k \in DOMAIN robot.subs
      PROVE  ConsumersOf(mgr, k) # {}
  <2>1. DOMAIN toRobot = {} /\ InFlightTopics = {}
    BY <1>1 DEF Quiet
  <2>2. k \in DOMAIN mgr.topics /\ mgr.topics[k].subscriptionId = robot.subs[k].id
    BY <1>1, <2>1 DEF LinkStreams, Streamed, Accounted, InFlightTopics
  <2>3. robot.subs[k].id # 0
    <3>1. robot.subs[k].id \in SubscriptionId
      BY <1>1 DEF OrderInv, HCInv, LinkTyped, RobotOK
    <3> QED
      BY <3>1, SubscriptionIdAssumption
  <2> QED
    BY <1>1, <2>2, <2>3 DEF OrderInv, HCInv, DemandInv, IInv, CountedExcept
<1>2. StreamInv => (~SlowAnswers /\ spent.loss = 0 /\ spent.drop = 0 => StreamIsWanted)
  BY <1>1 DEF StreamInv, StreamIsWanted
<1> QED
  BY <1>2, InitStreamInv, StepStreamInv, PTL DEF HCSpec
=============================================================================
