------------------------------ MODULE DeviceLinks ------------------------------
(***************************************************************************)
(* A device that can be reached in several ways (Device::extraLinks): the  *)
(* DeviceLinkCycler of lib/devices/device.h and the part of                *)
(* lib/core/mainwindow.cpp that probes the links not in use, rotates       *)
(* through the hub channels and rebuilds the device's connection when the  *)
(* link it switches to has another transport.                              *)
(*                                                                         *)
(* The device's own connection dials the link in use. While it is wanted   *)
(* and not live, every other direct link is dialed by a throwaway probe;   *)
(* the first probe that is ready posts an event, and its handler switches  *)
(* the device to that link. What a DeviceConnection does on one link is    *)
(* DeviceConnection's subject and HubChildren's, and is reduced here to    *)
(* the phases the link cycle can tell apart.                               *)
(***************************************************************************)
EXTENDS Naturals, Sequences, FiniteSets

CONSTANTS
  Links,      \* how many links the device has; link 0 is the primary one
  Transport,  \* Transport[i]: transportType of link i
  Attempt,    \* kAttemptMs, in ticks of a second
  Failed,     \* kFailedAttemptMs, in ticks
  MaxEdit,    \* bound: the user's edits and toggles
  MaxFault    \* bound: changes of what can be reached

Link == 0 .. Links - 1

ASSUME LinksAssumption == Links \in Nat \ {0} /\ Transport \in [Link -> {"Serial", "Tcp", "Ble", "HubChannel"}]
ASSUME WindowAssumption == Failed \in Nat /\ Attempt \in Nat /\ 0 < Failed /\ Failed <= Attempt
ASSUME BoundAssumption == MaxEdit \in Nat /\ MaxFault \in Nat

VARIABLES
  reach,   \* reach[i]: what is at the other end of link i
  active,  \* Device::activeLink, in the devices grid
  own,     \* the connection m_deviceConnections holds for the device
  strays,  \* links dialed by other connections wired to the device, for good
  probe,   \* probe[i]: the probe on link i
  posted,  \* onLinkProbeReady calls in the event queue
  cycler,  \* its DeviceLinkCycler
  spent    \* how much of each bound is used up

vars == <<reach, active, own, strays, probe, posted, cycler, spent>>

\* Links that need a connection of their own, as opposed to their hub's.
Direct == {i \in Link : Transport[i] # "HubChannel"}

\* "mute": the transport opens and no robot answers over it.
Reach == {"nothing", "mute", "robot"}

\* "up": connected, the session (or the robot behind the hub) still missing.
Phase == {"off", "down", "dialing", "up", "live"}

\* "lost": it was ready, its link is gone and it dials again.
Probe == {"none", "dialing", "ready", "lost"}

Wanted == own.phase # "off"
Live == own.phase = "live"

\* m_reportedConnected, and Device::connected with it.
Reported == own.phase \in {"up", "live"}

-----------------------------------------------------------------------------
(* DeviceLinkCycler. *)

Restarted(i) == [active |-> i, age |-> 0, failed |-> FALSE]

\* Links the device's own connection may rotate to: no probe covers them.
Rotatable(i) == i = active \/ i \notin Direct

\* Mistake: the hub channels are left to probes as well.
NextRotatableDirect == active

\* The next rotatable link after the one in use, wrapping around.
NextRotatable ==
  LET at(step) == (cycler.active + step) % Links
  IN at(CHOOSE s \in 1 .. Links :
          Rotatable(at(s)) /\ \A t \in 1 .. s - 1 : ~Rotatable(at(t)))

Window == IF cycler.failed THEN Failed ELSE Attempt

\* Mistake: a tick too late.
DueTooLate == Wanted /\ ~Live /\ cycler.age + 1 > Window

\* tick(): the link in use has had its time and has not come up.
Due == Wanted /\ ~Live /\ cycler.age + 1 >= Window

-----------------------------------------------------------------------------
(* MainWindow. *)

NoProbes == [i \in Link |-> "none"]

Dialing(i) == [transport |-> Transport[i], phase |-> "dialing"]

\* rebuildDeviceConnection() closes the old connection first. One that was
\* connected reports the loss from inside that call, and the listener,
\* onDeviceUpdated(), still finds the old connection of the wrong transport:
\* it rebuilds and dials as well, and what it built is then overwritten.
Rebuild(i) ==
  /\ own' = Dialing(i)
  /\ strays' = IF Reported THEN strays \cup {i} ELSE strays

\* Point the device's connection at link i: applyDeviceTarget() on a
\* connection of the right transport, closed before if it was open.
Use(i) ==
  IF own.transport # Transport[i] THEN Rebuild(i)
  ELSE own' = Dialing(i) /\ UNCHANGED strays

\* Mistake: the probes live on until the next tick.
SwitchDeviceLinkKeepingProbes(i) ==
  /\ active' = i
  /\ probe' = probe
  /\ Use(i)

\* switchDeviceLink()
SwitchDeviceLink(i) ==
  /\ active' = i
  /\ probe' = NoProbes
  /\ Use(i)

\* updateLinkProbes(): every direct link but the one in use is dialed while
\* the device is wanted and not live.
UpdateLinkProbes ==
  probe' = [i \in Link |->
              IF ~Wanted \/ Live \/ i = active \/ i \notin Direct THEN "none"
              ELSE IF probe[i] = "none" THEN "dialing" ELSE probe[i]]

\* A link that works comes up before its window is over: what kAttemptMs and
\* kFailedAttemptMs are chosen for.
WorksInTime == Due => ~(reach[active] = "robot" /\ own.phase \in {"dialing", "up"})

\* A posted event waits for the next turn of the event loop, which serves all
\* of the queue before its timers: one tick at most comes before it.
Late(events) == [k \in DOMAIN events |-> [events[k] EXCEPT !.late = TRUE]]

Overtaken == \E k \in DOMAIN posted : posted[k].late

\* tickDeviceLinkCycles(), once a second: the probes first, then the cycle. A
\* switch drops the probes just made.
Tick ==
  /\ ~Overtaken
  /\ WorksInTime
  /\ posted' = Late(posted)
  /\ IF Due
       THEN /\ cycler' = Restarted(NextRotatable)
            /\ IF NextRotatable = cycler.active
                 THEN UpdateLinkProbes /\ UNCHANGED <<active, own, strays>>
                 ELSE SwitchDeviceLink(NextRotatable)
       ELSE /\ cycler' = IF ~Wanted \/ Live THEN Restarted(cycler.active)
                         ELSE [cycler EXCEPT !.age = @ + 1]
            /\ UpdateLinkProbes
            /\ UNCHANGED <<active, own, strays>>
  /\ UNCHANGED <<reach, spent>>

\* Mistake: the handler trusts the event.
ProbeReadyTrusted ==
  /\ posted # <<>>
  /\ LET i == Head(posted).link IN SwitchDeviceLink(i) /\ cycler' = Restarted(i)
  /\ posted' = Late(Tail(posted))
  /\ UNCHANGED <<reach, spent>>

\* onLinkProbeReady(): nothing if the probe has been dropped meanwhile, or
\* else the device's own connection dials the link of the winner.
ProbeReady ==
  /\ posted # <<>>
  /\ LET i == Head(posted).link
     IN IF probe[i] = "none" THEN UNCHANGED <<active, own, strays, probe, cycler>>
        ELSE SwitchDeviceLink(i) /\ cycler' = Restarted(i)
  /\ posted' = Late(Tail(posted))
  /\ UNCHANGED <<reach, spent>>

-----------------------------------------------------------------------------
(* The user, whose clicks come while no probe's event is in the queue: it is
   there for less than a turn of the event loop. *)

User ==
  /\ posted = <<>>
  /\ spent.edit < MaxEdit
  /\ spent' = [spent EXCEPT !.edit = @ + 1]
  /\ UNCHANGED <<reach, posted>>

\* onDeviceUpdated() with another signature: back to the primary link.
EditLinks ==
  /\ User
  /\ active' = 0
  /\ probe' = NoProbes
  /\ cycler' = Restarted(0)
  /\ Use(0)

\* onDeviceConnectToggleRequested() of a device that is wanted. One that was
\* connected is dialed again by the listener of its own disconnect.
ToggleOff ==
  /\ User
  /\ Wanted
  /\ probe' = NoProbes
  /\ own' = [own EXCEPT !.phase = IF Reported THEN "dialing" ELSE "off"]
  /\ UNCHANGED <<active, strays, cycler>>

ToggleOn ==
  /\ User
  /\ ~Wanted
  /\ cycler' = Restarted(0)
  /\ IF active # 0 THEN SwitchDeviceLink(0)
     ELSE Use(0) /\ UNCHANGED <<active, probe>>

-----------------------------------------------------------------------------
(* The connections and the world. *)

OwnPhase(p) ==
  /\ own' = [own EXCEPT !.phase = p]
  /\ UNCHANGED <<reach, active, strays, probe, posted, spent>>

\* The transport opens.
OwnUp == own.phase = "dialing" /\ reach[active] # "nothing" /\ OwnPhase("up") /\ UNCHANGED cycler

\* HELLO_RESULT, or the robot's own frames through the hub.
OwnLive == own.phase = "up" /\ reach[active] = "robot" /\ OwnPhase("live") /\ UNCHANGED cycler

\* errorOccurred while not connected. A hub channel dials nothing.
OwnFails ==
  /\ own.phase = "dialing"
  /\ active \in Direct
  /\ reach[active] = "nothing"
  /\ OwnPhase("down")
  /\ cycler' = [cycler EXCEPT !.failed = TRUE]

\* The retry timer of the connection.
OwnRetries == own.phase = "down" /\ OwnPhase("dialing") /\ UNCHANGED cycler

\* The link is lost, and perhaps complained about: the listener dials again.
OwnLost ==
  /\ Reported
  /\ reach[active] = "nothing"
  /\ OwnPhase("dialing")
  /\ \E failed \in BOOLEAN : cycler' = [cycler EXCEPT !.failed = @ \/ failed]

\* The robot falls silent: a direct session dies and its link is recycled, a
\* hub child is merely without its robot.
OwnSilent ==
  /\ reach[active] = "mute"
  /\ IF active \in Direct THEN Reported /\ OwnPhase("dialing") ELSE Live /\ OwnPhase("up")
  /\ UNCHANGED cycler

\* A probe's connectionPhaseChanged(Ready) posts the call.
ProbeUp(i) ==
  /\ probe[i] \in {"dialing", "lost"}
  /\ reach[i] = "robot"
  /\ probe' = [probe EXCEPT ![i] = "ready"]
  /\ posted' = Append(posted, [link |-> i, late |-> FALSE])
  /\ UNCHANGED <<reach, active, own, strays, cycler, spent>>

ProbeLost(i) ==
  /\ probe[i] = "ready"
  /\ reach[i] # "robot"
  /\ probe' = [probe EXCEPT ![i] = "lost"]
  /\ UNCHANGED <<reach, active, own, strays, posted, cycler, spent>>

ReachChanges(i, r) ==
  /\ spent.fault < MaxFault
  /\ spent' = [spent EXCEPT !.fault = @ + 1]
  /\ reach[i] # r
  /\ reach' = [reach EXCEPT ![i] = r]
  /\ UNCHANGED <<active, own, strays, probe, posted, cycler>>

Init ==
  /\ reach \in [Link -> Reach]
  /\ active = 0
  /\ own = Dialing(0)
  /\ strays = {}
  /\ probe = NoProbes
  /\ posted = <<>>
  /\ cycler = Restarted(0)
  /\ spent = [edit |-> 0, fault |-> 0]

Next ==
  \/ Tick \/ ProbeReady
  \/ EditLinks \/ ToggleOff \/ ToggleOn
  \/ OwnUp \/ OwnLive \/ OwnFails \/ OwnRetries \/ OwnLost \/ OwnSilent
  \/ \E i \in Link : ProbeUp(i) \/ ProbeLost(i) \/ \E r \in Reach : ReachChanges(i, r)

Spec == Init /\ [][Next]_vars

\* Timers run and the event queue is served; a dial, a lost link and an answer
\* are reported.
Fairness ==
  /\ WF_vars(Tick) /\ WF_vars(ProbeReady)
  /\ WF_vars(OwnUp) /\ WF_vars(OwnLive) /\ WF_vars(OwnFails) /\ WF_vars(OwnRetries)
  /\ WF_vars(OwnLost) /\ WF_vars(OwnSilent)
  /\ \A i \in Link : WF_vars(ProbeUp(i)) /\ WF_vars(ProbeLost(i))

FairSpec == Spec /\ Fairness

-----------------------------------------------------------------------------
(* Properties. *)

TypeOK ==
  /\ reach \in [Link -> Reach]
  /\ active \in Link
  /\ own \in [transport : {Transport[i] : i \in Link}, phase : Phase]
  /\ strays \subseteq Link
  /\ probe \in [Link -> Probe]
  /\ posted \in Seq([link : Direct, late : BOOLEAN])
  /\ cycler \in [active : Link, age : 0 .. Attempt - 1, failed : BOOLEAN]
  /\ spent \in [edit : 0 .. MaxEdit, fault : 0 .. MaxFault]

\* The grid, the cycler and the connection speak of one and the same link in
\* use, and no probe holds its port or its robot: one dial per link, through
\* switches ordered by the cycle, by a probe, by an edit and by a toggle.
OneLinkInUse ==
  /\ cycler.active = active
  /\ own.transport = Transport[active]
  /\ probe[active] = "none"

\* The device moves by itself to a hub channel only from a link that is not
\* live, and to a direct link only after the probe that is there now has been
\* ready, however long the event was in the queue.
MovesWithReason ==
  [][active' # active /\ spent' = spent =>
       IF active' \in Direct THEN probe[active'] \in {"ready", "lost"} ELSE ~Live]_vars

\* Once the world stays as it is, a device that is wanted is live if any of
\* its links has the robot at its end. (Not followed further once a stray
\* connection exists: see OneConnectionPerDevice.)
FindsTheWay ==
  <>[](strays # {} \/ (Wanted /\ (\E i \in Link : reach[i] = "robot") => Live))

\* "one DeviceConnection per Device::id" (mainwindow.h:391).
OneConnectionPerDevice == strays = {}
================================================================================
