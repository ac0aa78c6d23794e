--------------------------- MODULE DeviceConnection ---------------------------
(***************************************************************************)
(* One device's connection (lib/core/deviceconnection.cpp): the user's     *)
(* intent, the transport it drives, the state it has told the application  *)
(* and the phase it shows, kept together by a retry timer.                 *)
(*                                                                         *)
(* Everything runs in one thread, but every Qt signal is a call: emitting  *)
(* connectionStateChanged(false) runs MainWindow::onDeviceUpdated(), which *)
(* calls connectTo*() on this very connection before the emit returns, and *)
(* a serial open() reports its success from inside open(). The handlers    *)
(* below are therefore operators from a state to a state, composed in the  *)
(* order of the calls, and every step of the specification is one whole    *)
(* event with all the calls nested in it.                                  *)
(*                                                                         *)
(* kind is the transport: serialmanager.cpp, usbhidmanager.cpp,         *)
(* tcptransport.cpp or bletransport.cpp. They differ in when open()        *)
(* answers and in when a close is reported:                                *)
(*   Serial   open() and close() report before they return;                *)
(*   UsbHid   open() reports before it returns, a close is reported by the *)
(*            reader thread through the event queue (field posted);        *)
(*   Tcp      open() starts a dial and refuses while one is under way;     *)
(*   Ble      open() starts a dial and abandons the one under way.         *)
(***************************************************************************)
EXTENDS Naturals, Sequences

CONSTANTS
  Kinds,       \* the transports a connection may have
  Wired,       \* TRUE: MainWindow listens (a device); FALSE: a link probe
  Target,      \* the ports, paths or hosts a device may be configured with
  NoTarget,    \* not configured
  Warned,      \* serial targets at 1200 baud, which open() complains about
  Named,       \* TCP and BLE targets given by a name to look up
  PortState,   \* what an open() may meet: "opens", "fails" or "silent"
  Uses,        \* which commands the instance uses: "off", "suspend", "prefs", "dialog"
  MaxCommand,  \* bound: user commands
  MaxFault     \* bound: faults of the port, the link and the session

ASSUME KindAssumption == Kinds \subseteq {"Serial", "UsbHid", "Tcp", "Ble"}
ASSUME WiredAssumption == Wired \in BOOLEAN
ASSUME TargetAssumption == NoTarget \notin Target /\ Warned \subseteq Target /\ Named \subseteq Target
ASSUME PortAssumption == PortState \subseteq {"opens", "fails", "silent"} /\ "opens" \in PortState
ASSUME BoundAssumption == MaxCommand \in Nat /\ MaxFault \in Nat

VARIABLES
  dev,      \* the DeviceConnection, its transport and its backend's session
  port,     \* the outside world: what an open() or a dial meets now
  editing,  \* the device's dialog is open and nothing was applied from it yet
  spent     \* how much of each bound is used up

vars == <<dev, port, editing, spent>>

ConnectionPhase == {"Disconnected", "Connecting", "PreparingTransport", "NegotiatingBtp", "Ready"}
LinkState == {"closed", "looking", "dialing", "open", "dying", "exited"}

Dev == [kind : Kinds,                      \* m_transportType, set when it is built
        target : Target \cup {NoTarget},   \* m_target, m_baudRate / host, port / address
        wanted : BOOLEAN,                  \* m_shouldBeConnected
        available : BOOLEAN,               \* m_transportAvailable
        paused : BOOLEAN,                  \* m_reconnectPaused
        attempt : BOOLEAN,                 \* m_attemptInProgress
        reported : BOOLEAN,                \* m_reportedConnected
        phase : ConnectionPhase,           \* m_connectionPhase
        ticking : BOOLEAN,                 \* m_retryTimer->isActive()
        auto : BOOLEAN,                    \* AppSettings::autoReconnect()
        link : LinkState,                  \* the transport
        linkTarget : Target \cup {NoTarget},
        posted : Seq({"error", "down"}),   \* signals of the USB reader thread on their way
        session : {"none", "hello", "up"}] \* the backend's session

\* Transport::isConnected(). "dying": the USB reader has failed and not said so
\* yet; "exited": it has ended and close() has not joined it yet.
IsConnected(s) == s.link \in {"open", "dying"}

Asynchronous(s) == s.kind \in {"Tcp", "Ble"}

SetPhase(s, p) == [s EXCEPT !.phase = p]

-----------------------------------------------------------------------------
(* Reports and signals. Told, a function on Dev, is what the listener of
   connectionStateChanged(false) does to this connection before the emit
   returns: Silent or ToldOnce, both below. *)

\* reportConnected(true). The listener, if any, re-applies the target in use;
\* connectTo*() finds it wanted, available and up, and only re-arms the timer.
ReportUp(s) ==
  LET told == IF s.reported \/ ~Wired THEN [s EXCEPT !.reported = TRUE]
              ELSE [s EXCEPT !.reported = TRUE, !.paused = FALSE, !.ticking = @ \/ s.auto]
  IN IF told.phase \in {"NegotiatingBtp", "Ready"} THEN told
     ELSE SetPhase(told, "NegotiatingBtp")

\* Mistake: the phase is set whatever the listener did meanwhile.
ReportDownOverListener(s, Told) ==
  SetPhase(IF s.reported THEN Told[[s EXCEPT !.reported = FALSE]] ELSE s, "Disconnected")

\* reportConnected(false). A listener that reconnected, or started the next
\* attempt, wins over this call's phase.
ReportDown(s, Told) ==
  LET told == IF s.reported THEN Told[[s EXCEPT !.reported = FALSE]] ELSE s
  IN IF told.reported \/ (told.attempt /\ told.phase = "PreparingTransport") THEN told
     ELSE SetPhase(told, "Disconnected")

\* connectionStateChanged(true) of the transport: the backend starts its HELLO,
\* then the phase gate decides whether the connection takes it for its own.
TransportUp(s) ==
  LET b == [s EXCEPT !.session = "hello"]
  IN IF b.wanted /\ b.phase = "PreparingTransport"
       THEN ReportUp([b EXCEPT !.attempt = FALSE]) ELSE b

\* Mistake: every close of a wanted link is taken for a superseded attempt's.
TransportDownKeepingPhase(s, Told) ==
  LET b == [s EXCEPT !.session = "none", !.attempt = FALSE]
  IN IF b.wanted
       THEN IF b.reported THEN Told[[b EXCEPT !.reported = FALSE]] ELSE b
       ELSE ReportDown(b, Told)

\* connectionStateChanged(false): the backend drops its session; a close that
\* belongs to a superseded attempt does not touch the phase of the new one.
TransportDown(s, Told) ==
  LET b == [s EXCEPT !.session = "none", !.attempt = FALSE]
  IN IF b.wanted /\ b.phase \in {"Connecting", "PreparingTransport"}
       THEN IF b.reported THEN Told[[b EXCEPT !.reported = FALSE]] ELSE b
       ELSE ReportDown(b, Told)

\* errorOccurred.
TransportError(s, Told) ==
  IF ~IsConnected(s) /\ s.phase \in {"PreparingTransport", "NegotiatingBtp", "Ready"}
    THEN ReportDown([s EXCEPT !.attempt = FALSE], Told)
    ELSE s

-----------------------------------------------------------------------------
(* The transport. *)

\* Transport::close()
CloseLink(s, Told) ==
  IF s.kind = "UsbHid"
    THEN [s EXCEPT !.link = "closed",
                   !.posted = IF IsConnected(s) THEN Append(@, "down") ELSE @]
    ELSE LET c == [s EXCEPT !.link = "closed"]
         IN IF IsConnected(s) THEN TransportDown(c, Told) ELSE c

Opened(s) == TransportUp([s EXCEPT !.link = "open", !.linkTarget = s.target])

\* SerialManager::open() and UsbHidManager::open(): close, then open at once.
OpenNow(s, Told) ==
  LET c == CloseLink(s, Told)
      w == IF s.kind = "Serial" /\ s.target \in Warned THEN TransportError(c, Told) ELSE c
  IN CASE port = "opens" -> Opened(w)
       [] port = "silent" /\ s.kind = "UsbHid" -> w  \* hid_init() failed: false, and no signal
       [] OTHER -> TransportError(w, Told)

\* TcpTransport::open() and BleTransport::open(): the outcome comes later.
StartDial(s) ==
  IF s.kind = "Tcp" /\ s.link \notin {"closed", "looking"}
    THEN s                         \* the socket is busy: false, and no signal
    ELSE [s EXCEPT !.link = IF s.target \in Named THEN "looking" ELSE "dialing",
                   !.linkTarget = s.target]

OpenLink(s, Told) == IF Asynchronous(s) THEN StartDial(s) ELSE OpenNow(s, Told)

CloseTransportGracefully(s, Told) ==
  IF IsConnected(s) THEN CloseLink(s, Told) ELSE s

-----------------------------------------------------------------------------
(* The connection's own methods. *)

\* Mistake: a link that is up needs nothing more.
AttemptReconnectTrusting(s, Told) ==
  IF ~s.wanted \/ ~s.available \/ s.paused \/ IsConnected(s) THEN s
  ELSE LET m == IF s.reported /\ ~s.attempt THEN ReportDown(s, Told) ELSE s
       IN IF m.attempt THEN m
          ELSE OpenLink([m EXCEPT !.attempt = TRUE, !.phase = "PreparingTransport"], Told)

\* attemptReconnect()
AttemptReconnect(s, Told) ==
  IF ~s.wanted \/ ~s.available \/ s.paused THEN s
  ELSE IF IsConnected(s)
    THEN IF s.reported THEN s ELSE ReportUp([s EXCEPT !.attempt = FALSE])
    ELSE LET m == IF s.reported /\ ~s.attempt THEN ReportDown(s, Told) ELSE s
         IN IF m.attempt THEN m
            ELSE OpenLink([m EXCEPT !.attempt = TRUE, !.phase = "PreparingTransport"], Told)

\* Start the retry timer if automatic reconnection is on.
Arm(s) == [s EXCEPT !.ticking = @ \/ s.auto]

\* Mistake: a repeated call with the target in use starts over.
ConnectToAfresh(s, t, Told) ==
  LET asked == [s EXCEPT !.target = t, !.wanted = (t # NoTarget), !.attempt = FALSE]
      next == SetPhase(asked, "Connecting")
      clear == IF t # s.target THEN CloseTransportGracefully(next, Told) ELSE next
  IN IF t = NoTarget
       THEN ReportDown(CloseTransportGracefully([asked EXCEPT !.ticking = FALSE], Told), Told)
       ELSE IF ~s.available THEN SetPhase(asked, "Disconnected")
            ELSE Arm(AttemptReconnect(clear, Told))

\* Mistake: an empty target is taken for one to connect to.
ConnectToAnything(s, t, Told) ==
  LET next == SetPhase([s EXCEPT !.target = t, !.wanted = TRUE, !.attempt = FALSE], "Connecting")
      clear == IF t # s.target THEN CloseTransportGracefully(next, Told) ELSE next
  IN Arm(AttemptReconnect(clear, Told))

\* Mistake: the link to the previous target is kept.
ConnectToKeepingLink(s, t, Told) ==
  LET asked == [s EXCEPT !.target = t, !.wanted = (t # NoTarget), !.attempt = FALSE]
  IN CASE t = NoTarget ->
            ReportDown(CloseTransportGracefully([asked EXCEPT !.ticking = FALSE], Told), Told)
       [] t = s.target /\ t # NoTarget /\ s.wanted /\ s.available /\ (IsConnected(s) \/ s.attempt) ->
            Arm(s)
       [] OTHER ->
            IF ~s.available THEN SetPhase(asked, "Disconnected")
            ELSE Arm(AttemptReconnect(SetPhase(asked, "Connecting"), Told))

\* connectTo(), connectToTcp() and connectToBle(). The latter two leave the
\* attempt alone when the target is cleared.
ConnectTo(s, t, Told) ==
  LET changed == t # s.target
      asked == [s EXCEPT !.target = t, !.wanted = (t # NoTarget),
                         !.attempt = @ /\ Asynchronous(s) /\ t = NoTarget]
      next == SetPhase(asked, "Connecting")
      clear == IF changed THEN CloseTransportGracefully(next, Told) ELSE next
  IN CASE t = NoTarget ->
            ReportDown(CloseTransportGracefully([asked EXCEPT !.ticking = FALSE], Told), Told)
       [] t # NoTarget /\ ~changed /\ s.wanted /\ s.available /\ (IsConnected(s) \/ s.attempt) ->
            Arm(s)
       [] OTHER ->
            IF ~s.available THEN SetPhase(asked, "Disconnected")
            ELSE Arm(AttemptReconnect(clear, Told))

\* disconnectFrom()
DisconnectFrom(s, Told) ==
  LET off == [s EXCEPT !.wanted = FALSE, !.attempt = FALSE, !.ticking = FALSE]
  IN ReportDown(CloseTransportGracefully(off, Told), Told)

\* setAvailable(): suspend() and resume()
SetAvailable(s, available, Told) ==
  LET a == [s EXCEPT !.available = available, !.attempt = FALSE]
  IN IF ~available
       THEN ReportDown(CloseTransportGracefully([a EXCEPT !.ticking = FALSE], Told), Told)
       ELSE IF a.wanted /\ ~IsConnected(a)
         THEN Arm(AttemptReconnect(SetPhase(a, "Connecting"), Told))
         ELSE a

-----------------------------------------------------------------------------
(* The listener. MainWindow::onDeviceConnectionStateChanged() marks the device
   in the devices grid, whose deviceUpdated signal runs onDeviceUpdated(): the
   pause is lifted and the configured target applied again. Inside it nothing
   is reported as connected any more, so no emission is nested in it. *)

Silent == [s \in Dev |-> s]

ToldOnce ==
  [s \in Dev |-> IF Wired THEN ConnectTo([s EXCEPT !.paused = FALSE], s.target, Silent) ELSE s]

\* Any other deviceUpdated, of a HELLO identity for one.
Reapply(s) ==
  IF Wired THEN ConnectTo([s EXCEPT !.paused = FALSE], s.target, ToldOnce) ELSE s

-----------------------------------------------------------------------------
(* Events. *)

Init ==
  /\ \E k \in Kinds :
       dev = [kind |-> k, target |-> NoTarget, wanted |-> FALSE, available |-> TRUE,
              paused |-> FALSE, attempt |-> FALSE, reported |-> FALSE, phase |-> "Disconnected",
              ticking |-> FALSE, auto |-> TRUE, link |-> "closed", linkTarget |-> NoTarget,
              posted |-> <<>>, session |-> "none"]
  /\ port \in PortState
  /\ editing = FALSE
  /\ spent = [command |-> 0, fault |-> 0]

Command ==
  /\ spent.command < MaxCommand
  /\ spent' = [spent EXCEPT !.command = @ + 1]
  /\ port' = port

Fault ==
  /\ spent.fault < MaxFault
  /\ spent' = [spent EXCEPT !.fault = @ + 1]

Quiet == UNCHANGED <<port, editing, spent>>

\* The dialog's OK or Connect, a project being opened, the next link of a
\* cycle: the pause is lifted and the target applied.
Configure(t) ==
  /\ Command
  /\ editing' = FALSE
  /\ dev' = ConnectTo([dev EXCEPT !.paused = @ /\ ~Wired], t, ToldOnce)

\* The status dot, or the end of a probe.
Disconnect ==
  /\ "off" \in Uses
  /\ Command
  /\ dev.wanted
  /\ editing' = editing
  /\ dev' = DisconnectFrom(dev, ToldOnce)

\* The status dot of a device that is off.
Reconnect ==
  /\ Command
  /\ Wired
  /\ ~dev.wanted
  /\ editing' = editing
  /\ dev' = ConnectTo(dev, dev.target, ToldOnce)

\* suspend() and resume()
ChangeAvailability(a) ==
  /\ "suspend" \in Uses
  /\ Command
  /\ dev.available # a
  /\ editing' = editing
  /\ dev' = SetAvailable(dev, a, ToldOnce)

\* Mistake: a connection that is up is thought to need no timer.
SetAutoReconnectIfDown(on) ==
  /\ "prefs" \in Uses
  /\ Command
  /\ dev.auto # on
  /\ editing' = editing
  /\ dev' = [dev EXCEPT !.auto = on,
                         !.ticking = on /\ (@ \/ (dev.wanted /\ ~IsConnected(dev)))]

\* connectionPreferencesChanged
SetAutoReconnect(on) ==
  /\ "prefs" \in Uses
  /\ Command
  /\ dev.auto # on
  /\ editing' = editing
  /\ dev' = [dev EXCEPT !.auto = on, !.ticking = on /\ (@ \/ dev.wanted)]

\* configDialogActiveChanged
OpenDialog ==
  /\ "dialog" \in Uses
  /\ Command
  /\ Wired
  /\ ~editing
  /\ editing' = TRUE
  /\ dev' = [dev EXCEPT !.paused = TRUE]

CloseDialog ==
  /\ editing
  /\ editing' = FALSE
  /\ dev' = [dev EXCEPT !.paused = FALSE]
  /\ UNCHANGED <<port, spent>>

RetryTick ==
  /\ dev.ticking
  /\ dev' = AttemptReconnect(dev, ToldOnce)
  /\ Quiet

\* The outside world: the port appears or goes bad.
PortChanges(p) ==
  /\ port # p
  /\ IF p = "opens" THEN spent' = spent ELSE Fault
  /\ port' = p
  /\ UNCHANGED <<dev, editing>>

\* The lookup of a name, in mDNS or by a BLE scan, answers or does not.
Resolve ==
  /\ dev.link = "looking"
  /\ dev' = IF port = "opens" THEN [dev EXCEPT !.link = "dialing"]
            ELSE TransportError([dev EXCEPT !.link = "closed"], ToldOnce)
  /\ Quiet

\* A dial ends: connected, or refused or timed out.
DialEnds ==
  /\ dev.link = "dialing"
  /\ dev' = IF port = "opens" THEN TransportUp([dev EXCEPT !.link = "open"])
            ELSE TransportError([dev EXCEPT !.link = "closed"], ToldOnce)
  /\ Quiet

\* The link is lost. A serial port also raises an error after it has closed.
Drop ==
  /\ Fault
  /\ dev.kind # "UsbHid"
  /\ dev.link = "open"
  /\ LET d == TransportDown([dev EXCEPT !.link = "closed"], ToldOnce)
     IN dev' = IF dev.kind = "Serial" THEN TransportError(d, ToldOnce) ELSE d
  /\ UNCHANGED <<port, editing>>

\* BleTransport::failConnection() of a link in use: the error comes first.
GattFails ==
  /\ Fault
  /\ dev.kind = "Ble"
  /\ dev.link = "open"
  /\ dev' = TransportDown(TransportError([dev EXCEPT !.link = "closed"], ToldOnce), ToldOnce)
  /\ UNCHANGED <<port, editing>>

\* The USB reader thread: a failed read, then the end of the thread.
ReadFails ==
  /\ Fault
  /\ dev.kind = "UsbHid"
  /\ dev.link = "open"
  /\ dev' = [dev EXCEPT !.link = "dying", !.posted = Append(@, "error")]
  /\ UNCHANGED <<port, editing>>

ReaderEnds ==
  /\ dev.link = "dying"
  /\ dev' = [dev EXCEPT !.link = "exited", !.posted = Append(@, "down")]
  /\ Quiet

\* The event loop delivers what the reader thread posted.
Deliver ==
  /\ dev.posted # <<>>
  /\ LET d == [dev EXCEPT !.posted = Tail(@)]
     IN dev' = IF Head(dev.posted) = "error" THEN TransportError(d, ToldOnce)
               ELSE TransportDown(d, ToldOnce)
  /\ Quiet

\* HELLO_RESULT: deviceIdentified reaches MainWindow first, the phase second.
HelloAnswered ==
  /\ IsConnected(dev)
  /\ dev.session = "hello"
  /\ LET r == Reapply([dev EXCEPT !.session = "up"])
     IN dev' = IF r.wanted /\ r.phase = "NegotiatingBtp" THEN SetPhase(r, "Ready") ELSE r
  /\ Quiet

\* Mistake: only a handshake that failed is worth a new link.
SessionTroubleNegotiating(after) ==
  /\ Fault
  /\ IsConnected(dev)
  /\ dev.session # "none"
  /\ after \in {"none", dev.session}
  /\ LET d == [dev EXCEPT !.session = after]
     IN dev' = IF d.wanted /\ d.phase = "NegotiatingBtp" /\ d.auto
                 THEN CloseLink(d, ToldOnce) ELSE d
  /\ UNCHANGED <<port, editing>>

\* sessionRecoveryNeeded: the handshake failed, the watchdog or the dongle
\* ended the session, or (the session still standing) a write was rejected.
SessionTrouble(after) ==
  /\ Fault
  /\ IsConnected(dev)
  /\ dev.session # "none"
  /\ after \in {"none", dev.session}
  /\ LET d == [dev EXCEPT !.session = after]
     IN dev' = IF d.wanted /\ d.phase \in {"NegotiatingBtp", "Ready"} /\ d.auto
                 THEN CloseLink(d, ToldOnce) ELSE d
  /\ UNCHANGED <<port, editing>>

Next ==
  \/ \E t \in Target \cup {NoTarget} : Configure(t)
  \/ Disconnect \/ Reconnect
  \/ \E a \in BOOLEAN : ChangeAvailability(a)
  \/ \E on \in BOOLEAN : SetAutoReconnect(on)
  \/ OpenDialog \/ CloseDialog
  \/ RetryTick
  \/ \E p \in PortState : PortChanges(p)
  \/ Resolve \/ DialEnds \/ Drop \/ GattFails
  \/ ReadFails \/ ReaderEnds \/ Deliver
  \/ HelloAnswered
  \/ \E after \in {"none", "hello", "up"} : SessionTrouble(after)

Spec == Init /\ [][Next]_vars

\* The event loop serves its timers and its queue; the operating system ends a
\* dial; the port comes back, the robot answers and the user closes the dialog.
Fairness ==
  /\ WF_vars(RetryTick)
  /\ WF_vars(Resolve) /\ WF_vars(DialEnds)
  /\ WF_vars(ReaderEnds) /\ WF_vars(Deliver)
  /\ WF_vars(HelloAnswered)
  /\ WF_vars(PortChanges("opens"))
  /\ WF_vars(CloseDialog)

FairSpec == Spec /\ Fairness

-----------------------------------------------------------------------------
(* Properties. *)

\* The type invariant of the connection object, its transport and its session.
\* The transport is never opened towards a target that is not configured.
TypeOK ==
  /\ dev \in Dev
  /\ dev.link # "closed" => dev.linkTarget \in Target
  /\ port \in PortState
  /\ editing \in BOOLEAN
  /\ spent \in [command : 0..MaxCommand, fault : 0..MaxFault]

\* Wanted, possible, and automatic reconnection is on.
Online == dev.wanted /\ dev.available /\ dev.auto

\* An attempt marked as in progress has an outcome on its way: nothing else
\* clears the mark, and attemptReconnect() refuses to run under it.
AttemptHasOutcome ==
  dev.wanted /\ dev.attempt => dev.link \in {"looking", "dialing"} \/ dev.posted # <<>>

\* A connection that is to be online has its retry timer running, connected or
\* not, through every path that stops it: the tick is what reconciles the state
\* reported to the application with the transport's.
TicksWhileOnline == Online => dev.ticking

\* A device shown as Ready (what a hub's children and the link probes wait for)
\* is wanted and available, and unless the reader thread has news on its way
\* its link is up and was reported so.
ReadyMeansTalking ==
  dev.phase = "Ready" =>
    /\ dev.wanted /\ dev.available
    /\ dev.posted = <<>> => IsConnected(dev) /\ dev.reported

\* A link the application was told about leads to the configured target, not
\* to one that was configured when its dial began.
LinkIsToTarget == dev.reported /\ IsConnected(dev) => dev.linkTarget = dev.target

\* An established session on a link the application was told about is shown as
\* Ready: deviceIdentified is emitted once, and a phase that missed it would
\* say NegotiatingBtp for as long as the session lives.
EstablishedIsReady ==
  Online /\ dev.session = "up" /\ IsConnected(dev) /\ dev.reported => dev.phase = "Ready"

\* What the application was told agrees with the transport in the end, whatever
\* the phase gate dropped and whatever a listener did in between.
Reconciled == (Online /\ dev.reported # IsConnected(dev))
                ~> (dev.reported = IsConnected(dev) \/ ~Online)

\* A device that is to be online ends up serving, however its link and its
\* session failed on the way and whenever it was given another target, once
\* they stop failing.  (A TCP dial under way survives a change of the target.)
Serving ==
  /\ dev.phase = "Ready" /\ dev.session = "up" /\ dev.link = "open"
  /\ dev.linkTarget = dev.target \/ dev.kind = "Tcp"
Serves == Online ~> (Serving \/ ~Online)
=============================================================================
