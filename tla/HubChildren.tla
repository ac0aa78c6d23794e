------------------------------ MODULE HubChildren ------------------------------
(***************************************************************************)
(* A dongle, the hub, and the child devices that ride its connection       *)
(* (lib/core/hubtransport.cpp, the hub child branches of                   *)
(* deviceconnection.cpp, the wiring of mainwindow.cpp and                  *)
(* lib/protocol/hubbinder.cpp, which tells the dongle which robot each     *)
(* child is for).                                                          *)
(*                                                                         *)
(* Everything runs in one thread and every Qt signal is a call, so one     *)
(* change of the hub runs MainWindow, which re-applies the target of every *)
(* child from inside the signal that the children's transports are about   *)
(* to hear as well. calls is the stack of what is still to run: a step     *)
(* runs its head and puts the calls it makes in front of the rest. Events  *)
(* of the user and of the wire find it empty.                              *)
(*                                                                         *)
(* The hub's own connection is DeviceConnection's subject and is reduced   *)
(* here to what the children see of it; its transport is one that opens at *)
(* once (a serial port or USB HID), its retry timer runs, and nobody edits *)
(* it.                                                                     *)
(***************************************************************************)
EXTENDS Naturals, Sequences, FiniteSets

CONSTANTS
  Child,     \* the child devices
  Hub,       \* the device that carries them
  Robot,     \* the robots behind the dongle
  NoPeer,    \* peerSourceId 0: no robot picked
  Capacity,  \* children the dongle's table has room for
  MaxEdit,   \* bound: user edits
  MaxFault   \* bound: lost links, dongle reboots and dials that fail

ASSUME HubAssumption == Hub \notin Child
ASSUME PeerAssumption == NoPeer \notin Robot
ASSUME BoundAssumption == Capacity \in Nat /\ MaxEdit \in Nat /\ MaxFault \in Nat

VARIABLES
  conf,      \* conf[c]: Device::peerSourceId, what the user configured
  hub,       \* the hub's DeviceConnection
  child,     \* child[c]: its DeviceConnection, HubTransport and backend
  shown,     \* shown[d]: Device::connected in the devices grid
  bindings,  \* HubBinder::m_bindings
  table,     \* the dongle's own copy of them, in RAM
  refusals,  \* binds the dongle refused, the answer on its way
  told,      \* binds of this session the user was told the dongle refused
  unheard,   \* the dongle rebooted or went away and the hub has not heard yet
  calls,     \* what is still to run of the event under way
  spent      \* how much of each bound is used up

vars == <<conf, hub, child, shown, bindings, table, refusals, told, unheard, calls, spent>>

Peer == Robot \cup {NoPeer}

ChildLink == [wanted : BOOLEAN,    \* m_shouldBeConnected
              peer : Peer,         \* HubTransport::m_peerSourceId
              attached : BOOLEAN,  \* HubTransport::isAttached()
              open : BOOLEAN,      \* HubTransport::m_open
              up : BOOLEAN,        \* the backend was told that its link is up
              reported : BOOLEAN,  \* m_reportedConnected
              phase : {"Disconnected", "Connecting", "Ready"}]

HubConnection == [link : BOOLEAN,
                  session : {"none", "hello", "up"},
                  reported : BOOLEAN,
                  phase : {"Disconnected", "Connecting", "NegotiatingBtp", "Ready"}]

-----------------------------------------------------------------------------
(* Calls. *)

\* One call about device d.
Call(op, d) == <<[op |-> op, about |-> d]>>

\* A call with a truth value: the new state a signal announces.
CallWith(op, d, v) == <<[op |-> op, about |-> d, value |-> v]>>

\* A loop over a set of children, one at a time in some order.
Loop(op, S) == IF S = {} THEN <<>> ELSE <<[op |-> op, rest |-> S]>>

Running(op) == calls # <<>> /\ Head(calls).op = op

\* The call at the head is done; the calls it makes come before the others.
Return(made) == calls' = made \o Tail(calls)

\* The children whose transports listen to the hub when it emits a signal.
Listeners == {c \in Child : child[c].attached}

\* disconnect() takes a child out of the emissions that are under way.
Unlisten(c, s) ==
  [i \in DOMAIN s |-> IF s[i].op = "signal" THEN [s[i] EXCEPT !.rest = @ \ {c}] ELSE s[i]]

AtRest == calls = <<>>

-----------------------------------------------------------------------------
(* HubTransport. *)

\* Mistake: a hub that is on the wire is enough.
IsConnectedWithoutPhase(k) == k.attached /\ hub.link /\ k.peer # NoPeer

\* HubTransport::isConnected(). DeviceConnection::isConnected() of the parent
\* is its transport's.
IsConnected(k) == k.attached /\ hub.link /\ hub.phase = "Ready" /\ k.peer # NoPeer

\* m_open takes the value v; the change, if it is one, is signalled.
SetOpen(c, k, v) ==
  child' = [child EXCEPT ![c] = [k EXCEPT !.open = v]]

EdgeIfChanged(c, k, v) == IF v # k.open THEN CallWith("edge", c, v) ELSE <<>>

\* onParentStateChanged(), of one child still listening. A call of the hub's
\* signal that has nobody left to tell is done.
Signal ==
  /\ Running("signal")
  /\ LET S == Head(calls).rest
     IN IF S = {} THEN Return(<<>>) /\ UNCHANGED child
        ELSE \E c \in S :
               LET k == child[c]
                   now == IsConnected(k)
               IN /\ SetOpen(c, k, now)
                  /\ Return(EdgeIfChanged(c, k, now) \o Loop("signal", S \ {c}))
  /\ UNCHANGED <<conf, hub, shown, bindings, table, refusals, told, unheard, spent>>

\* attachTo(parent): detach, attach, and signal a change of m_open.
Attach ==
  /\ Running("attach")
  /\ LET c == Head(calls).about
         k == [child[c] EXCEPT !.attached = TRUE]
         now == IsConnected(k)
     IN /\ SetOpen(c, k, now)
        /\ calls' = EdgeIfChanged(c, k, now) \o Unlisten(c, Tail(calls))
  /\ UNCHANGED <<conf, hub, shown, bindings, table, refusals, told, unheard, spent>>

\* close()
Close ==
  /\ Running("close")
  /\ LET c == Head(calls).about
         k == [child[c] EXCEPT !.attached = FALSE]
     IN /\ SetOpen(c, k, FALSE)
        /\ calls' = EdgeIfChanged(c, k, FALSE) \o Unlisten(c, Tail(calls))
  /\ UNCHANGED <<conf, hub, shown, bindings, table, refusals, told, unheard, spent>>

\* Mistake: the phase gate of the other transports, which drops a TRUE that
\* arrives while the child waits for its parent.
EdgeGated ==
  /\ Running("edge")
  /\ LET c == Head(calls).about
         v == Head(calls).value
     IN /\ child' = [child EXCEPT ![c].up = v]
        /\ Return(IF v /\ child[c].phase = "Connecting" THEN <<>> ELSE Call("sync", c))
  /\ UNCHANGED <<conf, hub, shown, bindings, table, refusals, told, unheard, spent>>

\* connectionStateChanged of a HubTransport: the backend is told first (coming
\* up, it asks its robot for a catalog at once), the DeviceConnection second.
Edge ==
  /\ Running("edge")
  /\ LET c == Head(calls).about
     IN /\ child' = [child EXCEPT ![c].up = Head(calls).value]
        /\ Return(Call("sync", c))
  /\ UNCHANGED <<conf, hub, shown, bindings, table, refusals, told, unheard, spent>>

-----------------------------------------------------------------------------
(* The DeviceConnection of a child. *)

\* syncHubState()
Sync ==
  /\ Running("sync")
  /\ LET c == Head(calls).about
         k == child[c]
         should == k.wanted /\ IsConnected(k)
         report == IF k.reported = should THEN <<>> ELSE CallWith("report", c, should)
     IN /\ child' = [child EXCEPT ![c].reported = should]
        /\ Return(report \o Call(IF should THEN "upDone" ELSE "settle", c))
  /\ UNCHANGED <<conf, hub, shown, bindings, table, refusals, told, unheard, spent>>

\* Mistake: a child waits for a HELLO as any other device does.
UpDoneNegotiating ==
  /\ Running("upDone")
  /\ LET c == Head(calls).about
     IN child' = [child EXCEPT ![c].phase =
                    IF ~child[c].reported \/ @ = "Ready" THEN @ ELSE "NegotiatingBtp"]
  /\ Return(<<>>)
  /\ UNCHANGED <<conf, hub, shown, bindings, table, refusals, told, unheard, spent>>

\* The end of reportConnected(true), if no listener changed it meanwhile: a
\* child has no handshake of its own to wait for.
UpDone ==
  /\ Running("upDone")
  /\ LET c == Head(calls).about
     IN child' = [child EXCEPT ![c].phase = IF child[c].reported THEN "Ready" ELSE @]
  /\ Return(<<>>)
  /\ UNCHANGED <<conf, hub, shown, bindings, table, refusals, told, unheard, spent>>

\* The end of syncHubState() for a child that is not carried, which overrides
\* the phase reportConnected(false) left.
Settle ==
  /\ Running("settle")
  /\ LET c == Head(calls).about
     IN child' = [child EXCEPT ![c].phase = IF child[c].wanted THEN "Connecting"
                                             ELSE "Disconnected"]
  /\ Return(<<>>)
  /\ UNCHANGED <<conf, hub, shown, bindings, table, refusals, told, unheard, spent>>

\* reportConnected(false) of a child whose robot was taken away.
ReportDown ==
  /\ Running("reportDown")
  /\ LET c == Head(calls).about
         report == IF child[c].reported THEN CallWith("report", c, FALSE) ELSE <<>>
     IN /\ child' = [child EXCEPT ![c].reported = FALSE]
        /\ Return(report \o Call("downDone", c))
  /\ UNCHANGED <<conf, hub, shown, bindings, table, refusals, told, unheard, spent>>

\* Its end, for a child, if no listener connected it again meanwhile.
DownDone ==
  /\ Running("downDone")
  /\ Head(calls).about \in Child
  /\ LET c == Head(calls).about
     IN child' = [child EXCEPT ![c].phase = IF child[c].reported THEN @ ELSE "Disconnected"]
  /\ Return(<<>>)
  /\ UNCHANGED <<conf, hub, shown, bindings, table, refusals, told, unheard, spent>>

\* connectVia(), called by applyDeviceTarget() with the configured robot.
ConnectVia ==
  /\ Running("connectVia")
  /\ LET c == Head(calls).about
         want == conf[c] # NoPeer
         unchanged == child[c].peer = conf[c] /\ child[c].wanted = want
                      /\ child[c].attached = want
         k == [child[c] EXCEPT !.wanted = want, !.peer = conf[c]]
         now == IF conf[c] = child[c].peer THEN k.open ELSE IsConnected(k)
         rest == IF want THEN Call("attach", c) \o Call("sync", c)
                 ELSE Call("close", c) \o Call("reportDown", c)
     IN IF unchanged THEN Return(Call("sync", c)) /\ UNCHANGED child
        ELSE SetOpen(c, k, now) /\ Return(EdgeIfChanged(c, k, now) \o rest)
  /\ UNCHANGED <<conf, hub, shown, bindings, table, refusals, told, unheard, spent>>

\* The child's own retry timer, which only looks after what was reported: at
\* rest a wanted child is attached.
ChildTick(c) ==
  /\ AtRest
  /\ child[c].wanted
  /\ calls' = Call("sync", c)
  /\ UNCHANGED <<conf, hub, child, shown, bindings, table, refusals, told, unheard, spent>>

-----------------------------------------------------------------------------
(* The HubBinder of the hub's backend, and the dongle. *)

\* sendShellCommand("hub -bind"), and the dongle on the other end of a session
\* in which frames arrive in order. The dongle replaces a child's robot in
\* place and refuses a child it has no room for. One that has rebooted has
\* forgotten the session the command names.
SendBind(c, r) ==
  LET room == table[c] # NoPeer \/ Cardinality({d \in Child : table[d] # NoPeer}) < Capacity
  IN IF hub.session # "up" \/ unheard THEN UNCHANGED <<table, refusals>>
     ELSE IF room THEN table' = [table EXCEPT ![c] = r] /\ UNCHANGED refusals
     ELSE refusals' = refusals \cup {<<c, r>>} /\ UNCHANGED table

\* Mistake: a binding held already is not sent again.
BindOnce ==
  /\ Running("bind")
  /\ Return(<<>>)
  /\ LET c == Head(calls).about
     IN IF conf[c] = NoPeer \/ bindings[c] # NoPeer THEN UNCHANGED <<bindings, table, refusals>>
        ELSE bindings' = [bindings EXCEPT ![c] = conf[c]] /\ SendBind(c, conf[c])
  /\ UNCHANGED <<conf, hub, child, shown, told, unheard, spent>>

\* bindChild()
Bind ==
  /\ Running("bind")
  /\ Return(<<>>)
  /\ LET c == Head(calls).about
     IN IF conf[c] = NoPeer THEN UNCHANGED <<bindings, table, refusals>>
        ELSE bindings' = [bindings EXCEPT ![c] = conf[c]] /\ SendBind(c, conf[c])
  /\ UNCHANGED <<conf, hub, child, shown, told, unheard, spent>>

\* resendAll(), in the order of the hash.
ResendAll ==
  /\ Running("resendAll")
  /\ \E c \in Head(calls).rest :
       SendBind(c, bindings[c]) /\ Return(Loop("resendAll", Head(calls).rest \ {c}))
  /\ UNCHANGED <<conf, hub, child, shown, bindings, told, unheard, spent>>

\* onCommandFrameReceived(): a refusal is the one answer the user hears of.
RefusalArrives(b) ==
  /\ AtRest
  /\ ~unheard
  /\ b \in refusals
  /\ refusals' = refusals \ {b}
  /\ told' = told \cup {b}
  /\ UNCHANGED <<conf, hub, child, shown, bindings, table, unheard, calls, spent>>

-----------------------------------------------------------------------------
(* MainWindow. *)

\* onDeviceConnectionStateChanged(): the devices grid emits deviceUpdated when
\* the value is news, and once more when a lost connection had an identity to
\* clear.
Report ==
  /\ Running("report")
  /\ LET d == Head(calls).about
         v == Head(calls).value
     IN /\ shown' = [shown EXCEPT ![d] = v]
        /\ IF shown[d] = v THEN Return(<<>>)
           ELSE \/ Return(Call("updated", d))
                \/ ~v /\ Return(Call("updated", d) \o Call("updated", d))
  /\ UNCHANGED <<conf, hub, child, bindings, table, refusals, told, unheard, spent>>

\* onDeviceUpdated(): apply the device's target, then reattachHubChildren().
\* applyDeviceTarget() of a child tells its connection first, the hub second.
ApplyTarget(c) == Call("connectVia", c) \o Call("bind", c)

Updated ==
  /\ Running("updated")
  /\ LET d == Head(calls).about
     IN Return((IF d = Hub THEN Call("dial", Hub) ELSE ApplyTarget(d)) \o Loop("reattach", Child))
  /\ UNCHANGED <<conf, hub, child, shown, bindings, table, refusals, told, unheard, spent>>

Reattach ==
  /\ Running("reattach")
  /\ \E c \in Head(calls).rest :
       Return(ApplyTarget(c) \o Loop("reattach", Head(calls).rest \ {c}))
  /\ UNCHANGED <<conf, hub, child, shown, bindings, table, refusals, told, unheard, spent>>

\* The user picks, changes or clears the robot of a child.
Configure(c, r) ==
  /\ AtRest
  /\ spent.edit < MaxEdit
  /\ conf[c] # r
  /\ conf' = [conf EXCEPT ![c] = r]
  /\ calls' = Call("updated", c)
  /\ spent' = [spent EXCEPT !.edit = @ + 1]
  /\ UNCHANGED <<hub, child, shown, bindings, table, refusals, told, unheard>>

-----------------------------------------------------------------------------
(* The DeviceConnection of the hub. *)

\* Mistake: the children listen to connectionStateChanged only.
SetPhaseUnheard(p) ==
  /\ hub' = [hub EXCEPT !.phase = p]
  /\ Return(<<>>)

\* setConnectionPhase(): a change is signalled, and the children listen.
SetPhase(p) ==
  /\ hub' = [hub EXCEPT !.phase = p]
  /\ Return(IF p = hub.phase THEN <<>> ELSE Loop("signal", Listeners))

\* connectTo() and attemptReconnect(), for a link that is down.
Dial ==
  /\ Running("dial")
  /\ IF hub.link THEN Return(<<>>) /\ UNCHANGED hub
     ELSE /\ hub' = [hub EXCEPT !.phase = "Connecting"]
          /\ Return((IF hub.phase = "Connecting" THEN <<>> ELSE Loop("signal", Listeners))
                    \o Call("open", Hub))
  /\ UNCHANGED <<conf, child, shown, bindings, table, refusals, told, unheard, spent>>

\* open() answers before it returns. Open: the backend sends its HELLO, and
\* reportConnected(true) follows.
OpenSucceeds ==
  /\ Running("open")
  /\ hub' = [hub EXCEPT !.link = TRUE, !.session = "hello", !.reported = TRUE]
  /\ Return(CallWith("report", Hub, TRUE) \o Loop("signal", Listeners) \o Call("hubUpDone", Hub))
  /\ UNCHANGED <<conf, child, shown, bindings, table, refusals, told, unheard, spent>>

OpenFails ==
  /\ Running("open")
  /\ spent.fault < MaxFault
  /\ spent' = [spent EXCEPT !.fault = @ + 1]
  /\ SetPhase("Disconnected")
  /\ UNCHANGED <<conf, child, shown, bindings, table, refusals, told, unheard>>

HubUpDone ==
  /\ Running("hubUpDone")
  /\ SetPhase(IF hub.reported /\ hub.phase # "Ready" THEN "NegotiatingBtp" ELSE hub.phase)
  /\ UNCHANGED <<conf, child, shown, bindings, table, refusals, told, unheard, spent>>

HubDownDone ==
  /\ Running("downDone")
  /\ Head(calls).about = Hub
  /\ SetPhase(IF hub.reported THEN hub.phase ELSE "Disconnected")
  /\ UNCHANGED <<conf, child, shown, bindings, table, refusals, told, unheard, spent>>

\* The retry timer, which finds nothing to do while the link is up. Between a
\* loss and the news of it what it does is DeviceConnection's subject.
RetryTick ==
  /\ AtRest
  /\ ~unheard
  /\ calls' = IF hub.link THEN <<>> ELSE Call("dial", Hub)
  /\ UNCHANGED <<conf, hub, child, shown, bindings, table, refusals, told, unheard, spent>>

Bound == {c \in Child : bindings[c] # NoPeer}

\* Mistake: the phase is Ready before the bindings have gone out.
HelloAnsweredReadyFirst ==
  /\ AtRest
  /\ hub.link
  /\ hub.session = "hello"
  /\ ~unheard
  /\ hub' = [hub EXCEPT !.session = "up"]
  /\ calls' = Call("ready", Hub) \o Loop("resendAll", Bound) \o Call("updated", Hub)
  /\ UNCHANGED <<conf, child, shown, bindings, table, refusals, told, unheard, spent>>

\* HELLO_RESULT: the binder issues what it holds, then deviceIdentified runs
\* MainWindow (the grid shows the identity, which is a deviceUpdated) and
\* promotes the phase, in this order.
HelloAnswered ==
  /\ AtRest
  /\ hub.link
  /\ hub.session = "hello"
  /\ ~unheard
  /\ hub' = [hub EXCEPT !.session = "up"]
  /\ calls' = Loop("resendAll", Bound) \o Call("updated", Hub) \o Call("ready", Hub)
  /\ UNCHANGED <<conf, child, shown, bindings, table, refusals, told, unheard, spent>>

BecomeReady ==
  /\ Running("ready")
  /\ SetPhase(IF hub.phase = "NegotiatingBtp" THEN "Ready" ELSE hub.phase)
  /\ UNCHANGED <<conf, child, shown, bindings, table, refusals, told, unheard, spent>>

\* The dongle reboots, its table lost, or is unplugged. A USB HID link is down
\* before its reader thread has said so, and a dongle that rebooted is found
\* out when its console answers or its watchdog does not.
DongleGoes(link) ==
  /\ AtRest
  /\ hub.link
  /\ ~unheard
  /\ spent.fault < MaxFault
  /\ spent' = [spent EXCEPT !.fault = @ + 1]
  /\ hub' = [hub EXCEPT !.link = link]
  /\ table' \in {table, [c \in Child |-> NoPeer]}
  /\ unheard' = TRUE
  /\ UNCHANGED <<conf, child, shown, bindings, refusals, told, calls>>

\* The hub hears: a closed link, or a dead session whose link it then closes.
\* The backend drops its session, the binder with it; reportConnected(false).
HearOfIt ==
  /\ AtRest
  /\ unheard
  /\ unheard' = FALSE
  /\ hub' = [hub EXCEPT !.link = FALSE, !.session = "none", !.reported = FALSE]
  /\ refusals' = {}
  /\ told' = {}
  /\ calls' = CallWith("report", Hub, FALSE) \o Loop("signal", Listeners) \o Call("downDone", Hub)
  /\ UNCHANGED <<conf, child, shown, bindings, table, spent>>

-----------------------------------------------------------------------------
Init ==
  /\ conf = [c \in Child |-> NoPeer]
  /\ hub = [link |-> FALSE, session |-> "none", reported |-> FALSE, phase |-> "Connecting"]
  /\ child = [c \in Child |-> [wanted |-> FALSE, peer |-> NoPeer, attached |-> FALSE,
                               open |-> FALSE, up |-> FALSE, reported |-> FALSE,
                               phase |-> "Disconnected"]]
  /\ shown = [d \in Child \cup {Hub} |-> FALSE]
  /\ bindings = [c \in Child |-> NoPeer]
  /\ table = [c \in Child |-> NoPeer]
  /\ refusals = {}
  /\ told = {}
  /\ unheard = FALSE
  /\ calls = <<>>
  /\ spent = [edit |-> 0, fault |-> 0]

\* The event under way goes on.
Continue ==
  \/ Signal \/ Attach \/ Close \/ Edge
  \/ Sync \/ UpDone \/ Settle \/ ReportDown \/ DownDone \/ ConnectVia
  \/ Bind \/ ResendAll
  \/ Report \/ Updated \/ Reattach
  \/ Dial \/ OpenSucceeds \/ OpenFails \/ HubUpDone \/ HubDownDone \/ BecomeReady

Next ==
  \/ Continue
  \/ \E c \in Child : ChildTick(c) \/ \E r \in Peer : Configure(c, r)
  \/ \E b \in refusals : RefusalArrives(b)
  \/ RetryTick \/ HelloAnswered
  \/ \E link \in BOOLEAN : DongleGoes(link)
  \/ HearOfIt

Spec == Init /\ [][Next]_vars

\* A call ends. However often other events come first, the hub's retry timer
\* runs, the dongle answers a HELLO, and a reader thread that ended is heard, as
\* is a session that died. The children need no timer of their own.
Fairness == WF_vars(Continue) /\ SF_vars(RetryTick) /\ SF_vars(HelloAnswered) /\ SF_vars(HearOfIt)

FairSpec == Spec /\ Fairness

-----------------------------------------------------------------------------
(* Properties. *)

TypeOK ==
  /\ conf \in [Child -> Peer]
  /\ hub \in HubConnection
  /\ child \in [Child -> ChildLink]
  /\ shown \in [Child \cup {Hub} -> BOOLEAN]
  /\ bindings \in [Child -> Peer]
  /\ table \in [Child -> Peer]
  /\ refusals \subseteq Child \X Robot
  /\ told \subseteq Child \X Robot
  /\ unheard \in BOOLEAN
  /\ \A i \in DOMAIN calls :
       calls[i].op \in {"signal", "attach", "close", "edge", "sync", "upDone", "settle",
                       "reportDown", "downDone", "connectVia", "bind", "resendAll", "report",
                       "updated", "reattach", "dial", "open", "hubUpDone", "ready"}
  /\ spent \in [edit : 0 .. MaxEdit, fault : 0 .. MaxFault]

Carried(c) == conf[c] # NoPeer /\ hub.link /\ hub.phase = "Ready"

\* Whatever order the observers of the hub's signals run in, and whichever of
\* them attach the children again from inside one, once the event is over the
\* transport, the backend, the connection, its phase and the devices grid of
\* every child agree with each other and with the hub.
ChildrenFollow ==
  AtRest /\ ~unheard =>
    \A c \in Child :
      /\ child[c].open = Carried(c)
      /\ child[c].up = Carried(c)
      /\ child[c].reported = Carried(c)
      /\ shown[c] = Carried(c)
      /\ child[c].phase = IF Carried(c) THEN "Ready"
                          ELSE IF conf[c] # NoPeer THEN "Connecting" ELSE "Disconnected"

\* A child that is shown as connected is routed, by the dongle's own table, to
\* the robot its user picked, or the user is told that it is not: through
\* reboots of the dongle, a table that is full, and changes of mind.
RoutedToItsRobot ==
  AtRest /\ ~unheard =>
    \A c \in Child :
      child[c].reported => \/ table[c] = conf[c]
                          \/ <<c, conf[c]>> \in refusals \cup told

\* A child asks its robot for a catalog the moment its link comes up. The
\* dongle has been told by then where to send that, if this child was bound to
\* this robot before: the bindings of a new session go out ahead of the phase
\* that brings the children up.
RoutedFromTheStart ==
  [][\A c \in Child :
       child'[c].up /\ ~child[c].up /\ ~unheard /\ bindings[c] = child[c].peer =>
         table[c] = child[c].peer \/ <<c, child[c].peer>> \in refusals \cup told]_vars

\* With the faults over, every child that has a robot comes up and stays up.
EveryChildComesUp == \A c \in Child : <>[](conf[c] # NoPeer => child[c].reported)

\* The children implement what a hub promises.
Promise == INSTANCE HubLink WITH
  ready <- hub.link /\ hub.phase = "Ready",
  given <- [c \in Child |-> conf[c] # NoPeer],
  online <- [c \in Child |-> child[c].reported]

PromiseKept == Promise!FairSpec
================================================================================
