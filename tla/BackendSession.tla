---------------------------- MODULE BackendSession ----------------------------
(***************************************************************************)
(* The BTP session of a device that has one: BtpBackend on a direct link   *)
(* (TCP, BLE, a robot's own serial port) or on a dongle's console.  The    *)
(* session is opened by HELLO, repeated up to three times, kept alive by a *)
(* timer that any outbound frame restarts, and given up by a watchdog at   *)
(* either end, by the dongle's console line, or with the link.             *)
(*                                                                         *)
(* Time is counted in units (half a second on a direct link, a second on a *)
(* console).  A frame is answered within the unit in which it is sent; it  *)
(* may be lost, and a HELLO and its answer may also be late.  The peer and *)
(* the library's SessionInitiator are modelled from what this code and its *)
(* tests expect of them.                                                   *)
(***************************************************************************)
EXTENDS Naturals, Sequences, SequencesExt

CONSTANTS
    Peer,            \* the source the session is with: the robot, or the dongle
    Others,          \* the robots a dongle's enumeration describes besides itself
    MaxHello,        \* kMaxHelloAttempts
    HelloTimeout,    \* units, [direct |-> BOOLEAN] -> kHelloTimeoutMs
    KeepaliveEvery,  \* units, by the same key: kDirectKeepaliveIntervalMs, kKeepaliveIntervalMs
    SessionTimeout,  \* units, by the same key: kDirectSessionTimeoutMs, 30 s
    AskAgainAfter,   \* units, by the same key: kUnknownSchemaRequestCooldownMs
    MaxLost,         \* bound: frames lost or late between two answers
    MaxFault         \* bound: link drops, user disconnects, peer restarts, bad HELLO_RESULTs

ASSUME SessionAssumption ==
    /\ Peer \notin Others /\ IsFiniteSet(Others)
    /\ MaxHello \in Nat \ {0}
    /\ {MaxLost, MaxFault} \subseteq Nat
    /\ HelloTimeout \in [BOOLEAN -> Nat]
    /\ KeepaliveEvery \in [BOOLEAN -> Nat]
    /\ SessionTimeout \in [BOOLEAN -> Nat]
    /\ AskAgainAfter \in [BOOLEAN -> Nat]

\* What the intervals are chosen for (btpbackend.cpp:79-97): keepalives that are
\* lost MaxLost times in a row leave time for one more, and the peer, whose watch
\* begins with the HELLO it answers, hears the next frame in time.
ASSUME TimingAssumption ==
    /\ \A d \in BOOLEAN : KeepaliveEvery[d] * (MaxLost + 1) < SessionTimeout[d]
    /\ HelloTimeout[FALSE] <= KeepaliveEvery[FALSE]
    /\ HelloTimeout[TRUE] <= 2 * KeepaliveEvery[TRUE]

VARIABLES
    direct,   \* m_sessionStartMode = DirectBtp
    auto,     \* the autoReconnect preference
    s,        \* this end: see SessionStates
    catalog,  \* the sources m_telemetryCatalog has schemas of
    cooldown, \* units until an unknown schema may be asked for again
    asked,    \* m_lastDongleConfigRevision; 0 while m_haveDongleConfigRevision is false
    peer,     \* the other end: in a session, its own watchdog, its config revision
    toPeer,   \* frames on their way to the peer
    toApp,    \* frames and console lines on their way here
    lost,     \* frames lost or late since the last answer to a request
    faults    \* faults so far

vars == <<direct, auto, s, catalog, cooldown, asked, peer, toPeer, toApp, lost, faults>>

SessionStates ==
    [up          : BOOLEAN,                         \* the transport
     phase       : {"idle", "awaiting", "active"},  \* m_node's SessionInitiator
     attempts    : 0 .. MaxHello,                   \* m_helloAttempts
     waited      : Nat,                             \* units since the HELLO, or since the peer was heard
     established : BOOLEAN,                         \* m_sessionEstablished
     closing     : BOOLEAN,                         \* m_sessionClosing
     draining    : BOOLEAN,                         \* within DeviceConnection::closeTransportGracefully
     watching    : BOOLEAN,                         \* BtpHandshake::m_established
     keepalive   : BOOLEAN,                         \* m_keepaliveTimer is active
     idle        : Nat,                             \* units since that timer was (re)started
     told        : BOOLEAN]                         \* the managers were told that there is a session

ToPeer == [kind : {"hello"}, n : 1 .. MaxHello]
            \cup [kind : {"sentinel", "stale_boot", "enumerate", "describe", "command",
                              "close"}]
ToApp == [kind : {"result"}, n : 1 .. MaxHello, answer : {"ok", "alien", "refused"}]
            \cup [kind : {"manifest"}, source : Others \cup {Peer}]
            \cup [kind : {"answer", "telemetry", "console"}]

TypeOK ==
    /\ direct \in BOOLEAN
    /\ auto \in BOOLEAN
    /\ s \in SessionStates
    /\ s.idle <= KeepaliveEvery[direct]
    /\ s.waited <= SessionTimeout[direct]
    /\ catalog \subseteq Others \cup {Peer}
    /\ cooldown \in 0 .. AskAgainAfter[direct]
    /\ asked \in 0 .. 2
    /\ peer \in [open : BOOLEAN, quiet : 0 .. SessionTimeout[direct], revision : 1 .. 2]
    /\ toPeer \in Seq(ToPeer)
    /\ toApp \in Seq(ToApp)
    /\ lost \in 0 .. MaxLost
    /\ faults \in 0 .. MaxFault

Init ==
    /\ direct \in BOOLEAN
    /\ auto \in BOOLEAN
    /\ s = [up |-> FALSE, phase |-> "idle", attempts |-> 0, waited |-> 0,
            established |-> FALSE, closing |-> FALSE, draining |-> FALSE,
            watching |-> FALSE, keepalive |-> FALSE, idle |-> 0, told |-> FALSE]
    /\ catalog = {}
    /\ cooldown = 0
    /\ asked = 0
    /\ peer = [open |-> FALSE, quiet |-> 0, revision |-> 1]
    /\ toPeer = <<>>
    /\ toApp = <<>>
    /\ lost = 0
    /\ faults = 0

-----------------------------------------------------------------------------
(* What the handlers do to this end's state.                               *)

\* Every frame that goes out restarts the keepalive timer, if it runs.
Sent(st) == [st EXCEPT !.idle = 0]

Send(st, kind) ==
    /\ s' = Sent(st)
    /\ toPeer' = Append(toPeer, [kind |-> kind])

\* The transport is gone.
Dropped(st) ==
    [st EXCEPT !.up = FALSE, !.phase = "idle", !.waited = 0, !.established = FALSE,
               !.closing = FALSE, !.draining = FALSE, !.watching = FALSE,
               !.keepalive = FALSE, !.idle = 0, !.told = FALSE]

\* The HELLO of this attempt goes out on the link.
HelloSent(st) ==
    [st EXCEPT !.attempts = @ + 1, !.phase = "awaiting", !.waited = 0, !.idle = 0]

\* HELLO_RESULT accepted: everything that rides on a session is told.
Established(st) ==
    [st EXCEPT !.phase = "active", !.waited = 0, !.established = TRUE, !.closing = FALSE,
               !.watching = TRUE, !.keepalive = TRUE, !.idle = 0, !.told = TRUE]

\* Mistake: only an established session's watchdog stops the keepalive.
GivenUpKeepingTimer(st) == [st EXCEPT !.established = FALSE]

\* The session is given up; the managers are not told of it here.
GivenUp(st) == [st EXCEPT !.established = FALSE, !.keepalive = FALSE, !.idle = 0]

\* The link closes under both ends; what was on it is lost.
CloseLink(st) ==
    /\ s' = Dropped(st)
    /\ peer' = [peer EXCEPT !.open = FALSE, !.quiet = 0]
    /\ toPeer' = <<>>
    /\ toApp' = <<>>

\* sessionRecoveryNeeded: DeviceConnection closes the link to open it again,
\* unless the user turned automatic reconnection off; what is still to be read
\* from the link is then rest.
Recover(st, rest) ==
    \/ /\ auto
       /\ CloseLink(st)
    \/ /\ ~auto
       /\ s' = st
       /\ toApp' = rest
       /\ UNCHANGED <<peer, toPeer>>

-----------------------------------------------------------------------------
(* The link.                                                               *)

LinkUp ==
    /\ ~s.up
    /\ s' = HelloSent([s EXCEPT !.up = TRUE, !.attempts = 0])
    /\ toPeer' = <<[kind |-> "hello", n |-> 1]>>
    /\ UNCHANGED <<direct, auto, catalog, cooldown, asked, peer, toApp, lost, faults>>

LinkDrops ==
    /\ s.up
    /\ faults < MaxFault
    /\ faults' = faults + 1
    /\ CloseLink(s)
    /\ UNCHANGED <<direct, auto, catalog, cooldown, asked, lost>>

\* A deliberate disconnect of a serial device says so to the peer first, and
\* keeps reading while that frame drains.
RequestClose ==
    /\ s.established
    /\ faults < MaxFault
    /\ faults' = faults + 1
    /\ s' = [GivenUp(s) EXCEPT !.closing = TRUE, !.draining = TRUE]
    /\ toPeer' = Append(toPeer, [kind |-> "close"])
    /\ UNCHANGED <<direct, auto, catalog, cooldown, asked, peer, toApp, lost>>

Drained ==
    /\ s.draining
    /\ CloseLink(s)
    /\ UNCHANGED <<direct, auto, catalog, cooldown, asked, lost, faults>>

-----------------------------------------------------------------------------
(* The timers of this end.                                                 *)

\* Mistake: the tick looks at the session's watchdog only.
InitiatorTimedOutOnceActive ==
    s.phase = "active" /\ s.waited >= SessionTimeout[direct]

InitiatorTimedOut ==
    \/ s.phase = "awaiting" /\ s.waited >= HelloTimeout[direct]
    \/ s.phase = "active" /\ s.waited >= SessionTimeout[direct]

KeepaliveDue == s.keepalive /\ s.idle >= KeepaliveEvery[direct]

\* Mistake: one attempt more than the constant says.
MayRepeatHelloOnceMore == s.attempts <= MaxHello

\* Whether another HELLO goes out on this link.
MayRepeatHello == s.attempts < MaxHello

\* The watchdog of a session, or no answer to HELLO: it is repeated on the
\* same link before the link is recycled.
NodeTimesOut ==
    /\ InitiatorTimedOut
    /\ ~s.draining
    /\ \/ /\ ~s.established /\ MayRepeatHello
          /\ s' = HelloSent(s)
          /\ toPeer' = Append(toPeer, [kind |-> "hello", n |-> s.attempts + 1])
          /\ UNCHANGED <<peer, toApp>>
       \/ /\ s.established \/ ~MayRepeatHello
          /\ Recover(GivenUp([s EXCEPT !.phase = "idle", !.waited = 0]), toApp)
    /\ UNCHANGED <<direct, auto, catalog, cooldown, asked, lost, faults>>

\* Mistake: the keepalive never asks for the catalog again.
KeepaliveKindNoCatalog == IF direct THEN "stale_boot" ELSE "sentinel"

\* Mistake: a robot is asked what only a dongle answers.
KeepaliveKindSentinel == IF catalog = {} THEN "enumerate" ELSE "sentinel"

\* What the keepalive asks: the whole catalog as long as it is empty, and then
\* something that its peer answers with next to nothing: a source that does
\* not exist, or a boot of the robot's that is not its current one.
KeepaliveKind ==
    IF catalog = {} THEN "enumerate" ELSE IF direct THEN "stale_boot" ELSE "sentinel"

SendKeepalive ==
    /\ KeepaliveDue
    /\ s.established
    /\ Send(s, KeepaliveKind)
    /\ UNCHANGED <<direct, auto, catalog, cooldown, asked, peer, toApp, lost, faults>>

\* A command, a subscription or a lease renewal; at most one in a unit.
AppSends ==
    /\ s.established
    /\ s.idle > 0
    /\ toPeer = <<>>
    /\ Send(s, "command")
    /\ UNCHANGED <<direct, auto, catalog, cooldown, asked, peer, toApp, lost, faults>>

-----------------------------------------------------------------------------
(* What arrives here.                                                      *)

Heard(st) == IF st.phase = "active" THEN [st EXCEPT !.waited = 0] ELSE st

\* The initiator knows the answer to its last HELLO by the sequence number.
IsAwaited(m) == s.phase = "awaiting" /\ m.n = s.attempts

\* A console's catalog is asked for again only if its revision changed; a
\* robot is always asked for its own.
CatalogQuery ==
    IF direct THEN <<[kind |-> "describe"]>>
    ELSE IF asked = peer.revision THEN <<>> ELSE <<[kind |-> "enumerate"]>>

HelloAnswered ==
    /\ toApp # <<>>
    /\ LET m == Head(toApp) IN
        /\ m.kind = "result"
        /\ IsAwaited(m)
        /\ \/ /\ m.answer = "ok"
              /\ s' = Established(s)
              /\ asked' = IF direct THEN asked ELSE peer.revision
              /\ toPeer' = toPeer \o CatalogQuery
              /\ toApp' = Tail(toApp)
              /\ UNCHANGED peer
           \/ /\ m.answer # "ok"
              /\ Recover(GivenUp([s EXCEPT !.phase = "idle", !.waited = 0]), Tail(toApp))
              /\ UNCHANGED asked
    /\ UNCHANGED <<direct, auto, catalog, cooldown, lost, faults>>

\* An answer to a HELLO that was repeated since.
LateResult ==
    /\ toApp # <<>>
    /\ Head(toApp).kind = "result"
    /\ ~IsAwaited(Head(toApp))
    /\ s' = Heard(s)
    /\ toApp' = Tail(toApp)
    /\ UNCHANGED <<direct, auto, catalog, cooldown, asked, peer, toPeer, lost, faults>>

ManifestArrives ==
    /\ toApp # <<>>
    /\ Head(toApp).kind = "manifest"
    /\ s' = Heard(s)
    /\ catalog' = catalog \cup {Head(toApp).source}
    /\ toApp' = Tail(toApp)
    /\ lost' = 0
    /\ UNCHANGED <<direct, auto, cooldown, asked, peer, toPeer, faults>>

AnswerArrives ==
    /\ toApp # <<>>
    /\ Head(toApp).kind = "answer"
    /\ s' = Heard(s)
    /\ toApp' = Tail(toApp)
    /\ lost' = 0
    /\ UNCHANGED <<direct, auto, catalog, cooldown, asked, peer, toPeer, faults>>

\* A sample of a topic that the catalog does not have asks for its source's.
TelemetryArrives ==
    /\ toApp # <<>>
    /\ Head(toApp).kind = "telemetry"
    /\ toApp' = Tail(toApp)
    /\ \/ /\ Peer \notin catalog /\ cooldown = 0
          /\ Send(Heard(s), "describe")
          /\ cooldown' = AskAgainAfter[direct]
       \/ /\ Peer \in catalog \/ cooldown > 0
          /\ s' = Heard(s)
          /\ UNCHANGED <<cooldown, toPeer>>
    /\ UNCHANGED <<direct, auto, catalog, asked, peer, lost, faults>>

\* "BTP/1 CONSOLE" is looked for only while a session is up, and expected
\* after a close; the initiator is not told of it.
ConsoleLine ==
    /\ toApp # <<>>
    /\ Head(toApp).kind = "console"
    /\ LET quiet == [s EXCEPT !.watching = FALSE]
       IN \/ /\ s.watching /\ ~s.closing
             /\ Recover(GivenUp(quiet), Tail(toApp))
          \/ /\ ~s.watching \/ s.closing
             /\ s' = [quiet EXCEPT !.closing = @ /\ ~s.watching]
             /\ toApp' = Tail(toApp)
             /\ UNCHANGED <<peer, toPeer>>
    /\ UNCHANGED <<direct, auto, catalog, cooldown, asked, lost, faults>>

-----------------------------------------------------------------------------
(* The peer.                                                               *)

Reply(replies) == toApp' = toApp \o replies

\* A HELLO opens a session anew; a peer may also refuse it, or answer with a
\* version that was never offered.
PeerAnswersHello ==
    /\ toPeer # <<>>
    /\ Head(toPeer).kind = "hello"
    /\ toPeer' = Tail(toPeer)
    /\ \E answer \in {"ok", "alien", "refused"} :
        /\ Reply(<<[kind |-> "result", n |-> Head(toPeer).n, answer |-> answer]>>)
        /\ peer' = [peer EXCEPT !.open = (answer # "refused"), !.quiet = 0]
        /\ \/ answer = "ok" /\ UNCHANGED faults
           \/ answer # "ok" /\ faults < MaxFault /\ faults' = faults + 1
    /\ UNCHANGED <<direct, auto, s, catalog, cooldown, asked, lost>>

\* What a robot and a dongle answer.  Only a dongle answers an enumeration,
\* with one manifest for each source; a robot ignores what is not for it.
Manifest(source) == [kind |-> "manifest", source |-> source]
Replies(kind) ==
    CASE kind = "enumerate" /\ ~direct ->
             <<Manifest(Peer)>> \o SetToSeq({Manifest(source) : source \in Others})
      [] kind = "describe" -> <<Manifest(Peer)>>
      [] \/ kind = "command"
         \/ kind = "stale_boot" /\ direct
         \/ kind = "sentinel" /\ ~direct -> <<[kind |-> "answer"]>>
      [] OTHER -> <<>>

PeerReceives ==
    /\ toPeer # <<>>
    /\ Head(toPeer).kind \notin {"hello", "close"}
    /\ toPeer' = Tail(toPeer)
    /\ \/ /\ peer.open
          /\ peer' = [peer EXCEPT !.quiet = 0]
          /\ Reply(Replies(Head(toPeer).kind))
       \/ /\ ~peer.open
          /\ UNCHANGED <<peer, toApp>>
    /\ UNCHANGED <<direct, auto, s, catalog, cooldown, asked, lost, faults>>

\* The peer leaves its session; a dongle says so with its console line.
PeerEnds ==
    /\ peer' = [peer EXCEPT !.open = FALSE, !.quiet = 0]
    /\ Reply(IF direct THEN <<>> ELSE <<[kind |-> "console"]>>)

PeerCloses ==
    /\ toPeer # <<>>
    /\ Head(toPeer).kind = "close"
    /\ toPeer' = Tail(toPeer)
    /\ PeerEnds
    /\ UNCHANGED <<direct, auto, s, catalog, cooldown, asked, lost, faults>>

PeerDue == peer.open /\ peer.quiet >= SessionTimeout[direct]

PeerTimesOut ==
    /\ PeerDue
    /\ PeerEnds
    /\ UNCHANGED <<direct, auto, s, catalog, cooldown, asked, toPeer, lost, faults>>

\* The peer restarts on an open link, perhaps with another configuration; or
\* somebody at the bench takes the dongle back to its console.
PeerLeaves ==
    /\ s.up
    /\ peer.open
    /\ faults < MaxFault
    /\ faults' = faults + 1
    /\ \/ PeerEnds
       \/ /\ \E revision \in {peer.revision, 2} :
              peer' = [open |-> FALSE, quiet |-> 0, revision |-> revision]
          /\ UNCHANGED toApp
    /\ UNCHANGED <<direct, auto, s, catalog, cooldown, asked, toPeer, lost>>

\* Samples of a topic of the peer's that is subscribed to: a robot's from what a
\* dashboard remembers, a dongle's (hub.peers) only once its catalog is here.
PeerStreams ==
    /\ peer.open
    /\ direct \/ Peer \in catalog
    /\ s.phase = "active" /\ s.waited > 0
    /\ toApp = <<>>
    /\ Reply(<<[kind |-> "telemetry"]>>)
    /\ UNCHANGED <<direct, auto, s, catalog, cooldown, asked, peer, toPeer, lost, faults>>

\* A frame, or the console line, is lost on the way.
Loses ==
    /\ lost < MaxLost
    /\ lost' = lost + 1
    /\ \/ toPeer # <<>> /\ toPeer' = Tail(toPeer) /\ UNCHANGED toApp
       \/ toApp # <<>> /\ toApp' = Tail(toApp) /\ UNCHANGED toPeer
    /\ UNCHANGED <<direct, auto, s, catalog, cooldown, asked, peer, faults>>

\* No clock is told apart beyond the longest timeout.
Later(n) == IF n < SessionTimeout[direct] THEN n + 1 ELSE n

\* A unit of time passes: no timer is due, and what was sent has arrived,
\* unless this is a HELLO exchange, which counts as one frame lost if it is late.
Tick ==
    /\ s.up /\ ~s.draining
    /\ ~InitiatorTimedOut /\ ~KeepaliveDue /\ ~PeerDue
    /\ \/ toPeer = <<>> /\ toApp = <<>> /\ UNCHANGED lost
       \/ /\ toPeer \o toApp # <<>>
          /\ s.phase = "awaiting"
          /\ s.waited > 0 \/ lost < MaxLost
          /\ lost' = IF s.waited > 0 THEN lost ELSE lost + 1
    /\ s' = [s EXCEPT !.waited = IF s.phase = "idle" THEN 0 ELSE Later(@),
                      !.idle = IF s.keepalive THEN @ + 1 ELSE 0]
    /\ peer' = [peer EXCEPT !.quiet = IF peer.open THEN @ + 1 ELSE 0]
    /\ cooldown' = IF cooldown = 0 THEN 0 ELSE cooldown - 1
    /\ UNCHANGED <<direct, auto, catalog, asked, toPeer, toApp, faults>>

-----------------------------------------------------------------------------
System ==
    \/ LinkUp \/ Drained \/ NodeTimesOut \/ SendKeepalive
    \/ HelloAnswered \/ LateResult \/ ManifestArrives \/ AnswerArrives \/ TelemetryArrives \/ ConsoleLine
    \/ PeerAnswersHello \/ PeerReceives \/ PeerCloses \/ PeerTimesOut
    \/ Tick

Next ==
    \/ System
    \/ LinkDrops \/ RequestClose \/ AppSends
    \/ PeerLeaves \/ PeerStreams \/ Loses

Spec == Init /\ [][Next]_vars

\* The event loops of both ends run, the clock runs, and a link that is down is
\* dialed again (DeviceConnection's tick, modelled in its own module).
FairSpec == Spec /\ WF_vars(System)

-----------------------------------------------------------------------------
(* Properties.                                                             *)

\* A session that this end believes in has everything under it: a link that is
\* up, an initiator that watches the peer, a keepalive and a watch for the
\* console line, and managers that were told; and without a session no
\* keepalive runs, whatever ended it (btpbackend.cpp, onNodeConnected against
\* the four ways out).
SessionIsBacked ==
    /\ s.established => /\ s.up /\ s.phase = "active"
                        /\ s.watching /\ s.told /\ ~s.closing
    /\ s.keepalive <=> s.established
    /\ s.watching => s.up

ThisEndGivesUp == s.established /\ ~s'.established /\ s.waited >= SessionTimeout[direct]
PeerGivesUp == peer.open /\ ~peer'.open /\ PeerDue
FreshFault == faults' # faults

\* As long as both ends are in the session, neither watchdog ends it, even if
\* two frames in a row are lost: the keepalive is answered in time, and goes
\* out in time for the peer (btpbackend.cpp:83-97).  A direct session whose
\* catalog is still empty is left out: see AnsweredKeepalive.
BothEndsAliveStay ==
    [][(s.established /\ peer.open /\ ~FreshFault /\ (direct => catalog # {})) =>
          ~ThisEndGivesUp /\ ~PeerGivesUp]_vars

\* The same of a direct session, catalog or not: "it answers every keepalive",
\* and the enumeration in place of the keepalive is meant for a "console/hub
\* backend only" (btpbackend.cpp:91, 917).
AnsweredKeepalive ==
    [][(direct /\ s.established /\ peer.open /\ ~FreshFault) => ~ThisEndGivesUp]_vars

\* With automatic reconnection a session comes up again after whatever ended
\* it: lost and late HELLOs, a silent or refusing peer, a restart, a watchdog.
ComesBack == auto => []<>s.established

\* A session that stays up and falls idle, so that its keepalive comes to run.
StaysUpIdle == <>[]s.established /\ <>[][~AppSends]_vars

\* Such a session ends up with a catalog: the first request or its answer may be
\* lost, and a reconnection may have skipped it (btpbackend.cpp:917).
CatalogArrives == StaysUpIdle => <>(catalog # {})

=============================================================================
