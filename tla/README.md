# TraceView: TLA+ models, checks and proofs

TraceView is a Qt 6 / C++17 telemetry dashboard: widgets show topics that robots
stream over a binary protocol (BTP), through a serial port, a USB HID dongle,
TCP, BLE, or a hub that relays several robots over one link. The code modelled
here is under `src/lib`. Paths below are relative to it.

| module | models | checked by |
| --- | --- | --- |
| `SubscriptionManager` | `protocol/subscriptionmanager.cpp`, every handler | `MCSubscriptionManager`, run `subscriptions`; proofs in `SubscriptionManagerProofs` and `SubscriptionDemandProofs` |
| `HubChild` | the manager inside the `BtpBackend` of a device behind a hub, a lossy link and the robot | `MCHubChild`, runs `child_quiet`, `child_recovery`, `child_refused`; proofs in `HubChildProofs` |
| `DeviceConnection` | `core/deviceconnection.cpp` with its transports, its session and the main window as its listener | runs `connection_states`, `connection_serves`; proofs in `DeviceConnectionProofs` |
| `HubChildren` | a hub and the connections of its children: `core/hubtransport.cpp`, the hub branches of `deviceconnection.cpp` and `mainwindow.cpp`, `protocol/hubbinder.cpp` | run `hub_children`, refines `HubLink`; proofs in `HubChildrenProofs` |
| `HubLink` | what a hub promises its children, abstractly | property `PromiseKept` of `HubChildren`; its safety half is proved in `HubChildrenProofs` |
| `DeviceLinks` | a device with several links: the link cycle, its probes and the switches (`devices/device.h`, `mainwindow.cpp`) | `MCDeviceLinks`, runs `device_links`, `link_orphan`; proofs in `DeviceLinksProofs` |
| `BackendSession` | `protocol/btpbackend.cpp` with a session: HELLO, keepalive, watchdogs, SESSION_CLOSE, catalog requests | `MCBackendSession`, runs `backend_session`, `session_silent`; proofs in `BackendSessionProofs` |
| `OtaClient` | `ota/otaclient.cpp`, `ota/mdnsresolver.cpp`, `ota/otatab.cpp` | run `firmware_uploads`; proofs in `OtaClientProofs` |

## 1. Inventory

### How the parts interact

All application code runs in one thread, on Qt's event loop; the one exception
is the reader thread of `UsbHidManager`. Concurrency is therefore of three kinds:
events in any order (timers, sockets, user commands), the radio and the robot on
the other side, and **re-entrancy**: a direct Qt signal is a call, and a listener
may call back into the object that is emitting, or open a message box, whose event
loop runs other handlers while the caller waits.

```
 widgets --subscribe--> SubscriptionManager --SUBSCRIBE--> BtpSession --bytes--> transport
 MainWindow --connectTo/disconnectFrom--> DeviceConnection --open/close--> transport
 transport --connectionStateChanged--> BtpBackend (session), then DeviceConnection (phase)
 DeviceConnection --connectionStateChanged--> MainWindow --deviceUpdated--> DeviceConnection
 parent DeviceConnection --phase--> HubTransport of a child --> child BtpBackend
 MainWindow --bindChild--> HubBinder --BIND--> dongle's table --> robot
 probe DeviceConnection --Ready, queued--> MainWindow --switchDeviceLink--> DeviceConnection
 BtpBackend --onSessionEstablished/Lost, onPeerRebooted/Reconnected--> SubscriptionManager
 BtpBackend --requestCatalog--> ManifestClient --catalogUpdated--> SubscriptionManager
 hub.peers telemetry --> MainWindow --onPeerPresence--> child BtpBackend
 OtaTab --checkStatus/uploadFirmware--> OtaClient --resolve--> MdnsResolver --resolved--> OtaClient
```

### Components

**Subscription manager** (`protocol/subscriptionmanager.cpp`).
State: the consumers by handle, one `TopicState` per (source, topic), the pending
SUBSCRIBE and UNSUBSCRIBE by sequence. Operations: add, remove, update a consumer;
SUBSCRIBE_RESULT and UNSUBSCRIBE_RESULT; the one-second lease timer; session
established and lost; peer rebooted, peer reconnected; catalog updated. Hard:
consumers that come and go while a request is on the wire, results that arrive
after they were given up or superseded, a boot that is not known yet or no longer
true. Correct when consumers are counted, a grant is given up only on the wire,
nothing wanted is forgotten, and nothing unwanted is streamed.

**Hub child backend** (`protocol/btpbackend.cpp`, branches with `m_peerSourceId != 0`).
State: catalog received, the robot's boot as last described, its presence. A child
does not shake hands: its link up is its session up. Operations: link up and down,
the catalog retry timer, `onPeerPresence()`, the `sourceDescribed` handler. Hard: a
robot that restarts while the child's link stays up, or while it is down. Correct
when every consumer ends up served.

**BTP session of a direct device or a dongle** (same file). State: HELLO attempts,
session established, closing, keepalive and watchdog, the catalog and the
configuration revision it was asked for. Operations: transport up and down, HELLO
sent, repeated and answered, time-outs, keepalive, SESSION_CLOSE, the dongle's
console line. Hard: a HELLO repeated on the same link, a watchdog at either end, a
keepalive that doubles as the catalog request, four ways out of a session. Correct
when nothing of a session survives it, neither watchdog ends a session both ends
are in, and a session comes back.

**Device connection** (`core/deviceconnection.cpp`). State: the target, the intent
(`m_shouldBeConnected`), availability, the dialog's pause, the attempt in progress,
what the application was told, the phase shown, the retry timer. Operations:
`connectTo*`, `disconnectFrom`, `setAvailable`, `setReconnectPaused`, the tick, the
transport's and the backend's signals, the preference change. Hard: every report is
a call into the main window that may come back with `connectTo*()` before it
returns; opens answer at once or much later; closes of superseded attempts arrive
during the next one. Correct when the phase, the report and the link agree, the
timer runs whenever it must and a wanted device ends up serving.

**Transports** (`core/serialmanager.cpp`, `usbhidmanager.cpp`, `tcptransport.cpp`,
`bletransport.cpp`). State: closed, looking up a name, dialing, open; a queue of
frames in TCP and BLE; the reader thread in USB HID. Hard: they promise the same
interface and keep it differently (see `DeviceConnection` below).

**Hub transport and hub binder** (`core/hubtransport.cpp`, `protocol/hubbinder.cpp`).
State: the parent, the robot, `m_open`; the bindings wanted and the ones a session has
sent. Operations: attach, detach, close, the parent's phase; bind, send all again,
a refusal. Hard: a child is attached again by an observer of the signal it is itself
about to receive, and the dongle keeps its own copy of the bindings, in RAM, with room
for so many. Correct when a child is up exactly over a ready hub, and routed to the
robot its user picked.

**Main window, device wiring** (`core/mainwindow.cpp` 3304-4060, `devices/devicesgrid.cpp`,
`devices/device.h`). Creates connections, applies targets, routes reports into the
grid, cycles through a device's links and probes them in parallel. Hard: the grid's
`deviceUpdated` is both an edit and a change of live state; a probe's success is a
queued event about a probe that may be gone. Correct when grid, cycle and connection
mean the same link, a move has a reason, and a link that works is found.

**Manifest client and store** (`protocol/`). A catalog by configuration revision, one
source at a time or all of a dongle's. Hard: a reply that is lost.

**OTA client, mDNS resolver, OTA tab** (`ota/`). State: status requests, POSTs, lookups
with their deadlines, rows locked by an upload. Hard: an upload waits for a lookup and
fails long after it began; a listener of the resolver opens a box inside its loop;
rows come and go under an upload. Correct when a row is locked exactly while its upload
can still end, and a device is written to once at a time.

**Command client**, **clock sync** (`protocol/`): one request at a time over a link that
loses frames. **Codec, seal, key derivation, router** (`protocol/`): bytes over the
external btp library. **Telemetry catalog, field router, series, history, hub peers
accumulator** (`protocol/`, `telemetry/`, `devices/`): data in, data out. **Updater**
(`updater/`): one check and one download by command. **Project store, workspaces,
dashboard grid, undo** (`project/`, `dashboard/`): user interface state and files.
**Diagram and scripts, diagnostics, logs, preferences, theme, users, docking**:
presentation, or user code. The `.ts` files under `src/translations` are message
catalogs of Qt's linguist, data without behaviour; the program itself is C++.

`PROJECT.json` lists them all with what is modelled of each, and under "hazards"
what is hard to test, at its line, with the properties that cover it.

## 2. Models

### SubscriptionManager

`mgr` is the object, one record; `sourceBootId` is the telemetry catalog's boot of
each source, `sessionUp` says between which two calls of the backend we are. The
private methods are operators from a record to a record (`SyncTopic` is
`syncTopic()`, `SendSubscribe` is `sendSubscribe()`, `Release` is the UNSUBSCRIBE and
the clearing that goes with it), so a handler that calls several is their
composition and each handler is one action:

| action | code |
| --- | --- |
| `AddSubscriber`, `RemoveSubscriber`, `UpdateSubscriber` | the public calls of the widgets |
| `SubscribeResult`, `UnsubscribeResult` | `onControlFrameReceived()` for a pending sequence |
| `RenewDueSubscriptions` | the lease timer: gives up on late requests, renews due grants |
| `SessionEstablished`, `DirectSessionEstablished`, `SessionLost` | calls of the backend; in a direct session HELLO_RESULT names the boot first |
| `ManifestData` | a manifest: boot to the catalog, `onPeerRebooted()` if it is a reboot, `onCatalogUpdated()` |
| `PeerReconnected` | `onPeerReconnected()` |

Deadlines are a choice of topics past them; iterating a `QHash` is a choice of order
(`Orders`). The model is *open*: any result may come for a pending sequence, with any
status and identity, and sessions, manifests and reboots come at any time. Frames sent
by the last handler are in `mgr.out`; it feeds no later step, and the views leave it out.

### HubChild

`HubChild` extends the manager with the backend of a child (`child`, `linkUp`), the two
directions of the relayed link (`toRobot`, `toDesk`, in order, any frame may be lost)
and the robot. Robot and radio are external: the robot grants a SUBSCRIBE with its
current boot, renews a topic's slot under the same identity, refuses a stale boot, and
forgets its grants when it restarts; `GrantLapses` is a lease it let go. Renewals that
would change nothing at either end are left out (`DueTopics`), and the retry timer
fires only for requests whose answer is not on its way unless `SlowAnswers` is set:
a request waits 1500 ms, far longer than a round trip.

### DeviceConnection

`dev` is the connection together with its transport and the session of its backend.
Handlers are operators on that record because they nest: `ReportDown` calls the
listener (`Told`), which is `Silent` for a link probe and `ToldOnce` for a device of the
main window, where `onDeviceUpdated()` lifts the pause and calls `ConnectTo` again.
Inside that call nothing is reported up any more, so the nesting is one level deep. The
four transports differ in `OpenNow`, `StartDial` and `CloseLink`:

| kind | open() | close() |
| --- | --- | --- |
| Serial | reports before it returns; a 1200-baud target raises an error first | reports before it returns |
| UsbHid | reports before it returns | reported by the reader thread, queued (`posted`) |
| Tcp | dials; refuses, without a signal, while a dial is under way | reports a link, not a dial |
| Ble | dials; abandons a dial under way | reports a link, not a dial |

`Configure`, `Disconnect`, `Reconnect`, `OpenDialog`, `CloseDialog`, `SetAutoReconnect` and
`ChangeAvailability` are the commands; `RetryTick`, `Resolve`, `DialEnds`, `ReaderEnds`, `Deliver`
and `HelloAnswered` are the system's own events; `Drop`, `GattFails`, `ReadFails`, `SessionTrouble`
and a port that goes bad are faults. A whole event, with every call nested in it, is one step.

### HubChildren and HubLink

A change of the hub runs the main window, which re-applies the target of every child from inside
the signal that the children's transports are about to hear. Here the nesting has no fixed depth, so the
module makes it explicit: `calls` is the stack of what is still to run of the event under way, a step
(`Continue`) runs its head and puts the calls it makes in front of the rest, and an event of the user or of
the wire finds it empty (`AtRest`). An operator is a function of the code: `Signal`, `Attach`, `Close`, `Edge`
are `HubTransport`'s, `Sync`, `UpDone`, `DownDone`, `ReportDown`, `ConnectVia` are the child's
`DeviceConnection`, `Report`, `Updated`, `Reattach` the main window's, `Bind`, `ResendAll`, `RefusalArrives` the
binder's. A loop over children or listeners visits them in any order (`Loop`).

The hub's own connection is reduced to what the children see of it: a transport that opens at once, a
session, a phase; nobody edits it. `ChildTick` is a child's own retry timer. The dongle is external: a table
in RAM with room for `Capacity` bindings, which refuses one too many and forgets all in a reboot.

`HubLink` is the promise without the machinery: the hub is ready or not, a child has a robot or not, and it
is brought online and taken offline accordingly, *in the end and only then*. The refinement maps `ready` to the
hub's link and phase, `given` to the configured robot and `online` to what the child reported, safety and
fairness alike (`PromiseKept` is `HubLink`'s `FairSpec`).

### DeviceLinks

The device's connection dials the link in use (`active`); `probe[i]` is the throwaway connection on
every other direct link; `cycler` is the `DeviceLinkCycler`. Inside, each connection is reduced to the phases
the cycle can tell apart. `Tick` is `tickDeviceLinkCycles()`, `ProbeReady` is the queued `onLinkProbeReady()`,
`SwitchDeviceLink`, `Rebuild` and `UpdateLinkProbes` are the functions of those names, `EditLinks`, `ToggleOff`
and `ToggleOn` are the user. `Rebuild` of a connection that was reported connected leaves a stray one
(finding 2). Two facts of time are kept as guards: a posted event is served before a second timer
comes (`Overtaken`), and a link that works comes up before its window is over (`WorksInTime`), which is what
`kAttemptMs` and `kFailedAttemptMs` are chosen for. Targets that follow discovery (`retryAutoTargets`,
`kUnresolvedAttemptMs`) are left out.

### BackendSession

`s` is this end, `peer` the other; `toPeer` and `toApp` are the two directions of the link. `direct` tells a
robot's session from a dongle's: they differ in every interval, in what the keepalive asks, and in whether
there is a console to fall back to. Time is counted in units: half a second in a direct session, a second on a
console, so that the intervals are exact: HELLO 3 s; keepalive 1.5 s or 5 s; watchdog 5 s or 30 s; a catalog
request for an unknown schema at most every 3 s. A frame is answered within the unit it is sent in; it may be
lost, and a HELLO or its answer may also be late, which is the case the repeats are for. `LinkUp`,
`LinkDrops`, `RequestClose`, `Drained` are the transport and its owner; `NodeTimesOut`, `SendKeepalive`, `AppSends` the
timers and the managers; `HelloAnswered`, `LateResult`, `ManifestArrives`, `AnswerArrives`, `TelemetryArrives`,
`ConsoleLine` what is received. The peer, and the library's `SessionInitiator`, are external, modelled from
what the code and its tests expect of them.

### OtaClient

The tab's poll is the clock (`Second`). A status request or an upload goes to an address, or first to the
resolver (`pending`, `queryAge`) if the device's name ends in `.local`. The resolver walks its table, on an
answer (`AnswerArrives`) or on its timer (`LookupTick`); each row it visits (`Visit`) runs the client, which may
start a POST, or fail and open a message box **inside the walk**. `frames` is the stack of walks and boxes;
while a box is open the event loop runs everything else, other walks included. When the table has changed
under a walk that waits for its box, the walk goes on with a stale iterator: the module says so
(`defined` becomes FALSE) and follows it no further.

## 3. Runs

| run | instance | shows |
| --- | --- | --- |
| `subscriptions` | one source, two topics (symmetric), 2 rates, 2 boots, 2 grant identities, 4 sequences, 2 consumers | `TypeOK`, `InFlightIsPending`, `CountedGrants`, `NoConsumerForgotten`, `DemandOnTheWire`, `GrantsLeaveOnTheWire`, `SharingIsSilent` |
| `child_quiet` | 2 rates, 3 consumers, 2 boots, 2 presence reports, 5 sequences, no loss | `HCTypeOK`, `StreamIsWanted`, `EndsAgree`, `GrantNamesItsBoot` |
| `child_recovery` | one loss, one link drop, one lapse, one reboot, fair | `NoRetryStorm`, `ServedUnlessRefused` |
| `child_refused` | one link drop, one reboot, fair | finding: `WantedIsServed` is violated |
| `connection_states` | serial and USB HID; two targets, one at 1200 baud; disconnects, suspension, preferences; ports that open, fail, or fail silently; 3 commands, 2 faults, fair | `TypeOK`, `ReadyMeansTalking`, `LinkIsToTarget`, `TicksWhileOnline`, `Reconciled` |
| `connection_serves` | serial, TCP, BLE; two targets, one by name; retargeting and the dialog; 4 commands, 3 faults, fair | `EstablishedIsReady`, `AttemptHasOutcome`, `Serves` |
| `hub_children` | two children, two robots, a table for one; 3 edits, 1 fault, fair | `TypeOK`, `ChildrenFollow`, `RoutedToItsRobot`, `RoutedFromTheStart`, `EveryChildComesUp`, `PromiseKept` |
| `device_links` | a TCP, a hub and a BLE link; windows of 3 ticks and 1; 2 edits, 2 changes of what can be reached, any start, fair | `TypeOK`, `OneLinkInUse`, `MovesWithReason`, `FindsTheWay` |
| `link_orphan` | the same, 1 edit, 1 change | finding: `OneConnectionPerDevice` is violated |
| `backend_session` | direct and console, with and without automatic reconnection; 3 HELLOs, 2 losses in a row, 1 fault, fair | `TypeOK`, `SessionIsBacked`, `BothEndsAliveStay`, `ComesBack`, `CatalogArrives` |
| `session_silent` | the same | finding: `AnsweredKeepalive` is violated |
| `firmware_uploads` | a device by address, one by a `.local` name, both slow; time-outs of two polls; a file that may not open; fair | `LockedRowIsServed`, `OnePostPerDevice`, `RowIsReleased`, `PollIsAnswered` |

### Bounds

*Sequences and handles* (`MaxSequence`, `MaxHandle`) bound the two counters that only
grow. Four requests are enough for a request, its give-up, the retry and a late result
of the first; five add a rate change in between. Two consumers are enough for one to
leave while the other stays, three for a sequence of different maxima. Two rates give
higher, lower and equal. Two boots give one reboot.
Topics share nothing but the sequence counter, the loop order and the handlers that
walk over all of them, which two topics exercise; two sources would only
add topics that a handler skips.
In the `child_*` runs the losses, drops, lapses and presence reports are counted in
`spent`; the safety run has the consumers and the reports, the liveness run the faults.
`NoRetryStorm` says that the bound on the sequences is never what stops the client.

*Commands, edits and faults* of the connections are counted in `spent`. Two targets and two robots are enough,
since the code only compares the new one with the current. Two children give the one that is attached
again while the other is being told; a table for one makes the second bind a refusal, and a third edit
makes room and takes it again. One fault of a hub is a lost link, a reboot of the dongle or a dial that fails.
Three links give one in use, one behind the hub and one direct that only a probe reaches; the windows keep
their order (a failed attempt is shorter than one without an answer) and not their ratio.

*Losses* in `BackendSession` are counted since the last answer: two in a row is what the code's comments
(`btpbackend.cpp:83-97`) say the intervals are chosen for, and after any answer two more may follow, for ever.
`TimingAssumption` states that choice for all intervals: one keepalive more than can be lost fits into the
watchdog, and a HELLO is repeated soon enough for the peer, whose watch begins with the HELLO it answers. The code's own
(3 s, 1.5 s and 5 s; 3 s, 5 s and 30 s) meet it with `MaxLost = 2`; TLC checks that, and the proof needs nothing else.
One fault (a drop, a disconnect, a restart, a bad HELLO_RESULT) meets every state a session can be in.
In `OtaClient` nothing is bounded but the time-outs, which are two polls: one would make a
slow answer the same as a fast one.

### Fairness

`HubChild`: weak fairness of the lease timer, the catalog retry timer and the two
receivers. A Qt timer stays armed until it fires, a frame that is not lost arrives, and the
robot's control endpoint answers what it receives. Losses, drops, reboots and lapses are
finitely many, never forced. `DeviceConnection`: weak fairness of the retry tick, of
lookups and dials ending (both have time-outs, `tcptransport.cpp:70-110`), of the reader
thread ending and its posted signals being delivered, of HELLO being answered, and of the
port coming back and the dialog being closed: the promise is about a device that can be
reached again and is not being edited. `HubChildren`: a call ends (weak); the hub's tick, the answer to a HELLO and
the news of a dead link each get their turn of the event loop however often other events come first
(strong, since a call under way disables them: a source that is ready is served again and again). `DeviceLinks`: weak
fairness of timers, the event queue and of what dials and sessions report. `BackendSession`: weak fairness of
the system as a whole, which includes the clock: something that can happen without the user or the network
does, and losses are bounded by their guard. `OtaClient`: strong fairness of the polls, the resolver's timer and
replies, weak of handlers and of the user closing a box that is open; that a POST ends is assumed.
User commands and faults have no fairness.

### What the passing runs leave out

The instances are restricted where the code is known to behave otherwise, or where a product of faults
is too large to explore. Each restriction is one of these:

- TCP and BLE are not in `connection_states`: a dial that survives a change of target, a disconnect or a
  suspension (deviations 2 and 6). `LinkIsToTarget` is about the others, and `Serves` leaves TCP's target out.
- USB HID and ports that fail without a word are not in `connection_serves` (deviations 3 and 5).
- `Warned` is empty in `connection_serves` (deviation 4).
- `disconnectFrom()`, preference changes and suspension are not in `connection_serves` (deviations 1, 6 and 7).
- `SlowAnswers` is FALSE in the `child_*` runs: with an answer slower than the
  1500 ms time-out the desktop may forget a request that is then granted after its last consumer
  left, and the robot streams for nobody until its lease ends.
- Presence reports (`MaxBlip`) and losses are not combined. `GrantNamesItsBoot` is about a link that loses nothing
  (deviation 14).
- `RoutedFromTheStart` is about a child bound to that robot before (deviation 12).
- `FindsTheWay` does not follow the device once a stray connection exists (finding 2).
- `BothEndsAliveStay` leaves out a direct session without a catalog (finding 3).
- The liveness properties of `OtaClient` end where an iterator is stale (deviation 9).

## 4. Findings and known deviations

`PROJECT.json` has each finding with its run, its line and the sentence it contradicts.

1. `child_refused`: after a link drop during which the robot restarted, the first SUBSCRIBE names the
   boot of the old catalog and is refused. The manifest that arrives next syncs only topics that
   were held back without a boot (`subscriptionmanager.cpp:677`), so nothing ever asks again.
2. `link_orphan`: rebuilding the connection of a connected device builds two. The old one is closed while the
   map still holds it (`mainwindow.cpp:3713`); the loss it reports runs `onDeviceUpdated()`, which finds the wrong transport
   and rebuilds as well, and what it built is overwritten, still dialing.
3. `session_silent`: the keepalive of a session without a catalog asks for the whole catalog
   (`btpbackend.cpp:924`), which a robot does not answer. If the reply to the first request was lost and
   nothing else is sent, the watchdog ends a direct session both ends are in.

The following were met while modelling. They have no run of their own, but the modules show them when the
restriction above that names them is lifted, or are about code left out.

1. Turning a connected device off turns it on again: the close reports the drop from inside
   `disconnectFrom()` (`deviceconnection.cpp:531`), and `onDeviceUpdated()` re-applies the target.
   `switchDeviceLink()` guards itself against this with `m_switchingDeviceLink`; the status dot does not.
2. A TCP target changed during a dial: `open()` refuses because the socket is busy
   (`tcptransport.cpp:29`), the old dial succeeds and is taken for the new target's.
3. The late close report of the old USB path ends the session on the new one, and nothing starts another
   (`usbhidmanager.cpp:173`).
4. A 1200-baud warning and a HELLO answered before the next tick leave an established session shown as
   negotiating for good (`deviceconnection.cpp:238`).
5. A USB HID `open()` that fails in `hid_init()` says nothing (`usbhidmanager.cpp:66`) and leaves
   `m_attemptInProgress` set for ever.
6. A TCP or BLE dial under way survives `disconnectFrom()` and `suspend()`, since `closeTransportGracefully()`
   returns when nothing is connected yet (`deviceconnection.cpp:630-631`); resuming over it
   leaves the timer stopped (540-562). Nothing but tests calls `suspend()`.
7. A session that fails while `autoReconnect` is off is not recovered when it is turned on again
   (`deviceconnection.cpp:266-288`): the timer ticks over a link that is up and reported.
8. The configuration revision is remembered when the enumeration is requested (`manifestclient.cpp:141-149`): when
   the dongle's own manifest is lost and its robots' arrive, the next session skips the request.
9. The resolver's table may change under its own walk (`mdnsresolver.cpp:183-191`, `201-208`): a listener opens a
   box, and the box's event loop starts lookups and lets others end. `mdnsresolver.h:58-59` promises exactly one
   outcome per request.
10. An upload has no time-out (`docs/OTA.md:92`): a robot that stops reading keeps its row locked.
11. `setHubEndpoint()` gives a child whose link stays up another robot (`btpbackend.cpp:840`), with the
    subscriptions, the boot and the catalog flags of the one before.
12. A child configured under a live hub is brought up before it is bound (`mainwindow.cpp:3304` before `3323`), so its first
    request is not routed; the catalog retry repeats it.
13. A probe's success is handled up to a second after the device's own link came up, and gives that up
    (`mainwindow.cpp:3887`); `device.h:459-460` promises "No preemption" of the rotation only.
14. After a link drop the subscriptions are asserted at once, with the boot of the old catalog (`btpbackend.cpp:1170`). If
    the manifest of the new link is lost, that SUBSCRIBE granted, and the robot then restarts, the retried manifest is the
    first of its link and therefore no reboot (425-426): the grant of the old boot is kept, although that retry is
    said to turn into a re-subscribe (107-110). TLC finds it with one loss, one drop and one reboot.
15. A grant may be given up twice. When the last consumer leaves while a renewal is under way, `syncTopic()` sends the
    UNSUBSCRIBE at once (`subscriptionmanager.cpp:168`), although the comment below it says that there is no identity yet
    while a SUBSCRIBE is in flight (175), and the answer to the renewal sends it again (393), although line 162 calls the
    first "the only place an UNSUBSCRIBE is ever sent". The second is harmless unless the robot has given the identity to
    another topic meanwhile: then it ends a grant the client holds, and `EndsAgree` fails. TLC finds it with two
    topics, two identities, and the peer reported gone and back, which renews.

## 5. Proofs

Each component has a module of proofs beside it. A theorem holds for every value of the constants that
satisfies the assumptions its component states: any number of topics, links, children, robots, devices, any
intervals, and any value of the bounds, which only limit the length of a behaviour.

| module | theorem | statement |
| --- | --- | --- |
| `SubscriptionManagerProofs` | `TypeCorrect` | `[]TypeOK` |
| | `AnswersAreRecognised` | `[]InFlightIsPending` |
| | `GrantsAreCounted` | `[]CountedGrants` |
| `SubscriptionDemandProofs` | `DemandOnTheWireHolds` | `[]DemandOnTheWire` |
| | `NoConsumerForgottenHolds` | `[]NoConsumerForgotten` |
| | `GrantsLeaveOnTheWireHolds` | `GrantsLeaveOnTheWire` |
| | `SharingIsSilentHolds` | `SharingIsSilent` |
| `HubChildProofs` | `HCTypeCorrect` | `[]HCTypeOK` |
| | `ManagerHoldsBehindHub` | the manager's four invariants, under `HCSpec` |
| | `GrantNamesItsBootHolds` | `[]GrantNamesItsBoot` while no frame is lost |
| | `EndsAgreeHolds` | `[]EndsAgree` while no frame is lost, no grant has lapsed and identities are fresh |
| | `StreamIsWantedHolds` | `[]StreamIsWanted` while no frame is lost, the link stays up and answers are not late |
| `DeviceLinksProofs` | `TypeCorrect`, `OneLinkInUseHolds` | `[]TypeOK`, `[]OneLinkInUse` |
| | `MovesHaveReasons` | `MovesWithReason` |
| `BackendSessionProofs` | `TypeCorrect`, `SessionIsBackedHolds` | `[]TypeOK`, `[]SessionIsBacked` |
| | `BothEndsAliveStayHolds` | `BothEndsAliveStay` |
| `HubChildrenProofs` | `TypeCorrect`, `ChildrenFollowHolds` | `[]TypeOK`, `[]ChildrenFollow` |
| | `RoutedToItsRobotHolds` | `[]RoutedToItsRobot` |
| | `RoutedFromTheStartHolds` | `RoutedFromTheStart` |
| | `HubLinkImplemented` | `Promise!Spec`, the safety half of `PromiseKept` |
| `OtaClientProofs` | `TypeCorrect` | `[]TypeOK` of the proof module |
| | `LockedRowIsServedHolds`, `OnePostPerDeviceHolds` | `[]LockedRowIsServed`, `[]OnePostPerDevice` |
| `DeviceConnectionProofs` | `TypeCorrect`, `ReadyMeansTalkingHolds` | `[]TypeOK`, `[]ReadyMeansTalking` |
| | `TicksWhileOnlineHolds` | `[]TicksWhileOnline`, if dials are not suspended |
| | `LinkIsToTargetHolds` | `[]LinkIsToTarget`, without TCP and BLE |
| | `AttemptHasOutcomeHolds` | `[]AttemptHasOutcome`, without USB HID |
| | `EstablishedIsReadyHolds` | `[]EstablishedIsReady`, if never warned of, disconnected or suspended |

### Assumptions

Those of the components are about the shape of the constants (finitely many sources and topics, disjoint sets,
windows in their order) with one exception, `TimingAssumption` of `BackendSession`: one keepalive more than can be lost
in a row fits into the watchdog, and the first frame of a session comes to the peer in time. It is the only thing
known of the intervals there, and the code's own meet it (see Bounds).

Four theorems of `DeviceConnection` have a hypothesis, because without it the code does otherwise:
`DialsAreNotSuspended` (nothing suspends a connection whose transport dials: deviation 6), no transport that dials
(deviation 2), no USB HID (deviation 5), and for `EstablishedIsReady` no serial target at 1200 baud
(`NothingWarns`: deviation 4) and neither a disconnect nor a suspension (`NeverOff`: deviations 1 and 6). They are the
restrictions of the runs, with everything else of the runs' instances lifted: `EstablishedIsReady` is checked without
USB HID and changes of the preferences and proved with them, `ReadyMeansTalking` needs no hypothesis.

`GrantNamesItsBootHolds` speaks of behaviours in which the link has lost no frame so far: a catalog that is lost leaves
the client with a grant of a boot it does not know (deviation 14). Drops of the link, late answers, reboots and
grants the robot forgot are all allowed there, in any number.

The two theorems about both ends of that link have hypotheses on what happened so far, too. `child_quiet` meets all of
them, so both properties are checked there without a condition.

- `EndsAgreeHolds`: no frame was lost and no grant forgotten (`spent.loss = 0`, `spent.lapse = 0`), or the robot does not
  serve what the client rightly believes it was granted, until the next renewal; and the robot gave no identity to two topics
  within a boot (`FreshIds`: deviation 15). Drops, reboots and late answers are allowed in any number.
- `StreamIsWantedHolds`: no frame was lost, the link did not drop (`spent.drop = 0`), and a retry does not give up on an answer that
  is still under way (`~SlowAnswers`). A lost UNSUBSCRIBE leaves its stream running; a dropped link makes the client forget
  grants the robot keeps until their lease ends; an answer to a request given up on brings a grant nobody knows. Reboots,
  lapses, presence reports and reused identities are allowed in any number.

### The arguments

*SubscriptionManager.* Handlers compose private methods, so the invariant is a predicate of the object, not of the
variables, and each method has one lemma that says what it makes of an object that satisfies it (`DeferOK`,
`RequestOK`, `SyncTopicOK`, `ReconcileOK`, ...); an action's step composes them in the order of the calls. `Good(m)` is
the type together with `Correlated`: a request that is awaited is pending *under its own key and with a sequence
below the next one* (sequences are never reused, which is what makes an old result harmless). That every grant has a
consumer is false in the middle of a handler, between a consumer being removed and its topic being synced, so the
lemmas carry `CountedExcept(m, E)`: counted, but for the topics in E. The set of consumers need not be finite: "the
highest rate asked for" exists because rates are bounded.

*Demand.* `DemandExcept(m, up, E)` has the same form: every wanted topic outside E was last asked for at the rate
wanted, and if there is a session it was asked for, held back for its boot, or refused. A lemma says which exceptions a
method settles: `SyncTopicDemand` takes its topic out of E, `ForgetAllDemand` puts every topic in. The same
lemmas say what becomes of grants (`KeepsGrants`, `LeavesOnTheWire`) and that frames only join the end of what a handler
sends (`Appends`), from which `GrantsLeaveOnTheWire` follows handler by handler. `SharingIsSilent` rests on `DemandOnTheWire`: the rate on the wire is
the highest wanted, and one more below it leaves the highest.

*HubChild.* Each step is a handler of the manager, or leaves its object as it is (`HCNextIsManagerStep`), so that the
manager's invariants carry over at once. `GrantNamesItsBoot` needs the order of frames on the two directions of the link
(`InOrder`): a request on its way is addressed to the boot the client knows; an answer is awaited by the topic it was
given for, or by nobody; a catalog of the robot's boot is on its way before every answer of that boot while the client
does not know it; catalogs come in the order of boots. What a handler does to that has two parts: the lemmas about
`Moved` and `Fewer` say what it makes of the object's own grants, requests and frames to send, those ending in `InOrder`
what each end of the link makes of the frames.

*Both ends of a child.* What a handler may say is the same everywhere: of each topic nothing, one SUBSCRIBE or one
UNSUBSCRIBE (`Acted`, one lemma per method). Every step of the desktop starts from an object and a queue (`Talks`: it acts on its
own, ignores a frame, learns an answer, discovers a boot, connects or disconnects) and then speaks; every step of the
robot refuses, grants, ends or describes (`Replies`). An invariant of the link is therefore shown in three parts: of
what a handler starts from, of what it says, and of the robot's reply. `Agreed` says of the last word about a topic what
it will leave at the robot: a grant with nothing about its topic behind it is served at its rate, and a request that is
awaited is the last word about its topic. `Streamed` says that what the robot serves is held, awaited or being given up, and
that whoever waits has an answer or its request on the way (`Awaits`), which is why nothing is late (`NoneLate`). Both
rest on `InOrder`, and on `Held`: what is granted or awaited has a boot and is not held back.

*DeviceLinks.* `OneLinkInUse` alone is not inductive: `ProbeReady` moves the device to the link of a queued event, and
must not find it in use. `EventsAreCurrent` says what a queued event may be about: a probe that still stands, or none if a
timer has overtaken it; never a newer probe on the same link.

*BackendSession.* No bound on a clock is inductive alone. `LinkInv` is what a link leaves behind (nothing) and in which
order frames are on it: behind a HELLO there are only HELLOs, answers come in the order of the attempts, and a session
therefore begins with no other HELLO under way. `ClockInv` bounds each watchdog by what the keepalive timer shows,
one interval for each frame lost since the last answer, and one for a frame on its way; `TimingAssumption` keeps that
below the watchdog.

*HubChildren.* The properties speak of moments when no call is under way, the invariant of every moment: whatever
disagrees has a call on the stack that will put it right (`ChildOK`), and no call on the stack finds its reason gone
(`CallsOK`). Two facts about the stack make the second possible: news are only on top of it, and the last call of an
answered HELLO is at its bottom. What the hub offers (`Up`) does not change while calls run, but by that last call.
The refinement then has one lemma for each step that moves `ready`, `given` or `online`; all others stutter.

*OtaClient.* A deferred upload starts its POST without looking for another one. That is safe because an address is
remembered, and a new upload let past the lookup, only by a walk that has still to serve the one that waits
(`CachedIsUnderWay`, of the whole stack of walks). `PostIsCurrent` and `WaitingIsAsked` relate POSTs and lookups to
the rows. Nothing is claimed once an iterator is stale (deviation 9).

*DeviceConnection.* What is never given up, even in the middle of a handler, is `Base`; what a handler restores before it
returns is `Shown`: the phase is backed by the intent, the report and the link. A handler calls the listener, which calls
handlers. `Tells(Told)` is what every lemma assumes of its listener; it is proved of the innermost, which reports
nothing, and then of the real one from it. `Ticks`, `Aimed` and `Dials` carry the first three theorems with a
hypothesis. `EstablishedIsReady` takes a second invariant, `Settled`, on top of that one: a link that carries a session
is reported and shown (`Calm`), which holds only because a dial of a wanted connection always has its phase, so that the
gate in the transport's report lets it through. What is asked of a listener there is `Calms(Told)`, proved
in the same two steps; told of a link that is gone it may dial again or open a serial port at once, and the handler that
told it must not write over that (`Marked`, `Waits`, `Opens`).

### Only model-checked

Liveness under fairness is out of the prover's reach: `ServedUnlessRefused`, `Reconciled`, `Serves`, `EveryChildComesUp`, the
fairness half of `PromiseKept`, `FindsTheWay`, `ComesBack`, `CatalogArrives`, `RowIsReleased`, `PollIsAnswered`.
One invariant is only checked, `NoRetryStorm`: that the manager stops asking within the sequences of its run has no
meaning without that bound. Every other invariant and action property of a passing run has a theorem above.

## 6. Plan

What is left: further models, of `ClockSync` (a late reply completes no later request), the frame queues of TCP and
BLE at their limit, and `nextEndpointSequence()` under two senders.

## 7. Not modelled

Byte layouts, cryptography, schemas and decoding (pure functions over an external library); the command client,
whose outcomes are those of the same library and cannot be read from this repository; painting,
docking, themes, translations and dialogs (presentation); user scripts (arbitrary JavaScript); the updater and the
project store (one sequential operation per command); Android, BLE scanning and permissions (platform code);
vendored QR code; simulators and tests. Of the modelled parts: suspending a hub child, automatic targets, adding and removing
devices of the link cycle, an address changed during a lookup, and the persistent manifest store; `PROJECT.json` says
so at each component.
