--------------------------- MODULE DeviceLinksProofs ---------------------------
(***************************************************************************)
(* What the link cycle guarantees for every number of links, whatever      *)
(* their transports, for every pair of windows and any number of edits and *)
(* faults.                                                                 *)
(*                                                                         *)
(* The invariant adds to the type and to OneLinkInUse what makes a queued  *)
(* probe result harmless: an event that no timer has overtaken yet is      *)
(* about a probe that is still there, and an overtaken one about a probe   *)
(* that is still there or about none. It is never about a new probe on the *)
(* same link, which is what the handler could not tell apart.              *)
(***************************************************************************)
EXTENDS DeviceLinks, SequenceTheorems, WellFoundedInduction, TLAPS

Event == [link : Direct, late : BOOLEAN]

\* Only direct links are probed.
ProbesAreDirect == \A i \in Link : probe[i] # "none" => i \in Direct

\* Events and the probes they are about.
EventsAreCurrent ==
  \A k \in DOMAIN posted :
    probe[posted[k].link] \in {"ready", "lost"} \cup (IF posted[k].late THEN {"none"} ELSE {})

IInv == TypeOK /\ OneLinkInUse /\ ProbesAreDirect /\ EventsAreCurrent

-----------------------------------------------------------------------------
(* Operators of the model. *)

\* A link number moved around the ring is a link number, and a full turn leads
\* back to it.
LEMMA RingStep ==
  /\ \A i \in Link, s \in Nat : (i + s) % Links \in Link
  /\ \A i \in Link : (i + Links) % Links = i
BY LinksAssumption DEF Link

\* The cycle finds a link, and one it may rotate to: there is one, the link in
\* use after a full turn, and hence a nearest one.
LEMMA NextRotatableType ==
  ASSUME cycler.active = active, active \in Link
  PROVE  NextRotatable \in Link /\ Rotatable(NextRotatable)
<1> DEFINE at(s) == (cycler.active + s) % Links
           Good == {s \in 1 .. Links : Rotatable(at(s))}
<1>1. Good \subseteq Nat /\ Links \in Good
  BY RingStep, LinksAssumption DEF Rotatable
<1>2. PICK s \in Good : \A t \in Good : ~(<<t, s>> \in OpToRel(<, Nat))
  BY <1>1, NatLessThanWellFounded, WFMin
<1>3. \A t \in 1 .. s - 1 : ~Rotatable(at(t))
  <2> SUFFICES ASSUME NEW t \in 1 .. s - 1, Rotatable(at(t)) PROVE FALSE
    OBVIOUS
  <2>1. t \in Good /\ t < s /\ t \in Nat /\ s \in Nat
    BY <1>1, LinksAssumption
  <2> QED
    BY <1>2, <2>1 DEF OpToRel
<1>4. \E r \in 1 .. Links : Rotatable(at(r)) /\ \A t \in 1 .. r - 1 : ~Rotatable(at(t))
  BY <1>3
<1> DEFINE n == CHOOSE r \in 1 .. Links :
                  Rotatable(at(r)) /\ \A t \in 1 .. r - 1 : ~Rotatable(at(t))
<1>5. n \in 1 .. Links /\ Rotatable(at(n))
  BY <1>4
<1> HIDE DEF n
<1>6. at(n) \in Link
  BY <1>5, RingStep, LinksAssumption
<1> QED
  BY <1>5, <1>6 DEF NextRotatable, n

\* Events that were in the queue when a timer or another event came.
LEMMA LateType ==
  ASSUME NEW events \in Seq(Event)
  PROVE  /\ Late(events) \in Seq(Event)
         /\ DOMAIN Late(events) = DOMAIN events
         /\ \A k \in DOMAIN events :
              Late(events)[k].link = events[k].link /\ Late(events)[k].late
<1>1. Len(events) \in Nat /\ DOMAIN events = 1 .. Len(events)
      /\ \A k \in 1 .. Len(events) : events[k] \in Event
  BY ElementOfSeq, LenProperties
<1>2. \A k \in DOMAIN events : [events[k] EXCEPT !.late = TRUE] \in Event
  BY <1>1 DEF Event
<1>3. Late(events) \in [1 .. Len(events) -> Event]
  BY <1>1, <1>2 DEF Late
<1>4. \A k \in DOMAIN events :
        Late(events)[k].link = events[k].link /\ Late(events)[k].late
  BY <1>1 DEF Late, Event
<1> QED
  BY <1>1, <1>3, <1>4, SeqDef DEF Late

\* The queue without its first event.
LEMMA TailType ==
  ASSUME NEW events \in Seq(Event), events # <<>>
  PROVE  /\ Head(events) \in Event
         /\ 1 \in DOMAIN events /\ Head(events) = events[1]
         /\ Tail(events) \in Seq(Event)
         /\ \A k \in DOMAIN Tail(events) :
              k + 1 \in DOMAIN events /\ Tail(events)[k] = events[k + 1]
BY HeadTailProperties, LenProperties, EmptySeq

\* Every link of the device has a connection that is dialing it.
Own == [transport : {Transport[i] : i \in Link}, phase : Phase]

\* A connection that dials a link has that link's transport.
LEMMA DialingType ==
  ASSUME NEW i \in Link PROVE Dialing(i) \in Own /\ Dialing(i).transport = Transport[i]
BY DEF Dialing, Own, Phase

\* Whichever way the connection is pointed at a link, it then dials that one.
LEMMA UseType ==
  ASSUME NEW i \in Link, strays \subseteq Link, Use(i)
  PROVE  own' = Dialing(i) /\ strays' \subseteq Link
BY DEF Use, Rebuild

\* A switch leaves one link in use and no probe.
LEMMA SwitchType ==
  ASSUME NEW i \in Link, strays \subseteq Link, SwitchDeviceLink(i)
  PROVE  /\ active' = i /\ own' = Dialing(i)
         /\ strays' \subseteq Link
         /\ probe' = [j \in Link |-> "none"]
BY UseType DEF SwitchDeviceLink, NoProbes

\* Probes are made on direct links not in use, and dropped, but never changed.
LEMMA ProbesType ==
  ASSUME probe \in [Link -> Probe], UpdateLinkProbes
  PROVE  /\ probe' \in [Link -> Probe]
         /\ \A i \in Link : probe'[i] # "none" => i \in Direct /\ i # active
         /\ \A i \in Link : probe[i] # "none" => probe'[i] \in {"none", probe[i]}
BY DEF UpdateLinkProbes, Probe

-----------------------------------------------------------------------------
(* The invariant. *)

\* The initial state has the inductive invariant.
LEMMA InitIInv == Init => IInv
<1> SUFFICES ASSUME Init PROVE IInv
  OBVIOUS
<1>1. 0 \in Link /\ Attempt \in Nat \ {0} /\ {MaxEdit, MaxFault} \subseteq Nat
  BY LinksAssumption, WindowAssumption, BoundAssumption DEF Link
<1>2. own \in Own /\ own.transport = Transport[0]
  BY <1>1, DialingType DEF Init
<1>3. posted \in Seq(Event)
  BY EmptySeq DEF Init
<1> QED
  BY <1>1, <1>2, <1>3 DEF Init, IInv, TypeOK, OneLinkInUse, ProbesAreDirect, EventsAreCurrent,
     Own, Event, Restarted, NoProbes, Probe

\* Time passes: the queue is overtaken, and the cycle moves or goes on.
LEMMA TickKeeps == IInv /\ Tick => IInv'
<1> SUFFICES ASSUME IInv, Tick PROVE IInv'
  OBVIOUS
<1>0. posted \in Seq(Event) /\ posted' = Late(posted)
  BY DEF IInv, TypeOK, Event, Tick
<1>1. /\ posted \in Seq(Event) /\ posted' = Late(posted)
      /\ posted' \in Seq(Event) /\ DOMAIN posted' = DOMAIN posted
      /\ \A k \in DOMAIN posted : posted'[k].link = posted[k].link /\ posted'[k].late
      /\ \A k \in DOMAIN posted : posted[k] \in Event
  BY <1>0, LateType, ElementOfSeq, LenProperties
<1>2. \A k \in DOMAIN posted : ~posted[k].late /\ posted[k].link \in Link
  BY <1>1 DEF Tick, Overtaken, Event, Direct
<1>3. \A k \in DOMAIN posted : probe[posted[k].link] \in {"ready", "lost"}
  BY <1>2 DEF IInv, EventsAreCurrent
<1>4. CASE ~(Due /\ NextRotatable # cycler.active)
  <2>1. UpdateLinkProbes /\ UNCHANGED <<reach, active, own, strays, spent>>
    BY <1>4 DEF Tick
  <2>2. probe' \in [Link -> Probe] /\ ProbesAreDirect' /\ probe'[active] = "none"
        /\ \A i \in Link : probe[i] # "none" => probe'[i] \in {"none", probe[i]}
    BY <2>1, ProbesType DEF IInv, TypeOK, ProbesAreDirect
  <2>3. cycler' \in [active : Link, age : 0 .. Attempt - 1, failed : BOOLEAN]
        /\ cycler'.active = active
    <3>1. Restarted(active) \in [active : Link, age : 0 .. Attempt - 1, failed : BOOLEAN]
          /\ Restarted(active).active = active
      BY WindowAssumption DEF IInv, TypeOK, Restarted
    <3>2. CASE Due \/ ~Wanted \/ Live
      <4>1. cycler' = Restarted(active)
        BY <1>4, <3>2 DEF Tick, IInv, OneLinkInUse
      <4> QED
        BY <3>1, <4>1
    <3>3. CASE ~Due /\ Wanted /\ ~Live
      <4>1. cycler.age + 1 < Attempt
        BY <3>3, WindowAssumption DEF Due, Window, IInv, TypeOK
      <4>2. cycler' = [cycler EXCEPT !.age = @ + 1]
        BY <3>3 DEF Tick
      <4> QED
        BY <4>1, <4>2, WindowAssumption DEF IInv, TypeOK, OneLinkInUse
    <3> QED
      BY <3>2, <3>3
  <2>4. EventsAreCurrent'
    BY <1>1, <1>2, <1>3, <2>2 DEF EventsAreCurrent
  <2> QED
    BY <1>1, <2>1, <2>2, <2>3, <2>4 DEF IInv, TypeOK, OneLinkInUse, Event
<1>5. CASE Due /\ NextRotatable # cycler.active
  <2> DEFINE n == NextRotatable
  <2>1. n \in Link
    BY NextRotatableType DEF IInv, TypeOK, OneLinkInUse
  <2>2. cycler' = Restarted(n) /\ SwitchDeviceLink(n) /\ UNCHANGED <<reach, spent>>
    BY <1>5 DEF Tick
  <2> HIDE DEF n
  <2>3. active' = n /\ own' \in Own /\ own'.transport = Transport[n]
        /\ strays' \subseteq Link /\ probe' = [j \in Link |-> "none"]
    BY <2>1, <2>2, SwitchType, DialingType DEF IInv, TypeOK
  <2> QED
    BY <1>1, <1>2, <2>1, <2>2, <2>3, WindowAssumption
    DEF IInv, TypeOK, OneLinkInUse, ProbesAreDirect, EventsAreCurrent, Event, Own, Restarted, Probe
<1> QED
  BY <1>4, <1>5

\* What a step makes of the queue when it takes its first event: the rest is
\* overtaken, and its probes are as they were or gone.
LEMMA RestOfQueue ==
  ASSUME IInv, posted # <<>>, posted' = Late(Tail(posted)),
         \/ probe' = probe
         \/ probe' = [j \in Link |-> "none"]
  PROVE  posted' \in Seq(Event) /\ EventsAreCurrent'
<1>1. posted \in Seq(Event)
  BY DEF IInv, TypeOK, Event
<1>2. /\ Tail(posted) \in Seq(Event)
      /\ \A k \in DOMAIN Tail(posted) :
           k + 1 \in DOMAIN posted /\ Tail(posted)[k] = posted[k + 1]
  BY <1>1, TailType
<1>3. /\ posted' \in Seq(Event) /\ DOMAIN posted' = DOMAIN Tail(posted)
      /\ \A k \in DOMAIN posted' :
           posted'[k].link = Tail(posted)[k].link /\ posted'[k].late
  BY <1>2, LateType
<1>4. \A k \in DOMAIN posted' :
        probe[posted'[k].link] \in {"ready", "lost", "none"} /\ posted'[k].link \in Link
  <2> SUFFICES ASSUME NEW k \in DOMAIN posted'
               PROVE  probe[posted'[k].link] \in {"ready", "lost", "none"}
                      /\ posted'[k].link \in Link
    OBVIOUS
  <2>1. k + 1 \in DOMAIN posted /\ posted'[k].link = posted[k + 1].link
    BY <1>2, <1>3
  <2>2. posted[k + 1] \in Event
    BY <1>1, <2>1, ElementOfSeq, LenProperties
  <2> QED
    BY <2>1, <2>2 DEF IInv, EventsAreCurrent, Event, Direct
<1> QED
  BY <1>3, <1>4 DEF EventsAreCurrent

\* The handler of an event: nothing, or a switch to the link of the probe.
LEMMA ProbeReadyKeeps == IInv /\ ProbeReady => IInv'
<1> SUFFICES ASSUME IInv, ProbeReady PROVE IInv'
  OBVIOUS
<1> DEFINE i == Head(posted).link
<1>1. i \in Direct /\ i \in Link
  BY TailType DEF ProbeReady, IInv, TypeOK, Event, Direct
<1>2. posted # <<>> /\ posted' = Late(Tail(posted)) /\ UNCHANGED <<reach, spent>>
  BY DEF ProbeReady
<1>3. CASE probe[i] = "none"
  <2>1. UNCHANGED <<active, own, strays, probe, cycler>>
    BY <1>3 DEF ProbeReady
  <2>2. posted' \in Seq(Event) /\ EventsAreCurrent'
    BY <1>2, <2>1, RestOfQueue
  <2> QED
    BY <1>2, <2>1, <2>2 DEF IInv, TypeOK, OneLinkInUse, ProbesAreDirect, Event
<1>4. CASE probe[i] # "none"
  <2>1. SwitchDeviceLink(i) /\ cycler' = Restarted(i)
    BY <1>4 DEF ProbeReady
  <2> HIDE DEF i
  <2>2. active' = i /\ own' \in Own /\ own'.transport = Transport[i]
        /\ strays' \subseteq Link /\ probe' = [j \in Link |-> "none"]
    BY <1>1, <2>1, SwitchType, DialingType DEF IInv, TypeOK
  <2>3. posted' \in Seq(Event) /\ EventsAreCurrent'
    BY <1>2, <2>2, RestOfQueue
  <2> QED
    BY <1>1, <1>2, <2>1, <2>2, <2>3, WindowAssumption
    DEF IInv, TypeOK, OneLinkInUse, ProbesAreDirect, Event, Own, Restarted, Probe
<1> QED
  BY <1>3, <1>4

\* The user finds no event in the queue.
LEMMA UserKeeps == IInv /\ (EditLinks \/ ToggleOff \/ ToggleOn) => IInv'
<1> SUFFICES ASSUME IInv, EditLinks \/ ToggleOff \/ ToggleOn PROVE IInv'
  OBVIOUS
<1>1. /\ posted' = <<>> /\ reach' = reach
      /\ spent' \in [edit : 0 .. MaxEdit, fault : 0 .. MaxFault]
  BY BoundAssumption DEF EditLinks, ToggleOff, ToggleOn, User, IInv, TypeOK
<1>2. posted' \in Seq(Event) /\ EventsAreCurrent'
  BY <1>1, EmptySeq DEF EventsAreCurrent
<1>3. 0 \in Link /\ Restarted(0) \in [active : Link, age : 0 .. Attempt - 1, failed : BOOLEAN]
      /\ Restarted(0).active = 0
  BY LinksAssumption, WindowAssumption DEF Link, Restarted
<1>4. strays \subseteq Link /\ NoProbes = [j \in Link |-> "none"] /\ "none" \in Probe
      /\ own \in Own /\ own.transport = Transport[active] /\ cycler.active = active
  BY DEF IInv, TypeOK, OneLinkInUse, Own, NoProbes, Probe
<1>5. CASE EditLinks
  <2>1. active' = 0 /\ probe' = NoProbes /\ cycler' = Restarted(0) /\ Use(0)
    BY <1>5 DEF EditLinks
  <2>2. own' \in Own /\ own'.transport = Transport[0] /\ strays' \subseteq Link
    BY <1>3, <1>4, <2>1, UseType, DialingType
  <2> QED
    BY <1>1, <1>2, <1>3, <1>4, <2>1, <2>2
    DEF IInv, TypeOK, OneLinkInUse, ProbesAreDirect, Event, Own
<1>6. CASE ToggleOff
  <2>1. probe' = NoProbes /\ UNCHANGED <<active, strays, cycler>>
    BY <1>6 DEF ToggleOff
  <2>2. own' \in Own /\ own'.transport = own.transport
    BY <1>4, <1>6 DEF ToggleOff, Own, Phase
  <2> QED
    BY <1>1, <1>2, <1>4, <2>1, <2>2
    DEF IInv, TypeOK, OneLinkInUse, ProbesAreDirect, Event, Own
<1>7. CASE ToggleOn
  <2>1. cycler' = Restarted(0)
    BY <1>7 DEF ToggleOn
  <2>2. own' \in Own /\ own'.transport = Transport[0] /\ strays' \subseteq Link /\ active' = 0
    BY <1>3, <1>4, <1>7, UseType, SwitchType, DialingType DEF ToggleOn
  <2>3. probe' = NoProbes \/ (probe' = probe /\ active = 0)
    BY <1>3, <1>4, <1>7, SwitchType DEF ToggleOn
  <2> QED
    BY <1>1, <1>2, <1>3, <1>4, <2>1, <2>2, <2>3
    DEF IInv, TypeOK, OneLinkInUse, ProbesAreDirect, Event, Own
<1> QED
  BY <1>5, <1>6, <1>7

\* The device's own connection changes its phase and marks a failure.
LEMMA OwnKeeps ==
  IInv /\ (OwnUp \/ OwnLive \/ OwnFails \/ OwnRetries \/ OwnLost \/ OwnSilent) => IInv'
<1> SUFFICES ASSUME IInv, OwnUp \/ OwnLive \/ OwnFails \/ OwnRetries \/ OwnLost \/ OwnSilent
             PROVE  IInv'
  OBVIOUS
<1>1. UNCHANGED <<reach, active, strays, probe, posted, spent>>
  BY DEF OwnUp, OwnLive, OwnFails, OwnRetries, OwnLost, OwnSilent, OwnPhase
<1>2. own \in Own /\ \E p \in Phase : own' = [own EXCEPT !.phase = p]
  BY DEF OwnUp, OwnLive, OwnFails, OwnRetries, OwnLost, OwnSilent, OwnPhase, Phase,
     IInv, TypeOK, Own
<1>3. own' \in Own /\ own'.transport = own.transport
  BY <1>2 DEF Own
<1>4. cycler' \in [active : Link, age : 0 .. Attempt - 1, failed : BOOLEAN]
      /\ cycler'.active = cycler.active
  BY DEF OwnUp, OwnLive, OwnFails, OwnRetries, OwnLost, OwnSilent, IInv, TypeOK
<1> QED
  BY <1>1, <1>3, <1>4
  DEF IInv, TypeOK, OneLinkInUse, ProbesAreDirect, EventsAreCurrent, Own

\* A probe becomes ready and says so, or is lost again.
LEMMA ProbeKeeps ==
  ASSUME NEW i \in Link, IInv, ProbeUp(i) \/ ProbeLost(i)
  PROVE  IInv'
<1>1. posted \in Seq(Event) /\ \A k \in 1 .. Len(posted) : posted[k] \in Event
      /\ DOMAIN posted = 1 .. Len(posted) /\ Len(posted) \in Nat
  BY ElementOfSeq, LenProperties DEF IInv, TypeOK, Event
<1>2. UNCHANGED <<reach, active, own, strays, cycler, spent>>
  BY DEF ProbeUp, ProbeLost
<1>3. CASE ProbeUp(i)
  <2> DEFINE e == [link |-> i, late |-> FALSE]
  <2>1. /\ i \in Direct /\ probe' = [probe EXCEPT ![i] = "ready"] /\ posted' = Append(posted, e)
        /\ i # active
    BY <1>3 DEF ProbeUp, IInv, ProbesAreDirect, OneLinkInUse
  <2>2. e \in Event
    BY <2>1 DEF Event
  <2>3. /\ posted' \in Seq(Event) /\ DOMAIN posted' = 1 .. Len(posted) + 1
        /\ posted'[Len(posted) + 1] = e
        /\ \A k \in 1 .. Len(posted) : posted'[k] = posted[k]
    BY <1>1, <2>1, <2>2, AppendProperties, LenProperties
  <2>4. EventsAreCurrent'
    <3> SUFFICES ASSUME NEW k \in 1 .. Len(posted) + 1
                 PROVE  probe'[posted'[k].link] \in
                          {"ready", "lost"} \cup (IF posted'[k].late THEN {"none"} ELSE {})
      BY <2>3 DEF EventsAreCurrent
    <3>1. CASE k = Len(posted) + 1
      BY <2>1, <2>3, <3>1 DEF IInv, TypeOK
    <3>2. CASE k \in 1 .. Len(posted)
      BY <1>1, <2>1, <2>3, <3>2 DEF IInv, TypeOK, EventsAreCurrent, Event, Direct
    <3> QED
      BY <1>1, <3>1, <3>2
  <2> QED
    BY <1>2, <2>1, <2>3, <2>4 DEF IInv, TypeOK, OneLinkInUse, ProbesAreDirect, Event, Probe
<1>4. CASE ProbeLost(i)
  <2>1. probe[i] = "ready" /\ probe' = [probe EXCEPT ![i] = "lost"] /\ posted' = posted
    BY <1>4 DEF ProbeLost
  <2>2. EventsAreCurrent'
    BY <1>1, <2>1 DEF IInv, TypeOK, EventsAreCurrent, Event, Direct
  <2> QED
    BY <1>2, <2>1, <2>2 DEF IInv, TypeOK, OneLinkInUse, ProbesAreDirect, Probe
<1> QED
  BY <1>3, <1>4

\* Every step preserves it: one case per action.
LEMMA StepIInv == IInv /\ [Next]_vars => IInv'
<1> SUFFICES ASSUME IInv, [Next]_vars PROVE IInv'
  OBVIOUS
<1>1. CASE Tick \/ ProbeReady
  BY <1>1, TickKeeps, ProbeReadyKeeps
<1>2. CASE EditLinks \/ ToggleOff \/ ToggleOn
  BY <1>2, UserKeeps
<1>3. CASE OwnUp \/ OwnLive \/ OwnFails \/ OwnRetries \/ OwnLost \/ OwnSilent
  BY <1>3, OwnKeeps
<1>4. ASSUME NEW i \in Link, ProbeUp(i) \/ ProbeLost(i)
      PROVE  IInv'
  BY <1>4, ProbeKeeps
<1>5. ASSUME NEW i \in Link, NEW r \in Reach, ReachChanges(i, r)
      PROVE  IInv'
  BY <1>5, BoundAssumption
  DEF ReachChanges, IInv, TypeOK, OneLinkInUse, ProbesAreDirect, EventsAreCurrent
<1>6. CASE UNCHANGED vars
  BY <1>6 DEF vars, IInv, TypeOK, OneLinkInUse, ProbesAreDirect, EventsAreCurrent
<1> QED
  BY <1>1, <1>2, <1>3, <1>4, <1>5, <1>6 DEF Next

-----------------------------------------------------------------------------
(* The properties. *)

\* Grid, cycle, connection, probes and queue keep their types.
THEOREM TypeCorrect == Spec => []TypeOK
<1>1. IInv => TypeOK
  BY DEF IInv
<1> QED
  BY <1>1, InitIInv, StepIInv, PTL DEF Spec

\* One dial per link: the grid, the cycle and the connection agree on the link
\* in use and no probe holds it, however many links there are and whichever
\* transports they use (switchDeviceLink(), updateLinkProbes()).
THEOREM OneLinkInUseHolds == Spec => []OneLinkInUse
<1>1. IInv => OneLinkInUse
  BY DEF IInv
<1> QED
  BY <1>1, InitIInv, StepIInv, PTL DEF Spec

\* What a switch by the cycle or by a probe is for.
LEMMA MovesStep ==
  ASSUME IInv, [Next]_vars, active' # active, spent' = spent
  PROVE  IF active' \in Direct THEN probe[active'] \in {"ready", "lost"} ELSE ~Live
<1>1. CASE Tick
  <2> DEFINE n == NextRotatable
  <2>1. Due /\ SwitchDeviceLink(n) /\ n # cycler.active
    BY <1>1 DEF Tick
  <2>2. n \in Link /\ Rotatable(n) /\ cycler.active = active
    BY NextRotatableType DEF IInv, TypeOK, OneLinkInUse
  <2>3. active' = n
    BY <2>1 DEF SwitchDeviceLink
  <2> QED
    BY <2>1, <2>2, <2>3 DEF Rotatable, Due
<1>2. CASE ProbeReady
  <2> DEFINE i == Head(posted).link
  <2>1. probe[i] # "none" /\ active' = i
    BY <1>2 DEF ProbeReady, SwitchDeviceLink
  <2>2. i \in Direct /\ 1 \in DOMAIN posted /\ Head(posted) = posted[1]
    BY <1>2, TailType DEF ProbeReady, IInv, TypeOK, Event
  <2>3. probe[i] \in {"ready", "lost"}
    BY <2>1, <2>2 DEF IInv, EventsAreCurrent
  <2> QED
    BY <2>1, <2>2, <2>3
<1>3. CASE EditLinks \/ ToggleOff \/ ToggleOn
  BY <1>3 DEF EditLinks, ToggleOff, ToggleOn, User, IInv, TypeOK
<1>4. CASE OwnUp \/ OwnLive \/ OwnFails \/ OwnRetries \/ OwnLost \/ OwnSilent
  BY <1>4 DEF OwnUp, OwnLive, OwnFails, OwnRetries, OwnLost, OwnSilent, OwnPhase
<1>5. ASSUME NEW i \in Link, ProbeUp(i) \/ ProbeLost(i) \/ \E r \in Reach : ReachChanges(i, r)
      PROVE  active' = active
  BY <1>5 DEF ProbeUp, ProbeLost, ReachChanges
<1>6. CASE UNCHANGED vars
  BY <1>6 DEF vars
<1> QED
  BY <1>1, <1>2, <1>3, <1>4, <1>5, <1>6 DEF Next

\* A queued probe result is never about another probe than its own: the device
\* moves to a direct link only when the probe that is there now has been ready
\* (onLinkProbeReady()), and gives up a live link to no turn of the cycle.
THEOREM MovesHaveReasons == Spec => MovesWithReason
<1>1. IInv /\ [Next]_vars =>
        [active' # active /\ spent' = spent =>
           IF active' \in Direct THEN probe[active'] \in {"ready", "lost"} ELSE ~Live]_vars
  BY MovesStep
<1> QED
  BY <1>1, InitIInv, StepIInv, PTL DEF Spec, MovesWithReason
================================================================================
