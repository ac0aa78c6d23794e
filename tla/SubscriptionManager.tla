------------------------ MODULE SubscriptionManager ------------------------
(***************************************************************************)
(* The client side of topic subscriptions:                                 *)
(* lib/protocol/subscriptionmanager.cpp.                                   *)
(*                                                                         *)
(* Widgets are consumers of a (source, topic) key. The manager counts them *)
(* and keeps at most one wire subscription per key, at the highest rate    *)
(* any of them asked for. The object is the record mgr; its private        *)
(* methods are operators from such a record to the next one, so that a     *)
(* handler that calls several of them is the composition of the operators, *)
(* and every handler of the class is one action.                           *)
(*                                                                         *)
(* The module is open: the results that come back from the wire, the       *)
(* moment a timer fires, session changes and manifests are arbitrary.      *)
(* HubChild.tla connects the manager to a robot.                           *)
(*                                                                         *)
(* Wall-clock deadlines are abstracted to a choice of which topics are     *)
(* past them. A frame the manager sends is an element of mgr.out, which    *)
(* holds the frames of the last handler only, in the order they were sent. *)
(* The effective rate, the lease length and the STATUS metrics are data    *)
(* for the display and are left out.                                       *)
(***************************************************************************)
EXTENDS Integers, Sequences, FiniteSets, FiniteSetsExt

CONSTANTS
  Source,          \* telemetry sources (robots)
  TopicId,         \* topic numbers
  MaxRate,         \* highest rate a widget asks for
  BootId,          \* boot identities a source can report (0 is "unknown")
  SubscriptionId   \* identities a source gives to a grant (0 is "none")

ASSUME FiniteKeys == IsFiniteSet(Source) /\ IsFiniteSet(TopicId)
ASSUME MaxRateAssumption == MaxRate \in Nat \ {0}
ASSUME BootIdAssumption == BootId \subseteq Nat \ {0}
ASSUME SubscriptionIdAssumption == SubscriptionId \subseteq Nat \ {0}

Key == Source \X TopicId
SourceOf(k) == k[1]
Rate == 1..MaxRate
Status == {"SUCCESS", "REJECTED"}

VARIABLES
  mgr,           \* the SubscriptionManager object
  sourceBootId,  \* TelemetryCatalog: the boot of each source, 0 when unknown
  sessionUp      \* between onSessionEstablished() and onSessionLost()

vars == <<mgr, sourceBootId, sessionUp>>

NewTopic == [targetBootId      |-> 0,
             sentRate          |-> 0,
             inFlightSequence  |-> 0,
             subscriptionId    |-> 0,
             deferredForBootId |-> FALSE,
             lastStatus        |-> "NONE"]

Topic == [targetBootId      : BootId \cup {0},
          sentRate          : Rate \cup {0},
          inFlightSequence  : Nat,
          subscriptionId    : SubscriptionId \cup {0},
          deferredForBootId : BOOLEAN,
          lastStatus        : Status \cup {"NONE"}]

Frame == [type : {"SUBSCRIBE"}, seq : Nat, key : Key, boot : BootId, rate : Rate]
           \cup
         [type : {"UNSUBSCRIBE"}, seq : Nat, key : Key, boot : BootId \cup {0},
          id : SubscriptionId]

-----------------------------------------------------------------------------
(* Helpers on partial functions (the QHash members). *)

With(f, x, v) == [y \in DOMAIN f \cup {x} |-> IF y = x THEN v ELSE f[y]]
Without(f, S) == Restrict(f, DOMAIN f \ S)

-----------------------------------------------------------------------------
(* The private methods, as functions of the object m. *)

ConsumersOf(m, k) == {h \in DOMAIN m.subscribers : m.subscribers[h].key = k}

\* desiredRateFor(): the highest rate any live consumer asked for.
DesiredRate(m, k) ==
  IF ConsumersOf(m, k) = {} THEN 0
  ELSE Max({m.subscribers[h].rate : h \in ConsumersOf(m, k)})

\* The sending half of sendSubscribe(), for several topics in the order the
\* caller's loop meets them. Every key of order has a known boot.
Request(m, boots, order) ==
  LET n == Len(order)
      asked == {order[i] : i \in 1..n}
      seqOf(k) == m.nextSequence - 1 + (CHOOSE i \in 1..n : order[i] = k)
  IN [m EXCEPT
        !.topics = [k \in DOMAIN m.topics |->
           IF k \in asked
             THEN [m.topics[k] EXCEPT !.targetBootId = boots[SourceOf(k)],
                                      !.sentRate = DesiredRate(m, k),
                                      !.inFlightSequence = seqOf(k),
                                      !.deferredForBootId = FALSE]
             ELSE m.topics[k]],
        !.pendingSubscribes =
           [q \in DOMAIN m.pendingSubscribes
                    \cup m.nextSequence..(m.nextSequence + n - 1) |->
              IF q \in DOMAIN m.pendingSubscribes THEN m.pendingSubscribes[q]
              ELSE order[q - m.nextSequence + 1]],
        !.nextSequence = @ + n,
        !.out = @ \o [i \in 1..n |->
           [type |-> "SUBSCRIBE", seq |-> m.nextSequence + i - 1,
            key |-> order[i], boot |-> boots[SourceOf(order[i])],
            rate |-> DesiredRate(m, order[i])]]]

\* The early return of sendSubscribe(): the boot is unknown, hold the request.
Defer(m, K) ==
  [m EXCEPT !.topics = [k \in DOMAIN m.topics |->
     IF k \in K THEN [m.topics[k] EXCEPT !.deferredForBootId = TRUE]
     ELSE m.topics[k]]]

SendSubscribe(m, boots, k) ==
  IF boots[SourceOf(k)] = 0 THEN Defer(m, {k}) ELSE Request(m, boots, <<k>>)

\* The same call in a loop over the topics K. A QHash is iterated in no
\* particular order: an order is any enumeration of the topics with a boot.
Known(boots, K) == {k \in K : boots[SourceOf(k)] # 0}
Orders(boots, K) == Bijection(1..Cardinality(Known(boots, K)), Known(boots, K))
SendSubscribes(m, boots, K, order) ==
  Request(Defer(m, K \ Known(boots, K)), boots, order)

\* Mistake: the sequence is not consumed.
SendUnsubscribeReusingSequence(m, k) ==
  [m EXCEPT !.pendingUnsubscribes = With(m.pendingUnsubscribes, m.nextSequence, k)]

SendUnsubscribe(m, k) ==
  [m EXCEPT
     !.pendingUnsubscribes = With(m.pendingUnsubscribes, m.nextSequence, k),
     !.nextSequence = @ + 1,
     !.out = Append(@, [type |-> "UNSUBSCRIBE", seq |-> m.nextSequence, key |-> k,
                        boot |-> m.topics[k].targetBootId,
                        id |-> m.topics[k].subscriptionId])]

\* Mistake: the grant is forgotten before the frame that names it is built.
ReleaseForgettingFirst(m, k) ==
  SendUnsubscribe([m EXCEPT !.topics[k] = [@ EXCEPT !.subscriptionId = 0, !.sentRate = 0]], k)

\* An UNSUBSCRIBE goes out only together with forgetting the grant.
Release(m, k) ==
  [SendUnsubscribe(m, k) EXCEPT
     !.topics[k] = [@ EXCEPT !.subscriptionId = 0, !.sentRate = 0]]

Idle(m, k) == /\ m.topics[k].inFlightSequence = 0
              /\ m.topics[k].subscriptionId = 0
              /\ ConsumersOf(m, k) = {}

DropIfIdle(m, K) ==
  [m EXCEPT !.topics = Without(m.topics, {k \in K \cap DOMAIN m.topics : Idle(m, k)})]

\* Mistake: only a higher demand is sent.
NeedsSubscribeWhenHigher(m, k) ==
  LET t == m.topics[k]
  IN /\ ConsumersOf(m, k) # {}
     /\ \/ DesiredRate(m, k) > t.sentRate
        \/ t.subscriptionId = 0 /\ t.inFlightSequence = 0

\* Mistake: a request on its way is not taken into account.
NeedsSubscribeUntilGranted(m, k) ==
  /\ ConsumersOf(m, k) # {}
  /\ \/ DesiredRate(m, k) # m.topics[k].sentRate
     \/ m.topics[k].subscriptionId = 0

NeedsSubscribe(m, k) ==
  LET t == m.topics[k]
  IN /\ ConsumersOf(m, k) # {}
     /\ \/ DesiredRate(m, k) # t.sentRate
        \/ t.subscriptionId = 0 /\ t.inFlightSequence = 0

SyncTopic(m, boots, k) ==
  IF k \notin DOMAIN m.topics THEN m
  ELSE IF ConsumersOf(m, k) = {}
    THEN LET m1 == [m EXCEPT !.topics[k].deferredForBootId = FALSE]
         IN DropIfIdle(IF m.topics[k].subscriptionId # 0 THEN Release(m1, k) ELSE m1, {k})
  ELSE IF NeedsSubscribe(m, k) THEN SendSubscribe(m, boots, k)
  ELSE m

\* syncTopic() in a loop over topics K that hold no grant.
ToRequest(m, K) == {k \in K : NeedsSubscribe(m, k)}
SyncTopics(m, boots, K, order) ==
  SendSubscribes(DropIfIdle(m, K), boots, ToRequest(m, K), order)

\* What a session change or a reboot of the source makes of a topic.
Forget(t) == [t EXCEPT !.subscriptionId = 0, !.sentRate = 0,
                       !.inFlightSequence = 0, !.deferredForBootId = FALSE]

AddConsumer(m, boots, k, r) ==
  LET m1 == [m EXCEPT
               !.subscribers = With(m.subscribers, m.nextHandle, [key |-> k, rate |-> r]),
               !.nextHandle = @ + 1,
               !.topics = IF k \in DOMAIN m.topics THEN m.topics
                          ELSE With(m.topics, k, NewTopic)]
  IN SyncTopic(m1, boots, k)

RemoveConsumer(m, boots, h) ==
  SyncTopic([m EXCEPT !.subscribers = Without(m.subscribers, {h})],
            boots, m.subscribers[h].key)

-----------------------------------------------------------------------------
Init ==
  /\ mgr = [subscribers |-> <<>>, topics |-> <<>>,
            pendingSubscribes |-> <<>>, pendingUnsubscribes |-> <<>>,
            nextSequence |-> 1, nextHandle |-> 1, out |-> <<>>]
  /\ sourceBootId = [s \in Source |-> 0]
  /\ sessionUp = FALSE

\* The object at the start of a handler.
Now == [mgr EXCEPT !.out = <<>>]

(* Calls from the user interface. *)

AddSubscriber(k, r) ==
  /\ mgr' = AddConsumer(Now, sourceBootId, k, r)
  /\ UNCHANGED <<sourceBootId, sessionUp>>

RemoveSubscriber(h) ==
  /\ h \in DOMAIN mgr.subscribers
  /\ mgr' = RemoveConsumer(Now, sourceBootId, h)
  /\ UNCHANGED <<sourceBootId, sessionUp>>

UpdateSubscriber(h, k, r) ==
  /\ h \in DOMAIN mgr.subscribers
  /\ mgr.subscribers[h] # [key |-> k, rate |-> r]
  /\ mgr' = AddConsumer(RemoveConsumer(Now, sourceBootId, h), sourceBootId, k, r)
  /\ UNCHANGED <<sourceBootId, sessionUp>>

(* Frames from the wire. A result whose sequence is not pending is ignored. *)

Answered(m, k, status, id) ==
  LET granted == status = "SUCCESS" /\ id # 0
  IN [m EXCEPT !.topics[k] =
        [@ EXCEPT !.inFlightSequence = 0,
                  !.lastStatus = status,
                  !.subscriptionId = IF granted THEN id ELSE 0,
                  !.sentRate = IF granted THEN m.topics[k].sentRate ELSE 0]]

\* Mistake: whatever happened to the consumers meanwhile is ignored.
ReconcileNothing(m, boots, k) == m

\* Mistake: a refusal is answered by asking again.
ReconcileRefusal(m, boots, k) ==
  IF ConsumersOf(m, k) = {} THEN DropIfIdle(m, {k})
  ELSE IF m.topics[k].subscriptionId = 0 THEN SendSubscribe(m, boots, k)
  ELSE m

\* The consumers may have changed while the request was on the wire.
Reconcile(m, boots, k) ==
  LET t == m.topics[k]
  IN IF ConsumersOf(m, k) = {}
       THEN DropIfIdle(IF t.subscriptionId # 0 THEN Release(m, k) ELSE m, {k})
     ELSE IF t.subscriptionId # 0 /\ DesiredRate(m, k) # t.sentRate
       THEN SendSubscribe(m, boots, k)
     ELSE m

HandleSubscribeResult(m, boots, seq, status, id) ==
  LET k == m.pendingSubscribes[seq]
      m1 == [m EXCEPT !.pendingSubscribes = Without(m.pendingSubscribes, {seq})]
  IN IF k \notin DOMAIN m.topics THEN m1
     ELSE IF m.topics[k].inFlightSequence # seq THEN m1   \* superseded
     ELSE Reconcile(Answered(m1, k, status, id), boots, k)

SubscribeResult(seq, status, id) ==
  /\ seq \in DOMAIN mgr.pendingSubscribes
  /\ mgr' = HandleSubscribeResult(Now, sourceBootId, seq, status, id)
  /\ UNCHANGED <<sourceBootId, sessionUp>>

UnsubscribeResult(seq) ==
  /\ seq \in DOMAIN mgr.pendingUnsubscribes
  /\ LET k == mgr.pendingUnsubscribes[seq]
     IN mgr' = DropIfIdle([Now EXCEPT !.pendingUnsubscribes =
                             Without(mgr.pendingUnsubscribes, {seq})], {k})
  /\ UNCHANGED <<sourceBootId, sessionUp>>

(* The one-second timer. late: topics whose SUBSCRIBE has waited longer     *)
(* than kSubscribePendingTimeoutMs; due: grants at their renewal deadline.  *)

InFlightTopics == {k \in DOMAIN mgr.topics : mgr.topics[k].inFlightSequence # 0}
RenewableTopics == {k \in DOMAIN mgr.topics : /\ mgr.topics[k].inFlightSequence = 0
                                              /\ mgr.topics[k].subscriptionId # 0
                                              /\ ConsumersOf(mgr, k) # {}}

\* Mistake: the correlation is dropped and the topic still waits for it.
GiveUpStillWaiting(m, late) ==
  [m EXCEPT !.pendingSubscribes = Without(m.pendingSubscribes,
                                    {m.topics[k].inFlightSequence : k \in late})]

GiveUp(m, late) ==
  [m EXCEPT
     !.pendingSubscribes = Without(m.pendingSubscribes,
                                   {m.topics[k].inFlightSequence : k \in late}),
     !.topics = [k \in DOMAIN m.topics |->
        IF k \in late THEN [m.topics[k] EXCEPT !.inFlightSequence = 0] ELSE m.topics[k]]]

\* Mistake: only a lost renewal is retried, not a lost first request.
ToRetryRenewals(late) == {k \in late : mgr.topics[k].subscriptionId # 0}

ToRetry(late) == {k \in late : ConsumersOf(mgr, k) # {}}

RenewDueSubscriptions(late, due) ==
  /\ late \subseteq InFlightTopics
  /\ due \subseteq RenewableTopics
  /\ LET m == DropIfIdle(GiveUp(Now, late), late)
         again == ToRetry(late) \cup due
     IN \E order \in Orders(sourceBootId, again) :
          mgr' = SendSubscribes(m, sourceBootId, again, order)
  /\ UNCHANGED <<sourceBootId, sessionUp>>

(* Session and source events, called by BtpBackend. *)

ForgetAll(m) ==
  [m EXCEPT !.pendingSubscribes = <<>>, !.pendingUnsubscribes = <<>>,
            !.topics = [k \in DOMAIN m.topics |-> Forget(m.topics[k])]]

OnSessionEstablished(m, boots) ==
  LET m1 == ForgetAll(m)
      K == DOMAIN m.topics
  IN \E order \in Orders(boots, ToRequest(m1, K)) : mgr' = SyncTopics(m1, boots, K, order)

SessionEstablished ==
  /\ OnSessionEstablished(Now, sourceBootId)
  /\ sessionUp' = TRUE
  /\ UNCHANGED sourceBootId

\* A direct session: HELLO_RESULT names the peer and its current boot, which
\* reaches the catalog before the subscriptions are asserted again.
DirectSessionEstablished(s, b) ==
  /\ sourceBootId' = [sourceBootId EXCEPT ![s] = b]
  /\ OnSessionEstablished(Now, sourceBootId')
  /\ sessionUp' = TRUE

SessionLost ==
  /\ mgr' = DropIfIdle(ForgetAll(Now), DOMAIN mgr.topics)
  /\ sessionUp' = FALSE
  /\ UNCHANGED sourceBootId

TopicsOf(s) == {k \in DOMAIN mgr.topics : SourceOf(k) = s}

\* Mistake: the grant of the old boot survives.
ForgetSourceKeepingGrant(m, K) ==
  LET gone(f) == {q \in DOMAIN f : f[q] \in K}
  IN [m EXCEPT
        !.topics = [k \in DOMAIN m.topics |->
           IF k \in K THEN [m.topics[k] EXCEPT !.inFlightSequence = 0, !.sentRate = 0]
           ELSE m.topics[k]],
        !.pendingSubscribes = Without(m.pendingSubscribes, gone(m.pendingSubscribes))]

ForgetSource(m, K) ==
  LET gone(f) == {q \in DOMAIN f : f[q] \in K}
  IN [m EXCEPT
        !.topics = [k \in DOMAIN m.topics |->
           IF k \in K THEN [Forget(m.topics[k]) EXCEPT !.targetBootId = 0]
           ELSE m.topics[k]],
        !.pendingSubscribes = Without(m.pendingSubscribes, gone(m.pendingSubscribes)),
        !.pendingUnsubscribes = Without(m.pendingUnsubscribes, gone(m.pendingUnsubscribes))]

\* One MANIFEST_DATA: applyManifest() registers the boot, then the
\* sourceDescribed handler calls onPeerRebooted() when it sees a reboot, then
\* catalogUpdated reaches onCatalogUpdated(), which syncs the held topics.
Deferred(m) == {k \in DOMAIN m.topics : m.topics[k].deferredForBootId}

ManifestData(s, b, rebooted) ==
  LET boots == [sourceBootId EXCEPT ![s] = b]
      m1 == IF rebooted THEN ForgetSource(Now, TopicsOf(s)) ELSE Now
      K == (IF rebooted THEN TopicsOf(s) ELSE {}) \cup Deferred(m1)
  IN /\ sourceBootId' = boots
     /\ \E order \in Orders(boots, ToRequest(m1, K)) :
          mgr' = SyncTopics(m1, boots, K, order)
     /\ UNCHANGED sessionUp

PeerReconnected(s) ==
  LET K == {k \in TopicsOf(s) : ConsumersOf(mgr, k) # {}}
      m1 == [Now EXCEPT
               !.topics = [k \in DOMAIN mgr.topics |->
                  IF k \in K THEN [mgr.topics[k] EXCEPT !.inFlightSequence = 0]
                  ELSE mgr.topics[k]],
               !.pendingSubscribes = Without(mgr.pendingSubscribes,
                  {q \in DOMAIN mgr.pendingSubscribes : mgr.pendingSubscribes[q] \in K})]
  IN /\ \E order \in Orders(sourceBootId, K) :
          mgr' = SendSubscribes(m1, sourceBootId, K, order)
     /\ UNCHANGED <<sourceBootId, sessionUp>>

Next ==
  \/ \E k \in Key, r \in Rate : AddSubscriber(k, r)
  \/ \E h \in DOMAIN mgr.subscribers : RemoveSubscriber(h)
  \/ \E h \in DOMAIN mgr.subscribers, k \in Key, r \in Rate : UpdateSubscriber(h, k, r)
  \/ \E seq \in DOMAIN mgr.pendingSubscribes, status \in Status,
        id \in SubscriptionId \cup {0} : SubscribeResult(seq, status, id)
  \/ \E seq \in DOMAIN mgr.pendingUnsubscribes : UnsubscribeResult(seq)
  \/ \E late \in SUBSET InFlightTopics, due \in SUBSET RenewableTopics :
        RenewDueSubscriptions(late, due)
  \/ SessionEstablished
  \/ SessionLost
  \/ \E s \in Source, b \in BootId : DirectSessionEstablished(s, b)
  \/ \E s \in Source, b \in BootId, rebooted \in BOOLEAN : ManifestData(s, b, rebooted)
  \/ \E s \in Source : PeerReconnected(s)

Spec == Init /\ [][Next]_vars

-----------------------------------------------------------------------------
(* The object has the shape its class declares, finite maps included. *)

Members == {"subscribers", "topics", "pendingSubscribes", "pendingUnsubscribes",
            "nextSequence", "nextHandle", "out"}

ManagerOK(m) ==
  /\ DOMAIN m = Members
  /\ m.subscribers \in [DOMAIN m.subscribers -> [key : Key, rate : Rate]]
  /\ m.topics \in [DOMAIN m.topics -> Topic]
  /\ m.pendingSubscribes \in [DOMAIN m.pendingSubscribes -> Key]
  /\ m.pendingUnsubscribes \in [DOMAIN m.pendingUnsubscribes -> Key]
  /\ m.nextHandle \in Nat \ {0}
  /\ m.nextSequence \in Nat \ {0}
  /\ DOMAIN m.subscribers \subseteq 1..(m.nextHandle - 1)
  /\ DOMAIN m.topics \subseteq Key
  /\ DOMAIN m.pendingSubscribes \subseteq 1..(m.nextSequence - 1)
  /\ DOMAIN m.pendingUnsubscribes \subseteq 1..(m.nextSequence - 1)
  /\ m.out \in Seq(Frame)

\* The type of the object, of the catalog's boots and of the session flag.
TypeOK ==
  /\ ManagerOK(mgr)
  /\ sourceBootId \in [Source -> BootId \cup {0}]
  /\ sessionUp \in BOOLEAN

\* A topic that waits for an answer can recognise it: its newest request is in
\* m_pendingSubscribes under its own key, whatever timeouts, superseding
\* requests, reboots and session changes happened since. Without the entry
\* handleSubscribeResult() drops the grant and the topic waits for the timer.
InFlightIsPending ==
  \A k \in DOMAIN mgr.topics :
    LET q == mgr.topics[k].inFlightSequence
    IN q # 0 => q \in DOMAIN mgr.pendingSubscribes /\ mgr.pendingSubscribes[q] = k

\* Reference counting (subscriptionmanager.h:29-37): every consumer has a topic
\* entry, and no grant outlives its last consumer, also when that consumer left
\* while the SUBSCRIBE was on the wire.
CountedGrants ==
  /\ \A h \in DOMAIN mgr.subscribers : mgr.subscribers[h].key \in DOMAIN mgr.topics
  /\ \A k \in DOMAIN mgr.topics :
       mgr.topics[k].subscriptionId # 0 => ConsumersOf(mgr, k) # {}

\* The wire carries the highest rate any live consumer asked for: a topic that
\* is granted or asked for, and not held back for its boot, was last asked for
\* at exactly that rate, however its consumers came and went meanwhile.
DemandOnTheWire ==
  \A k \in DOMAIN mgr.topics :
    LET t == mgr.topics[k]
    IN /\ t.subscriptionId # 0 \/ t.inFlightSequence # 0
       /\ ConsumersOf(mgr, k) # {}
       /\ ~t.deferredForBootId
       => t.sentRate = DesiredRate(mgr, k)

\* While a session is up no consumer is forgotten: its topic is granted, asked
\* for, or held until a manifest names the boot, unless the source refused it.
\* A refused topic remembers no rate, so that the next change asks again.
NoConsumerForgotten ==
  sessionUp => \A h \in DOMAIN mgr.subscribers :
    LET t == mgr.topics[mgr.subscribers[h].key]
    IN \/ t.subscriptionId # 0
       \/ t.inFlightSequence # 0
       \/ t.deferredForBootId
       \/ t.lastStatus # "NONE" /\ t.sentRate = 0

\* A grant is given up only on the wire: when the manager stops holding a grant
\* of a live session, this step sent UNSUBSCRIBE with the grant's identity and
\* the boot that was asked, or the source itself refused or rebooted.
GrantHeld(m, k) == k \in DOMAIN m.topics /\ m.topics[k].subscriptionId # 0
GrantsLeaveOnTheWire ==
  [][ \A k \in DOMAIN mgr.topics :
        GrantHeld(mgr, k) /\ ~GrantHeld(mgr', k) =>
          \/ \E i \in DOMAIN mgr'.out :
               /\ mgr'.out[i].type = "UNSUBSCRIBE"
               /\ mgr'.out[i].key = k
               /\ mgr'.out[i].id = mgr.topics[k].subscriptionId
               /\ mgr'.out[i].boot = mgr.topics[k].targetBootId
          \/ \E q \in DOMAIN mgr.pendingSubscribes :
               SubscribeResult(q, "REJECTED", 0) \/ SubscribeResult(q, "SUCCESS", 0)
          \/ SessionEstablished \/ SessionLost
          \/ \E b \in BootId : \/ \E s \in Source : DirectSessionEstablished(s, b)
                               \/ ManifestData(SourceOf(k), b, TRUE)
    ]_vars

\* Sharing is silent (subscriptionmanager.h:31-36): a consumer that joins or
\* leaves a topic whose granted or requested rate still is the highest wanted
\* puts nothing on the wire.
Served(m, k) == /\ k \in DOMAIN m.topics
                /\ m.topics[k].subscriptionId # 0 \/ m.topics[k].inFlightSequence # 0
                /\ ~m.topics[k].deferredForBootId
                /\ ConsumersOf(m, k) # {}
SharingIsSilent ==
  [][ /\ \A k \in Key, r \in Rate :
           Served(mgr, k) /\ r <= DesiredRate(mgr, k) /\ AddSubscriber(k, r) => mgr'.out = <<>>
      /\ \A h \in DOMAIN mgr.subscribers :
           LET k == mgr.subscribers[h].key
           IN /\ Served(mgr, k)
              /\ RemoveSubscriber(h)
              /\ DesiredRate(mgr', k) = DesiredRate(mgr, k)
              => mgr'.out = <<>>
    ]_vars
=============================================================================
