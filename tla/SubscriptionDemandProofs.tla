---------------------- MODULE SubscriptionDemandProofs ----------------------
(***************************************************************************)
(* That the wire says what the widgets want, for every set of sources,     *)
(* topics and boots, every highest rate and every number of consumers.     *)
(*                                                                         *)
(* A topic that is wanted was asked for at the rate wanted, or is known    *)
(* not to be.  In the middle of a handler that is false of the topics the  *)
(* handler has still to sync, so the invariant is a predicate of the       *)
(* object with an exception, as in SubscriptionManagerProofs: one lemma    *)
(* per private method says which exceptions it settles, which grants it    *)
(* gives up, and what it adds to the frames sent.                          *)
(***************************************************************************)
EXTENDS SubscriptionManagerProofs

\* What is known of a wanted topic t: granted, asked for, held back, refused.
Asked(t) ==
  \/ t.subscriptionId # 0
  \/ t.inFlightSequence # 0
  \/ t.deferredForBootId
  \/ t.lastStatus # "NONE" /\ t.sentRate = 0

\* The request for t that counts was made at rate r.
AtRate(t, r) ==
  /\ t.subscriptionId # 0 \/ t.inFlightSequence # 0
  /\ ~t.deferredForBootId
  => t.sentRate = r

\* Every wanted topic, but those of E, is asked for at the rate wanted; up says
\* whether there is a session that it can have been asked in.
DemandExcept(m, up, E) ==
  \A k \in DOMAIN m.topics \ E :
    ConsumersOf(m, k) # {} =>
      /\ AtRate(m.topics[k], DesiredRate(m, k))
      /\ up => Asked(m.topics[k])

\* Frames only join the end of what a handler sends.
Appends(m, n) ==
  /\ Len(m.out) <= Len(n.out)
  /\ \A i \in 1 .. Len(m.out) : n.out[i] = m.out[i]

\* m becomes n, and no grant is given up.
KeepsGrants(m, n) ==
  /\ \A k : GrantHeld(m, k) => GrantHeld(n, k)
  /\ Appends(m, n)

\* The frames of m contain the end of the grant that topic k has in t.
Said(m, k, t) ==
  \E i \in DOMAIN m.out :
    /\ m.out[i].type = "UNSUBSCRIBE"
    /\ m.out[i].key = k
    /\ m.out[i].id = t.subscriptionId
    /\ m.out[i].boot = t.targetBootId

\* m becomes n, and a grant that is given up is given up on the wire.
LeavesOnTheWire(m, n) ==
  /\ \A k : GrantHeld(m, k) => GrantHeld(n, k) \/ Said(n, k, m.topics[k])
  /\ Appends(m, n)

-----------------------------------------------------------------------------
(* Frames. *)

\* The frames of an object are a finite sequence.
LEMMA OutLen ==
  ASSUME NEW m, Good(m)
  PROVE  Len(m.out) \in Nat /\ DOMAIN m.out = 1 .. Len(m.out)
BY DEF Good, ManagerOK

\* What was sent stays sent.
LEMMA AppendsChain ==
  ASSUME NEW m, NEW n, NEW o, Good(m), Good(n), Good(o), Appends(m, n), Appends(n, o)
  PROVE  Appends(m, o)
<1>1. Len(m.out) \in Nat /\ Len(n.out) \in Nat /\ Len(o.out) \in Nat
  BY OutLen
<1> QED
  BY <1>1 DEF Appends

\* No grant is lost in two steps that lose none.
LEMMA KeepsChain ==
  ASSUME NEW m, NEW n, NEW o, Good(m), Good(n), Good(o), KeepsGrants(m, n), KeepsGrants(n, o)
  PROVE  KeepsGrants(m, o)
BY AppendsChain DEF KeepsGrants

\* What was said stays said.
LEMMA SaidStays ==
  ASSUME NEW n, NEW o, Good(n), Good(o), Appends(n, o), NEW k, NEW t, Said(n, k, t)
  PROVE  Said(o, k, t)
<1>1. /\ Len(n.out) \in Nat /\ DOMAIN n.out = 1 .. Len(n.out)
      /\ Len(o.out) \in Nat /\ DOMAIN o.out = 1 .. Len(o.out)
  BY OutLen
<1>2. PICK i \in DOMAIN n.out : /\ n.out[i].type = "UNSUBSCRIBE"
                                /\ n.out[i].key = k
                                /\ n.out[i].id = t.subscriptionId
                                /\ n.out[i].boot = t.targetBootId
  BY DEF Said
<1>3. i \in DOMAIN o.out /\ o.out[i] = n.out[i]
  BY <1>1, <1>2 DEF Appends
<1> QED
  BY <1>2, <1>3 DEF Said

\* A handler that gives up grants on the wire may go on without giving up any.
LEMMA LeavesThenKeeps ==
  ASSUME NEW m, NEW n, NEW o, Good(m), Good(n), Good(o),
         LeavesOnTheWire(m, n), KeepsGrants(n, o)
  PROVE  LeavesOnTheWire(m, o)
<1>1. Appends(n, o) /\ Appends(m, o)
  BY AppendsChain DEF LeavesOnTheWire, KeepsGrants
<1>2. ASSUME NEW k, GrantHeld(m, k)
      PROVE  GrantHeld(o, k) \/ Said(o, k, m.topics[k])
  <2>1. GrantHeld(n, k) \/ Said(n, k, m.topics[k])
    BY <1>2 DEF LeavesOnTheWire
  <2>2. CASE GrantHeld(n, k)
    BY <2>2 DEF KeepsGrants
  <2>3. CASE Said(n, k, m.topics[k])
    BY <1>1, <2>3, SaidStays
  <2> QED
    BY <2>1, <2>2, <2>3
<1> QED
  BY <1>1, <1>2 DEF LeavesOnTheWire

\* Giving up nothing is giving up on the wire.
LEMMA KeepsLeaves ==
  ASSUME NEW m, NEW n, KeepsGrants(m, n)
  PROVE  LeavesOnTheWire(m, n)
BY DEF KeepsGrants, LeavesOnTheWire

\* The rate wanted depends on the consumers only.
LEMMA SameDemand ==
  ASSUME NEW m, NEW n, n.subscribers = m.subscribers
  PROVE  \A k : /\ ConsumersOf(n, k) = ConsumersOf(m, k)
                /\ DesiredRate(n, k) = DesiredRate(m, k)
<1> SUFFICES ASSUME NEW k
             PROVE  /\ ConsumersOf(n, k) = ConsumersOf(m, k)
                    /\ DesiredRate(n, k) = DesiredRate(m, k)
  OBVIOUS
<1>1. ConsumersOf(n, k) = ConsumersOf(m, k)
  BY DEF ConsumersOf
<1> QED
  BY <1>1 DEF DesiredRate

\* A topic whose record is the same is asked for as it was; one that nobody wants
\* need not be.
LEMMA DemandMoves ==
  ASSUME NEW m, NEW n, NEW up, NEW E, NEW F, DemandExcept(m, up, E),
         n.subscribers = m.subscribers,
         \A k \in DOMAIN n.topics \ F :
            \/ k \in DOMAIN m.topics \ E /\ n.topics[k] = m.topics[k]
            \/ Asked(n.topics[k]) /\ AtRate(n.topics[k], DesiredRate(m, k))
            \/ ConsumersOf(m, k) = {}
  PROVE  DemandExcept(n, up, F)
<1>1. \A k : ConsumersOf(n, k) = ConsumersOf(m, k) /\ DesiredRate(n, k) = DesiredRate(m, k)
  BY SameDemand
<1> SUFFICES ASSUME NEW k \in DOMAIN n.topics \ F, ConsumersOf(n, k) # {}
             PROVE  /\ AtRate(n.topics[k], DesiredRate(n, k))
                    /\ up => Asked(n.topics[k])
  BY DEF DemandExcept
<1> QED
  BY <1>1 DEF DemandExcept

-----------------------------------------------------------------------------
(* sendSubscribe(). *)

\* A topic that is held back is known not to be asked for.
LEMMA DeferDemand ==
  ASSUME NEW m, Good(m), NEW K
  PROVE  LET n == Defer(m, K)
         IN /\ n.out = m.out
            /\ \A k \in DOMAIN m.topics :
                 /\ n.topics[k].subscriptionId = m.topics[k].subscriptionId
                 /\ k \in K => n.topics[k].deferredForBootId
                 /\ k \notin K => n.topics[k] = m.topics[k]
<1> DEFINE n == Defer(m, K)
<1>1. /\ n.topics = [k \in DOMAIN m.topics |->
            IF k \in K THEN [m.topics[k] EXCEPT !.deferredForBootId = TRUE] ELSE m.topics[k]]
      /\ n.out = m.out
  BY DEF Good, ManagerOK, Members, Defer
<1> HIDE DEF n
<1>2. \A k \in DOMAIN m.topics :
         /\ n.topics[k].subscriptionId = m.topics[k].subscriptionId
         /\ k \in K => n.topics[k].deferredForBootId
         /\ k \notin K => n.topics[k] = m.topics[k]
  <2> TAKE k \in DOMAIN m.topics
  <2>1. m.topics[k] \in Topic
    BY DEF Good, ManagerOK
  <2> QED
    BY <1>1, <2>1 DEF Topic
<1> QED
  BY <1>1, <1>2 DEF n

\* m becomes r by asking for the n topics of order.
Requested(m, r, n, order) ==
  /\ Len(r.out) = Len(m.out) + n
  /\ \A i \in 1 .. Len(m.out) : r.out[i] = m.out[i]
  /\ \A k \in DOMAIN m.topics :
       /\ r.topics[k].subscriptionId = m.topics[k].subscriptionId
       /\ (\E i \in 1..n : order[i] = k) =>
             /\ r.topics[k].inFlightSequence # 0
             /\ r.topics[k].sentRate = DesiredRate(m, k)
       /\ (\A i \in 1..n : order[i] # k) => r.topics[k] = m.topics[k]

\* A topic that is asked for waits for an answer, at the rate wanted.
LEMMA RequestDemand ==
  ASSUME NEW m, Good(m), NEW boots \in Boots,
         NEW n \in Nat, NEW order \in [1..n -> DOMAIN m.topics]
  PROVE  Requested(m, Request(m, boots, order), n, order)
<1> DEFINE r == Request(m, boots, order)
           asked == {order[i] : i \in 1..n}
           index(k) == CHOOSE i \in 1..n : order[i] = k
           seqOf(k) == m.nextSequence - 1 + index(k)
           frame(i) == [type |-> "SUBSCRIBE", seq |-> m.nextSequence + i - 1,
                        key |-> order[i], boot |-> boots[SourceOf(order[i])],
                        rate |-> DesiredRate(m, order[i])]
           asking(k) == [m.topics[k] EXCEPT !.targetBootId = boots[SourceOf(k)],
                                            !.sentRate = DesiredRate(m, k),
                                            !.inFlightSequence = seqOf(k),
                                            !.deferredForBootId = FALSE]
<1>1. Len(order) = n
  OBVIOUS
<1>2. r.topics = [k \in DOMAIN m.topics |-> IF k \in asked THEN asking(k) ELSE m.topics[k]]
  BY <1>1 DEF Request, Good, ManagerOK, Members
<1>3. r.out = m.out \o [i \in 1..n |-> frame(i)]
  BY <1>1 DEF Request, Good, ManagerOK, Members
<1> HIDE DEF r
<1>4. m.out \in Seq(Frame) /\ m.nextSequence \in Nat \ {0}
  BY DEF Good, ManagerOK
<1> DEFINE frames == {frame(i) : i \in 1..n}
<1>50. \A i \in 1..n : frame(i) \in frames
  OBVIOUS
<1> HIDE DEF frame, frames
<1>5. [i \in 1..n |-> frame(i)] \in Seq(frames)
  BY <1>50
<1>6. Len(r.out) = Len(m.out) + n /\ \A i \in 1 .. Len(m.out) : r.out[i] = m.out[i]
  BY <1>3, <1>4, <1>5
<1>7. ASSUME NEW k \in DOMAIN m.topics
      PROVE  /\ r.topics[k].subscriptionId = m.topics[k].subscriptionId
             /\ (\E i \in 1..n : order[i] = k) =>
                   /\ r.topics[k].inFlightSequence # 0
                   /\ r.topics[k].sentRate = DesiredRate(m, k)
             /\ (\A i \in 1..n : order[i] # k) => r.topics[k] = m.topics[k]
  <2>1. m.topics[k] \in Topic
    BY DEF Good, ManagerOK
  <2>2. CASE k \in asked
    <3>1. index(k) \in 1..n
      BY <2>2
    <3> HIDE DEF index
    <3>2. seqOf(k) # 0
      BY <1>4, <3>1
    <3> HIDE DEF seqOf
    <3>3. r.topics[k] = asking(k)
      BY <1>2, <2>2
    <3>4. /\ asking(k).subscriptionId = m.topics[k].subscriptionId
          /\ asking(k).inFlightSequence = seqOf(k)
          /\ asking(k).sentRate = DesiredRate(m, k)
      BY <2>1 DEF Topic
    <3> HIDE DEF asking
    <3> QED
      BY <2>2, <3>2, <3>3, <3>4
  <2>3. CASE k \notin asked
    BY <1>2, <2>3
  <2> QED
    BY <2>2, <2>3
<1> QED
  BY <1>6, <1>7 DEF r, Requested

\* Every topic whose boot is known is in the order of the loop.
LEMMA OrdersOnto ==
  ASSUME NEW K \in SUBSET Key, NEW boots, NEW order \in Orders(boots, K)
  PROVE  \E n \in Nat : /\ order \in [1..n -> Known(boots, K)]
                        /\ \A k \in Known(boots, K) : \E i \in 1..n : order[i] = k
<1>1. PICK n \in Nat : order \in [1..n -> Known(boots, K)]
  BY OrdersType
<1>2. \A k \in Known(boots, K) : \E i \in DOMAIN order : order[i] = k
  BY DEF Orders, Bijection, Surjection
<1> QED
  BY <1>1, <1>2

\* sendSubscribe() in a loop puts right the topics of the loop.
LEMMA SendSubscribesDemand ==
  ASSUME NEW m, Good(m), NEW boots \in Boots,
         NEW K \in SUBSET DOMAIN m.topics, \A k \in K : ConsumersOf(m, k) # {},
         NEW order \in Orders(boots, K)
  PROVE  LET n == SendSubscribes(m, boots, K, order)
         IN /\ KeepsGrants(m, n)
            /\ \A up, E : DemandExcept(m, up, E) => DemandExcept(n, up, E \ K)
<1> DEFINE d == Defer(m, K \ Known(boots, K))
           n == SendSubscribes(m, boots, K, order)
<1>1. Good(d) /\ Follows(m, d)
  BY DeferOK
<1>2. Good(n) /\ Follows(m, n)
  BY SendSubscribesOK
<1>3. /\ d.out = m.out
      /\ \A k \in DOMAIN m.topics :
           /\ d.topics[k].subscriptionId = m.topics[k].subscriptionId
           /\ k \in K \ Known(boots, K) => d.topics[k].deferredForBootId
           /\ k \notin K \ Known(boots, K) => d.topics[k] = m.topics[k]
  BY DeferDemand
<1>4. PICK l \in Nat : /\ order \in [1..l -> Known(boots, K)]
                       /\ \A k \in Known(boots, K) : \E i \in 1..l : order[i] = k
  BY OrdersOnto DEF Good, ManagerOK
<1>5. DOMAIN d.topics = DOMAIN m.topics /\ d.subscribers = m.subscribers
      /\ DOMAIN n.topics = DOMAIN m.topics /\ n.subscribers = m.subscribers
  BY <1>1, <1>2 DEF Follows
<1>6. n = Request(d, boots, order)
  BY DEF SendSubscribes
<1> HIDE DEF d, n
<1>7. order \in [1..l -> DOMAIN d.topics]
  BY <1>4, <1>5 DEF Known
<1>8. /\ Len(n.out) = Len(d.out) + l
      /\ \A i \in 1 .. Len(d.out) : n.out[i] = d.out[i]
      /\ \A k \in DOMAIN d.topics :
           /\ n.topics[k].subscriptionId = d.topics[k].subscriptionId
           /\ (\E i \in 1..l : order[i] = k) =>
                 /\ n.topics[k].inFlightSequence # 0
                 /\ n.topics[k].sentRate = DesiredRate(d, k)
           /\ (\A i \in 1..l : order[i] # k) => n.topics[k] = d.topics[k]
  <2>1. Requested(d, n, l, order)
    BY <1>1, <1>6, <1>7, RequestDemand
  <2> QED
    BY <2>1 DEF Requested
<1>9. Len(m.out) \in Nat
  BY OutLen
<1>10. KeepsGrants(m, n)
  BY <1>3, <1>5, <1>8, <1>9 DEF KeepsGrants, Appends, GrantHeld
<1>11. \A k : DesiredRate(d, k) = DesiredRate(m, k)
  BY <1>5, SameDemand
<1>12. ASSUME NEW k \in K
       PROVE  Asked(n.topics[k]) /\ AtRate(n.topics[k], DesiredRate(m, k))
  <2>1. CASE k \in Known(boots, K)
    BY <1>4, <1>5, <1>8, <1>11, <2>1 DEF Asked, AtRate
  <2>2. CASE k \notin Known(boots, K)
    <3>1. d.topics[k].deferredForBootId
      BY <1>3, <2>2
    <3>2. n.topics[k] = d.topics[k]
      BY <1>4, <1>5, <1>8, <2>2
    <3> QED
      BY <3>1, <3>2 DEF Asked, AtRate
  <2> QED
    BY <2>1, <2>2
<1>13. \A k \in DOMAIN m.topics \ K : n.topics[k] = m.topics[k]
  BY <1>3, <1>4, <1>5, <1>8 DEF Known
<1>14. ASSUME NEW up, NEW E, DemandExcept(m, up, E)
       PROVE  DemandExcept(n, up, E \ K)
  <2> DEFINE F == E \ K
  <2>1. \A k \in DOMAIN n.topics \ F :
            \/ k \in DOMAIN m.topics \ E /\ n.topics[k] = m.topics[k]
            \/ Asked(n.topics[k]) /\ AtRate(n.topics[k], DesiredRate(m, k))
    BY <1>5, <1>12, <1>13
  <2> HIDE DEF F
  <2>2. DemandExcept(n, up, F)
    BY <1>5, <1>14, <2>1, DemandMoves
  <2> QED
    BY <2>2 DEF F
<1> QED
  BY <1>10, <1>14 DEF n

\* One sendSubscribe() is a loop over one topic.
LEMMA SendSubscribeDemand ==
  ASSUME NEW m, Good(m), NEW boots \in Boots,
         NEW k \in DOMAIN m.topics, ConsumersOf(m, k) # {}
  PROVE  LET n == SendSubscribe(m, boots, k)
         IN /\ KeepsGrants(m, n)
            /\ \A up, E : DemandExcept(m, up, E) => DemandExcept(n, up, E \ {k})
<1> DEFINE n == SendSubscribe(m, boots, k)
<1>1. Good(n) /\ DOMAIN n.topics = DOMAIN m.topics /\ n.subscribers = m.subscribers
  BY SendSubscribeOK DEF Follows
<1>2. Len(m.out) \in Nat
  BY OutLen
<1>3. /\ Appends(m, n)
      /\ \A j \in DOMAIN m.topics :
           /\ n.topics[j].subscriptionId = m.topics[j].subscriptionId
           /\ j # k => n.topics[j] = m.topics[j]
      /\ Asked(n.topics[k]) /\ AtRate(n.topics[k], DesiredRate(m, k))
  <2>1. CASE boots[SourceOf(k)] = 0
    <3>1. n = Defer(m, {k})
      BY <2>1 DEF SendSubscribe
    <3> HIDE DEF n
    <3>2. /\ n.out = m.out
          /\ \A j \in DOMAIN m.topics :
               /\ n.topics[j].subscriptionId = m.topics[j].subscriptionId
               /\ j \in {k} => n.topics[j].deferredForBootId
               /\ j \notin {k} => n.topics[j] = m.topics[j]
      BY <3>1, DeferDemand
    <3> QED
      BY <1>2, <3>2 DEF Appends, Asked, AtRate
  <2>2. CASE boots[SourceOf(k)] # 0
    <3> DEFINE order == <<k>>
    <3>1. n = Request(m, boots, order)
      BY <2>2 DEF SendSubscribe
    <3>2. order \in [1..1 -> DOMAIN m.topics] /\ \A i \in 1..1 : order[i] = k
      OBVIOUS
    <3> HIDE DEF n, order
    <3>3. /\ Len(n.out) = Len(m.out) + 1
          /\ \A i \in 1 .. Len(m.out) : n.out[i] = m.out[i]
          /\ \A j \in DOMAIN m.topics :
               /\ n.topics[j].subscriptionId = m.topics[j].subscriptionId
               /\ (\E i \in 1..1 : order[i] = j) =>
                     /\ n.topics[j].inFlightSequence # 0
                     /\ n.topics[j].sentRate = DesiredRate(m, j)
               /\ (\A i \in 1..1 : order[i] # j) => n.topics[j] = m.topics[j]
      <4>1. Requested(m, n, 1, order)
        BY <3>1, <3>2, RequestDemand
      <4> QED
        BY <4>1 DEF Requested
    <3>4. order[1] = k /\ 1 \in 1..1
      BY <3>2
    <3> QED
      BY <1>2, <3>2, <3>3, <3>4 DEF Appends, Asked, AtRate
  <2> QED
    BY <2>1, <2>2
<1> HIDE DEF n
<1>4. KeepsGrants(m, n)
  BY <1>1, <1>3 DEF KeepsGrants, GrantHeld
<1>5. ASSUME NEW up, NEW E, DemandExcept(m, up, E)
      PROVE  DemandExcept(n, up, E \ {k})
  <2> DEFINE F == E \ {k}
  <2>1. \A j \in DOMAIN n.topics \ F :
            \/ j \in DOMAIN m.topics \ E /\ n.topics[j] = m.topics[j]
            \/ Asked(n.topics[j]) /\ AtRate(n.topics[j], DesiredRate(m, j))
    BY <1>1, <1>3
  <2> HIDE DEF F
  <2>2. DemandExcept(n, up, F)
    BY <1>1, <1>5, <2>1, DemandMoves
  <2> QED
    BY <2>2 DEF F
<1> QED
  BY <1>4, <1>5 DEF n

-----------------------------------------------------------------------------
(* sendUnsubscribe(), dropTopicIfIdle() and syncTopic(). *)

\* A released grant is named on the wire, with the boot it was asked for.
LEMMA ReleaseLeaves ==
  ASSUME NEW m, Good(m), NEW k \in DOMAIN m.topics, m.topics[k].subscriptionId # 0
  PROVE  LET n == Release(m, k)
         IN /\ Appends(m, n)
            /\ Said(n, k, m.topics[k])
            /\ \A j \in DOMAIN m.topics : j # k => n.topics[j] = m.topics[j]
<1> DEFINE n == Release(m, k)
           t == m.topics[k]
           bye == [type |-> "UNSUBSCRIBE", seq |-> m.nextSequence, key |-> k,
                   boot |-> t.targetBootId, id |-> t.subscriptionId]
<1>1. /\ n.topics = [m.topics EXCEPT ![k] = [@ EXCEPT !.subscriptionId = 0, !.sentRate = 0]]
      /\ n.out = Append(m.out, bye)
  BY DEF Good, ManagerOK, Members, Release, SendUnsubscribe
<1> HIDE DEF n
<1>2. bye.type = "UNSUBSCRIBE" /\ bye.key = k /\ bye.id = t.subscriptionId
      /\ bye.boot = t.targetBootId
  OBVIOUS
<1> HIDE DEF bye
<1>3. m.out \in Seq(Frame)
  BY DEF Good, ManagerOK
<1>4. /\ Len(m.out) \in Nat
      /\ Len(n.out) = Len(m.out) + 1
      /\ DOMAIN n.out = 1 .. (Len(m.out) + 1)
      /\ \A i \in 1 .. Len(m.out) : n.out[i] = m.out[i]
      /\ n.out[Len(m.out) + 1] = bye
  BY <1>1, <1>3
<1>5. Appends(m, n)
  BY <1>4 DEF Appends
<1>6. Len(m.out) + 1 \in DOMAIN n.out
  BY <1>4
<1>7. Said(n, k, t)
  BY <1>2, <1>4, <1>6 DEF Said
<1> QED
  BY <1>1, <1>5, <1>7 DEF n

\* An idle topic has neither a grant nor anyone who wants it.
LEMMA DropIfIdleDemand ==
  ASSUME NEW m, Good(m), NEW K
  PROVE  LET n == DropIfIdle(m, K)
         IN /\ KeepsGrants(m, n)
            /\ n.topics = [k \in DOMAIN n.topics |-> m.topics[k]]
            /\ DOMAIN n.topics \subseteq DOMAIN m.topics
            /\ n.subscribers = m.subscribers
            /\ \A up, E : DemandExcept(m, up, E) => DemandExcept(n, up, E)
<1> DEFINE n == DropIfIdle(m, K)
           kept == DOMAIN m.topics \ {k \in K \cap DOMAIN m.topics : Idle(m, k)}
<1>1. /\ n.subscribers = m.subscribers
      /\ n.out = m.out
      /\ n.topics = [k \in kept |-> m.topics[k]]
  BY DEF Good, ManagerOK, Members, DropIfIdle, Without, Restrict
<1> HIDE DEF n
<1>2. \A k \in DOMAIN m.topics : m.topics[k].subscriptionId # 0 => k \in kept
  BY DEF Idle
<1> HIDE DEF kept
<1>3. kept \subseteq DOMAIN m.topics
  BY DEF kept
<1>4. Len(m.out) \in Nat
  BY OutLen
<1>5. KeepsGrants(m, n)
  BY <1>1, <1>2, <1>4 DEF KeepsGrants, Appends, GrantHeld
<1>6. ASSUME NEW up, NEW E, DemandExcept(m, up, E)
      PROVE  DemandExcept(n, up, E)
  BY <1>1, <1>3, <1>6, DemandMoves
<1> QED
  BY <1>1, <1>3, <1>5, <1>6 DEF n

\* A wanted topic that needs no SUBSCRIBE is asked for at the rate wanted.
LEMMA NotNeeded ==
  ASSUME NEW m, NEW k, ~NeedsSubscribe(m, k), ConsumersOf(m, k) # {}
  PROVE  Asked(m.topics[k]) /\ AtRate(m.topics[k], DesiredRate(m, k))
BY DEF NeedsSubscribe, Asked, AtRate

\* syncTopic() puts its topic right, and gives up its grant only on the wire and
\* only for want of consumers.
LEMMA SyncTopicDemand ==
  ASSUME NEW m, Good(m), NEW boots \in Boots, NEW k
  PROVE  LET n == SyncTopic(m, boots, k)
         IN /\ LeavesOnTheWire(m, n)
            /\ ConsumersOf(m, k) # {} => KeepsGrants(m, n)
            /\ \A up, E : DemandExcept(m, up, E) => DemandExcept(n, up, E \ {k})
<1> DEFINE n == SyncTopic(m, boots, k)
<1>0. Appends(m, m)
  BY OutLen DEF Appends
<1>1. CASE k \notin DOMAIN m.topics
  <2>1. n = m
    BY <1>1 DEF SyncTopic
  <2> HIDE DEF n
  <2>2. KeepsGrants(m, n) /\ LeavesOnTheWire(m, n)
    BY <1>0, <2>1 DEF KeepsGrants, LeavesOnTheWire
  <2>3. \A up, E : DemandExcept(m, up, E) => DemandExcept(n, up, E \ {k})
    BY <1>1, <2>1 DEF DemandExcept
  <2> QED
    BY <2>2, <2>3 DEF n
<1>2. CASE k \in DOMAIN m.topics /\ ConsumersOf(m, k) = {}
  <2> DEFINE m1 == [m EXCEPT !.topics[k].deferredForBootId = FALSE]
             m2 == IF m.topics[k].subscriptionId # 0 THEN Release(m1, k) ELSE m1
  <2>1. /\ DOMAIN m1 = Members
        /\ m1.subscribers = m.subscribers
        /\ m1.nextHandle = m.nextHandle
        /\ m1.nextSequence = m.nextSequence
        /\ m1.pendingSubscribes = m.pendingSubscribes
        /\ m1.pendingUnsubscribes = m.pendingUnsubscribes
        /\ m1.out = m.out
        /\ m1.topics = [m.topics EXCEPT ![k] = [@ EXCEPT !.deferredForBootId = FALSE]]
    BY DEF Good, ManagerOK, Members
  <2>2. m.topics[k] \in Topic
    BY <1>2 DEF Good, ManagerOK
  <2>3. n = DropIfIdle(m2, {k})
    BY <1>2 DEF SyncTopic
  <2> HIDE DEF m1, n
  <2>4. [m.topics[k] EXCEPT !.deferredForBootId = FALSE] \in Topic
    BY <2>2 DEF Topic
  <2>5. \A j \in DOMAIN m.topics :
           /\ m1.topics[j] \in Topic
           /\ m1.topics[j].subscriptionId = m.topics[j].subscriptionId
           /\ m1.topics[j].inFlightSequence = m.topics[j].inFlightSequence
           /\ m1.topics[j].targetBootId = m.topics[j].targetBootId
           /\ j # k => m1.topics[j] = m.topics[j]
    BY <1>2, <2>1, <2>2, <2>4 DEF Good, ManagerOK, Topic
  <2>6. DOMAIN m1.topics = DOMAIN m.topics /\ m1.topics \in [DOMAIN m.topics -> Topic]
    BY <2>1, <2>5
  <2>7. Good(m1)
    BY <2>1, <2>5, <2>6 DEF Good, ManagerOK, Correlated
  <2>8. /\ Good(m2) /\ m2.subscribers = m.subscribers /\ DOMAIN m2.topics = DOMAIN m.topics
        /\ LeavesOnTheWire(m, m2)
        /\ \A j \in DOMAIN m.topics : j # k => m2.topics[j] = m.topics[j]
    <3>1. CASE m.topics[k].subscriptionId # 0
      <4>1. k \in DOMAIN m1.topics /\ m1.topics[k].subscriptionId # 0
        BY <1>2, <2>5, <2>6, <3>1
      <4>2. m2 = Release(m1, k)
        BY <3>1
      <4> HIDE DEF m2
      <4>3. /\ Good(m2) /\ m2.subscribers = m1.subscribers /\ DOMAIN m2.topics = DOMAIN m1.topics
            /\ Appends(m1, m2) /\ Said(m2, k, m1.topics[k])
            /\ \A j \in DOMAIN m1.topics : j # k => m2.topics[j] = m1.topics[j]
        BY <2>7, <4>1, <4>2, ReleaseOK, ReleaseLeaves DEF Follows
      <4>4. Appends(m, m2) /\ Said(m2, k, m.topics[k])
        BY <1>2, <2>1, <2>5, <4>3 DEF Appends, Said
      <4>5. \A j \in DOMAIN m.topics : j # k => m2.topics[j] = m.topics[j]
        BY <2>5, <2>6, <4>3
      <4>6. LeavesOnTheWire(m, m2)
        BY <2>6, <4>3, <4>4, <4>5 DEF LeavesOnTheWire, GrantHeld
      <4> QED
        BY <2>1, <2>6, <4>3, <4>5, <4>6
    <3>2. CASE m.topics[k].subscriptionId = 0
      <4>1. m2 = m1
        BY <3>2
      <4> HIDE DEF m2
      <4>2. Appends(m, m2)
        BY <1>0, <2>1, <4>1 DEF Appends
      <4>3. LeavesOnTheWire(m, m2)
        BY <2>5, <2>6, <4>1, <4>2 DEF LeavesOnTheWire, GrantHeld
      <4> QED
        BY <2>1, <2>5, <2>6, <2>7, <4>1, <4>3
    <3> QED
      BY <3>1, <3>2
  <2> HIDE DEF m2
  <2>9. /\ Good(n) /\ KeepsGrants(m2, n)
        /\ \A up, E : DemandExcept(m2, up, E) => DemandExcept(n, up, E)
    BY <2>3, <2>8, DropIfIdleOK, DropIfIdleDemand
  <2>10. LeavesOnTheWire(m, n)
    BY <2>8, <2>9, LeavesThenKeeps
  <2>11. ASSUME NEW up, NEW E, DemandExcept(m, up, E)
         PROVE  DemandExcept(n, up, E \ {k})
    <3> DEFINE F == E \ {k}
    <3>1. \A j \in DOMAIN m2.topics \ F :
            \/ j \in DOMAIN m.topics \ E /\ m2.topics[j] = m.topics[j]
            \/ Asked(m2.topics[j]) /\ AtRate(m2.topics[j], DesiredRate(m, j))
            \/ ConsumersOf(m, j) = {}
      BY <1>2, <2>8
    <3> HIDE DEF F
    <3>2. DemandExcept(m2, up, F)
      BY <2>8, <2>11, <3>1, DemandMoves
    <3>3. DemandExcept(n, up, F)
      BY <2>9, <3>2
    <3> QED
      BY <3>3 DEF F
  <2> QED
    BY <1>2, <2>10, <2>11 DEF n
<1>3. CASE k \in DOMAIN m.topics /\ ConsumersOf(m, k) # {}
  <2>1. CASE NeedsSubscribe(m, k)
    <3>1. n = SendSubscribe(m, boots, k)
      BY <1>3, <2>1 DEF SyncTopic
    <3> HIDE DEF n
    <3>2. /\ KeepsGrants(m, n)
          /\ \A up, E : DemandExcept(m, up, E) => DemandExcept(n, up, E \ {k})
      BY <1>3, <3>1, SendSubscribeDemand
    <3> QED
      BY <3>2, KeepsLeaves DEF n
  <2>2. CASE ~NeedsSubscribe(m, k)
    <3>1. n = m
      BY <1>3, <2>2 DEF SyncTopic
    <3> HIDE DEF n
    <3>2. KeepsGrants(m, n) /\ LeavesOnTheWire(m, n)
      BY <1>0, <3>1 DEF KeepsGrants, LeavesOnTheWire
    <3>3. Asked(m.topics[k]) /\ AtRate(m.topics[k], DesiredRate(m, k))
      BY <1>3, <2>2, NotNeeded
    <3>4. \A up, E : DemandExcept(m, up, E) => DemandExcept(n, up, E \ {k})
      BY <3>1, <3>3 DEF DemandExcept
    <3> QED
      BY <3>2, <3>4 DEF n
  <2> QED
    BY <2>1, <2>2
<1> QED
  BY <1>1, <1>2, <1>3

\* syncTopic() in a loop puts the topics of the loop right and gives up no grant.
LEMMA SyncTopicsDemand ==
  ASSUME NEW m, Good(m), NEW boots \in Boots, NEW K \in SUBSET DOMAIN m.topics,
         NEW order \in Orders(boots, ToRequest(m, K))
  PROVE  LET n == SyncTopics(m, boots, K, order)
         IN /\ KeepsGrants(m, n)
            /\ \A up, E : DemandExcept(m, up, E) => DemandExcept(n, up, E \ K)
<1> DEFINE d == DropIfIdle(m, K)
           R == ToRequest(m, K)
           n == SyncTopics(m, boots, K, order)
<1>1. /\ Good(d) /\ d.subscribers = m.subscribers
      /\ \A k \in DOMAIN m.topics : ConsumersOf(m, k) # {} => k \in DOMAIN d.topics
      /\ KeepsGrants(m, d)
      /\ d.topics = [k \in DOMAIN d.topics |-> m.topics[k]]
      /\ DOMAIN d.topics \subseteq DOMAIN m.topics
  BY DropIfIdleOK, DropIfIdleDemand
<1>2. n = SendSubscribes(d, boots, R, order)
  BY DEF SyncTopics
<1> HIDE DEF d, n
<1>3. R \in SUBSET DOMAIN d.topics /\ \A k \in R : ConsumersOf(d, k) # {}
  BY <1>1 DEF ToRequest, NeedsSubscribe, ConsumersOf
<1>4. \A k \in K \ R : ~NeedsSubscribe(m, k)
  BY DEF ToRequest
<1>40. R \subseteq K
  BY DEF ToRequest
<1>41. order \in Orders(boots, R)
  OBVIOUS
<1> HIDE DEF R
<1>5. /\ Good(n) /\ KeepsGrants(d, n)
      /\ \A up, E : DemandExcept(d, up, E) => DemandExcept(n, up, E \ R)
  BY <1>1, <1>2, <1>3, <1>41, SendSubscribesOK, SendSubscribesDemand
<1>6. KeepsGrants(m, n)
  BY <1>1, <1>5, KeepsChain
<1>7. ASSUME NEW up, NEW E, DemandExcept(m, up, E)
      PROVE  DemandExcept(n, up, E \ K)
  <2> DEFINE F == E \ (K \ R)
  <2>1. ASSUME NEW k \in DOMAIN d.topics \ F
        PROVE  \/ k \in DOMAIN m.topics \ E /\ d.topics[k] = m.topics[k]
               \/ Asked(d.topics[k]) /\ AtRate(d.topics[k], DesiredRate(m, k))
               \/ ConsumersOf(m, k) = {}
    <3>1. d.topics[k] = m.topics[k] /\ k \in DOMAIN m.topics
      BY <1>1
    <3>2. CASE k \in K \ R
      BY <1>4, <3>1, <3>2, NotNeeded
    <3>3. CASE k \notin K \ R
      BY <3>1, <3>3
    <3> QED
      BY <3>2, <3>3
  <2>2. F \ R = E \ K
    BY <1>40
  <2> HIDE DEF F
  <2>3. DemandExcept(d, up, F)
    BY <1>1, <1>7, <2>1, DemandMoves
  <2> QED
    BY <1>5, <2>2, <2>3
<1> QED
  BY <1>6, <1>7 DEF n

-----------------------------------------------------------------------------
(* The handlers' own steps. *)

\* The rate wanted of a topic depends on its consumers only.
LEMMA SameDemandAt ==
  ASSUME NEW m, NEW n, NEW k, ConsumersOf(n, k) = ConsumersOf(m, k),
         \A h \in ConsumersOf(m, k) : n.subscribers[h] = m.subscribers[h]
  PROVE  DesiredRate(n, k) = DesiredRate(m, k)
<1>1. {n.subscribers[h].rate : h \in ConsumersOf(n, k)} =
        {m.subscribers[h].rate : h \in ConsumersOf(m, k)}
  OBVIOUS
<1> QED
  BY <1>1 DEF DesiredRate

\* A topic with a consumer, new or not, has consumers.
LEMMA JoinedDemand ==
  ASSUME NEW m, Good(m), CountedExcept(m, {}), NEW k \in Key, NEW r \in Rate
  PROVE  LET n == Joined(m, k, r)
         IN /\ Good(n)
            /\ ConsumersOf(n, k) = ConsumersOf(m, k) \cup {m.nextHandle}
            /\ KeepsGrants(m, n)
            /\ \A up : DemandExcept(m, up, {}) => DemandExcept(n, up, {k})
<1> DEFINE n == Joined(m, k, r)
<1>0. HasJoined(m, n, k, r)
  BY JoinedOK
<1> HIDE DEF n
<1>1. /\ DOMAIN n.subscribers = DOMAIN m.subscribers \cup {m.nextHandle}
      /\ m.nextHandle \notin DOMAIN m.subscribers
      /\ n.subscribers[m.nextHandle] = [key |-> k, rate |-> r]
      /\ \A h \in DOMAIN m.subscribers : n.subscribers[h] = m.subscribers[h]
      /\ DOMAIN n.topics = DOMAIN m.topics \cup {k}
      /\ \A j \in DOMAIN m.topics : n.topics[j] = m.topics[j]
      /\ n.out = m.out
  BY <1>0 DEF HasJoined
<1>2. /\ ConsumersOf(n, k) = ConsumersOf(m, k) \cup {m.nextHandle}
      /\ \A j : j # k => ConsumersOf(n, j) = ConsumersOf(m, j)
  BY <1>1 DEF ConsumersOf
<1>3. Len(m.out) \in Nat
  BY OutLen
<1>4. KeepsGrants(m, n)
  BY <1>1, <1>3 DEF KeepsGrants, Appends, GrantHeld
<1>5. ASSUME NEW up, DemandExcept(m, up, {})
      PROVE  DemandExcept(n, up, {k})
  <2> SUFFICES ASSUME NEW j \in DOMAIN n.topics \ {k}, ConsumersOf(n, j) # {}
               PROVE  /\ AtRate(n.topics[j], DesiredRate(n, j))
                      /\ up => Asked(n.topics[j])
    BY DEF DemandExcept
  <2>1. j \in DOMAIN m.topics /\ n.topics[j] = m.topics[j]
        /\ ConsumersOf(n, j) = ConsumersOf(m, j)
    BY <1>1, <1>2
  <2>2. \A h \in ConsumersOf(m, j) : n.subscribers[h] = m.subscribers[h]
    BY <1>1 DEF ConsumersOf
  <2>3. DesiredRate(n, j) = DesiredRate(m, j)
    BY <2>1, <2>2, SameDemandAt
  <2> QED
    BY <1>5, <2>1, <2>3 DEF DemandExcept
<1> QED
  BY <1>2, <1>4, <1>5, JoinedOK DEF n

\* addSubscriber() gives up no grant.
LEMMA AddConsumerDemand ==
  ASSUME NEW m, Good(m), CountedExcept(m, {}), NEW boots \in Boots,
         NEW k \in Key, NEW r \in Rate
  PROVE  LET n == AddConsumer(m, boots, k, r)
         IN /\ KeepsGrants(m, n)
            /\ \A up : DemandExcept(m, up, {}) => DemandExcept(n, up, {})
<1> DEFINE j == Joined(m, k, r)
           n == AddConsumer(m, boots, k, r)
<1>1. /\ Good(j) /\ ConsumersOf(j, k) = ConsumersOf(m, k) \cup {m.nextHandle}
      /\ KeepsGrants(m, j)
      /\ \A up : DemandExcept(m, up, {}) => DemandExcept(j, up, {k})
  BY JoinedDemand
<1>2. n = SyncTopic(j, boots, k) /\ Good(n)
  BY AddConsumerOK DEF AddConsumer, Joined
<1> HIDE DEF j, n
<1>3. /\ KeepsGrants(j, n)
      /\ \A up, E : DemandExcept(j, up, E) => DemandExcept(n, up, E \ {k})
  BY <1>1, <1>2, SyncTopicDemand
<1>4. KeepsGrants(m, n)
  BY <1>1, <1>2, <1>3, KeepsChain
<1>5. {k} \ {k} = {}
  OBVIOUS
<1> QED
  BY <1>1, <1>3, <1>4, <1>5 DEF n

\* removeSubscriber() gives up a grant on the wire.
LEMMA RemoveConsumerDemand ==
  ASSUME NEW m, Good(m), CountedExcept(m, {}), NEW boots \in Boots,
         NEW h \in DOMAIN m.subscribers
  PROVE  LET n == RemoveConsumer(m, boots, h)
         IN /\ LeavesOnTheWire(m, n)
            /\ \A up : DemandExcept(m, up, {}) => DemandExcept(n, up, {})
<1> DEFINE l == Left(m, h)
           k == m.subscribers[h].key
           n == RemoveConsumer(m, boots, h)
<1>1. /\ Good(l)
      /\ l.subscribers = [g \in DOMAIN m.subscribers \ {h} |-> m.subscribers[g]]
      /\ l.topics = m.topics
      /\ l.out = m.out
  BY LeftOK
<1>2. n = SyncTopic(l, boots, k)
  BY DEF RemoveConsumer, Left
<1> HIDE DEF l, n
<1>3. /\ LeavesOnTheWire(l, n)
      /\ \A up, E : DemandExcept(l, up, E) => DemandExcept(n, up, E \ {k})
  BY <1>1, <1>2, SyncTopicDemand
<1>4. LeavesOnTheWire(m, n)
  BY <1>1, <1>3 DEF LeavesOnTheWire, Appends, GrantHeld
<1>5. ASSUME NEW up, DemandExcept(m, up, {})
      PROVE  DemandExcept(n, up, {})
  <2>1. ASSUME NEW j \in DOMAIN l.topics \ {k}, ConsumersOf(l, j) # {}
        PROVE  /\ AtRate(l.topics[j], DesiredRate(l, j))
               /\ up => Asked(l.topics[j])
    <3>1. ConsumersOf(l, j) = ConsumersOf(m, j)
      BY <1>1, <2>1 DEF ConsumersOf
    <3>2. \A g \in ConsumersOf(m, j) : l.subscribers[g] = m.subscribers[g]
      BY <1>1, <2>1 DEF ConsumersOf
    <3>3. DesiredRate(l, j) = DesiredRate(m, j)
      BY <3>1, <3>2, SameDemandAt
    <3> QED
      BY <1>1, <1>5, <2>1, <3>1, <3>3 DEF DemandExcept
  <2> HIDE DEF k
  <2>2. DemandExcept(l, up, {k})
    BY <2>1 DEF DemandExcept
  <2>3. {k} \ {k} = {}
    OBVIOUS
  <2> QED
    BY <1>3, <2>2, <2>3
<1> QED
  BY <1>4, <1>5 DEF n

\* The end of handleSubscribeResult() gives up at most the grant it is about, and
\* that one for want of consumers.
LEMMA ReconcileDemand ==
  ASSUME NEW m, Good(m), NEW boots \in Boots, NEW k \in DOMAIN m.topics,
         CountedExcept(m, {k})
  PROVE  LET n == Reconcile(m, boots, k)
         IN /\ Appends(m, n)
            /\ \A j : GrantHeld(m, j) /\ (j # k \/ ConsumersOf(m, k) # {}) => GrantHeld(n, j)
            /\ \A up : DemandExcept(m, up, {}) => DemandExcept(n, up, {})
<1> DEFINE n == Reconcile(m, boots, k)
           m2 == IF m.topics[k].subscriptionId # 0 THEN Release(m, k) ELSE m
<1>0. Appends(m, m) /\ Good(n)
  BY OutLen, ReconcileOK DEF Appends
<1>1. CASE ConsumersOf(m, k) = {}
  <2>1. n = DropIfIdle(m2, {k})
    BY <1>1 DEF Reconcile
  <2> HIDE DEF n
  <2>2. /\ Good(m2) /\ m2.subscribers = m.subscribers /\ DOMAIN m2.topics = DOMAIN m.topics
        /\ Appends(m, m2)
        /\ \A j \in DOMAIN m.topics : j # k => m2.topics[j] = m.topics[j]
    <3>1. CASE m.topics[k].subscriptionId # 0
      BY <3>1, ReleaseOK, ReleaseLeaves DEF Follows
    <3>2. CASE m.topics[k].subscriptionId = 0
      BY <1>0, <3>2
    <3> QED
      BY <3>1, <3>2
  <2> HIDE DEF m2
  <2>3. /\ KeepsGrants(m2, n)
        /\ \A up, E : DemandExcept(m2, up, E) => DemandExcept(n, up, E)
    BY <2>1, <2>2, DropIfIdleDemand
  <2>4. Appends(m, n)
    BY <1>0, <2>2, <2>3, AppendsChain DEF KeepsGrants, n
  <2>5. \A j : GrantHeld(m, j) /\ j # k => GrantHeld(n, j)
    BY <2>2, <2>3 DEF KeepsGrants, GrantHeld
  <2>6. ASSUME NEW up, DemandExcept(m, up, {})
        PROVE  DemandExcept(n, up, {})
    <3>1. DemandExcept(m2, up, {})
      BY <1>1, <2>2, <2>6, DemandMoves
    <3> QED
      BY <2>3, <3>1
  <2> QED
    BY <1>1, <2>4, <2>5, <2>6 DEF n
<1>2. CASE ConsumersOf(m, k) # {}
  <2>1. CASE n = m
    <3> HIDE DEF n
    <3>1. Appends(m, n) /\ (\A j : GrantHeld(m, j) => GrantHeld(n, j))
          /\ \A up : DemandExcept(m, up, {}) => DemandExcept(n, up, {})
      BY <1>0, <2>1
    <3> QED
      BY <3>1 DEF n
  <2>2. CASE n = SendSubscribe(m, boots, k)
    <3> HIDE DEF n
    <3>1. /\ KeepsGrants(m, n)
          /\ \A up, E : DemandExcept(m, up, E) => DemandExcept(n, up, E \ {k})
      BY <1>2, <2>2, SendSubscribeDemand
    <3>2. {} \ {k} = {}
      OBVIOUS
    <3> QED
      BY <3>1, <3>2 DEF KeepsGrants, n
  <2> QED
    BY <1>2, <2>1, <2>2 DEF Reconcile
<1> QED
  BY <1>1, <1>2

\* handleSubscribeResult(): a grant that arrives takes the place of no other.
LEMMA HandleSubscribeResultDemand ==
  ASSUME NEW m, Good(m), CountedExcept(m, {}), NEW boots \in Boots,
         NEW seq \in DOMAIN m.pendingSubscribes,
         NEW status \in Status, NEW id \in SubscriptionId \cup {0}
  PROVE  LET n == HandleSubscribeResult(m, boots, seq, status, id)
         IN /\ status = "SUCCESS" /\ id # 0 => KeepsGrants(m, n)
            /\ \A up : DemandExcept(m, up, {}) => DemandExcept(n, up, {})
<1> DEFINE k == m.pendingSubscribes[seq]
           a == Received(m, seq, status, id)
           n == HandleSubscribeResult(m, boots, seq, status, id)
<1>1. CASE ~Awaited(m, seq)
  <2>1. n = Taken(m, seq)
    BY <1>1, HandleSubscribeResultIs
  <2> HIDE DEF n
  <2>2. n.subscribers = m.subscribers /\ n.topics = m.topics /\ n.out = m.out
    BY <2>1, TakenIs
  <2>3. KeepsGrants(m, n)
    BY <2>2, OutLen DEF KeepsGrants, Appends, GrantHeld
  <2>4. \A up : DemandExcept(m, up, {}) => DemandExcept(n, up, {})
    BY <2>2, DemandMoves
  <2> QED
    BY <2>3, <2>4 DEF n
<1>2. CASE Awaited(m, seq)
  <2> DEFINE t == AnswerTo(m.topics[k], status, id)
  <2>1. Good(a) /\ CountedExcept(a, {k}) /\ OneTopicChanges(m, a, k, t)
    BY <1>2, ReceivedOK
  <2>2. n = Reconcile(a, boots, k)
    BY <1>2, HandleSubscribeResultIs
  <2>3. k \in DOMAIN m.topics /\ m.topics[k].inFlightSequence = seq /\ seq # 0
    BY <1>2 DEF Awaited, Good, ManagerOK
  <2>4. m.topics[k] \in Topic
    BY <2>3 DEF Good, ManagerOK
  <2> HIDE DEF a, n, k
  <2>5. /\ t.inFlightSequence = 0
        /\ t.lastStatus = status
        /\ t.deferredForBootId = m.topics[k].deferredForBootId
        /\ status = "SUCCESS" /\ id # 0 =>
              t.subscriptionId = id /\ t.sentRate = m.topics[k].sentRate
        /\ ~(status = "SUCCESS" /\ id # 0) => t.subscriptionId = 0 /\ t.sentRate = 0
    BY <2>4 DEF AnswerTo, Topic
  <2> HIDE DEF t
  <2>6. /\ k \in DOMAIN m.topics /\ DOMAIN a.topics = DOMAIN m.topics
        /\ a.subscribers = m.subscribers /\ a.out = m.out
        /\ a.topics[k] = t
        /\ \A j \in DOMAIN m.topics \ {k} : a.topics[j] = m.topics[j]
    BY <2>1 DEF OneTopicChanges
  <2>7. /\ Appends(a, n)
        /\ \A j : GrantHeld(a, j) /\ (j # k \/ ConsumersOf(a, k) # {}) => GrantHeld(n, j)
        /\ \A up : DemandExcept(a, up, {}) => DemandExcept(n, up, {})
    BY <2>1, <2>2, <2>6, ReconcileDemand
  <2>8. ASSUME status = "SUCCESS", id # 0
        PROVE  KeepsGrants(m, n)
    <3>1. ASSUME NEW j, GrantHeld(m, j)
          PROVE  GrantHeld(n, j)
      <4>1. ConsumersOf(m, j) # {}
        BY <3>1 DEF GrantHeld, CountedExcept
      <4>2. GrantHeld(a, j)
        BY <2>5, <2>6, <2>8, <3>1 DEF GrantHeld
      <4>3. ConsumersOf(a, j) # {}
        BY <2>6, <4>1, SameDemand
      <4> QED
        BY <2>7, <4>2, <4>3
    <3>2. Appends(m, n)
      BY <2>6, <2>7 DEF Appends
    <3> QED
      BY <3>1, <3>2 DEF KeepsGrants
  <2>9. ASSUME NEW up, DemandExcept(m, up, {})
        PROVE  DemandExcept(n, up, {})
    <3>1. status # "NONE"
      BY DEF Status
    <3>2. Asked(t)
      BY <2>5, <3>1 DEF Asked
    <3>3. ConsumersOf(m, k) # {} => AtRate(t, DesiredRate(m, k))
      BY <2>3, <2>5, <2>9 DEF DemandExcept, AtRate
    <3>4. \A j \in DOMAIN a.topics \ {} :
            \/ j \in DOMAIN m.topics \ {} /\ a.topics[j] = m.topics[j]
            \/ Asked(a.topics[j]) /\ AtRate(a.topics[j], DesiredRate(m, j))
            \/ ConsumersOf(m, j) = {}
      BY <2>6, <3>2, <3>3
    <3>5. DemandExcept(a, up, {})
      BY <2>6, <2>9, <3>4, DemandMoves
    <3> QED
      BY <2>7, <3>5
  <2> QED
    BY <2>8, <2>9 DEF n
<1> QED
  BY <1>1, <1>2

\* Giving up a request, as renewDueSubscriptions() does with the late ones and
\* onPeerReconnected() with those of the source, leaves the topics K to be asked
\* for again and gives up no grant.
LEMMA ForgottenRequests ==
  ASSUME NEW m, Good(m), NEW n, n.subscribers = m.subscribers, n.out = m.out,
         NEW K,
         n.topics = [k \in DOMAIN m.topics |->
           IF k \in K THEN [m.topics[k] EXCEPT !.inFlightSequence = 0] ELSE m.topics[k]]
  PROVE  /\ KeepsGrants(m, n)
         /\ \A up : DemandExcept(m, up, {}) => DemandExcept(n, up, K)
<1>1. \A k \in DOMAIN m.topics : n.topics[k].subscriptionId = m.topics[k].subscriptionId
  <2> TAKE k \in DOMAIN m.topics
  <2>1. m.topics[k] \in Topic
    BY DEF Good, ManagerOK
  <2>2. [m.topics[k] EXCEPT !.inFlightSequence = 0].subscriptionId = m.topics[k].subscriptionId
    BY <2>1 DEF Topic
  <2> QED
    BY <2>2
<1>2. DOMAIN n.topics = DOMAIN m.topics
  OBVIOUS
<1>3. KeepsGrants(m, n)
  BY <1>1, <1>2, OutLen DEF KeepsGrants, Appends, GrantHeld
<1>4. \A k \in DOMAIN m.topics \ K : n.topics[k] = m.topics[k]
  OBVIOUS
<1>5. ASSUME NEW up, DemandExcept(m, up, {})
      PROVE  DemandExcept(n, up, K)
  BY <1>2, <1>4, <1>5, DemandMoves
<1> QED
  BY <1>3, <1>5

\* A topic nobody wants need not be excepted.
LEMMA UnwantedExceptions ==
  ASSUME NEW m, NEW up, NEW E, DemandExcept(m, up, E),
         \A k \in E : ConsumersOf(m, k) = {}
  PROVE  DemandExcept(m, up, {})
BY DEF DemandExcept

\* After a session change no topic is asked for, so none at a wrong rate.
LEMMA ForgetAllDemand ==
  ASSUME NEW m, Good(m)
  PROVE  /\ DemandExcept(ForgetAll(m), FALSE, {})
         /\ \A up : DemandExcept(ForgetAll(m), up, DOMAIN m.topics)
<1> DEFINE n == ForgetAll(m)
<1>1. n.topics = [k \in DOMAIN m.topics |-> Forget(m.topics[k])]
  BY DEF Good, ManagerOK, Members, ForgetAll
<1> HIDE DEF n
<1>2. ASSUME NEW k \in DOMAIN n.topics
      PROVE  n.topics[k].subscriptionId = 0 /\ n.topics[k].inFlightSequence = 0
  <2>1. m.topics[k] \in Topic
    BY <1>1 DEF Good, ManagerOK
  <2>2. n.topics[k] = Forget(m.topics[k])
    BY <1>1
  <2> QED
    BY <2>1, <2>2, ForgetType
<1>3. DemandExcept(n, FALSE, {})
  BY <1>2 DEF DemandExcept, AtRate
<1>4. \A up : DemandExcept(n, up, DOMAIN m.topics)
  BY <1>1 DEF DemandExcept
<1> QED
  BY <1>3, <1>4 DEF n

\* After a reboot of their source the topics K are to be asked for again; the
\* others keep their grants.
LEMMA ForgetSourceDemand ==
  ASSUME NEW m, Good(m), NEW K
  PROVE  LET n == ForgetSource(m, K)
         IN /\ Appends(m, n)
            /\ \A k : GrantHeld(m, k) /\ k \notin K => GrantHeld(n, k)
            /\ \A up : DemandExcept(m, up, {}) => DemandExcept(n, up, K)
<1> DEFINE n == ForgetSource(m, K)
<1>1. /\ n.subscribers = m.subscribers
      /\ n.out = m.out
      /\ n.topics = [k \in DOMAIN m.topics |->
           IF k \in K THEN [Forget(m.topics[k]) EXCEPT !.targetBootId = 0] ELSE m.topics[k]]
  BY DEF Good, ManagerOK, Members, ForgetSource
<1> HIDE DEF n
<1>2. DOMAIN n.topics = DOMAIN m.topics /\ \A k \in DOMAIN m.topics \ K : n.topics[k] = m.topics[k]
  BY <1>1
<1>3. Appends(m, n)
  BY <1>1, OutLen DEF Appends
<1>4. \A k : GrantHeld(m, k) /\ k \notin K => GrantHeld(n, k)
  BY <1>2 DEF GrantHeld
<1>5. ASSUME NEW up, DemandExcept(m, up, {})
      PROVE  DemandExcept(n, up, K)
  BY <1>1, <1>2, <1>5, DemandMoves
<1> QED
  BY <1>3, <1>4, <1>5 DEF n

-----------------------------------------------------------------------------
(* The inductive invariant, and what each action keeps of it. *)

DemandInv == IInv /\ DemandExcept(mgr, sessionUp, {})

\* The object at the start of a handler has sent nothing yet.
LEMMA NowDemand ==
  ASSUME DemandInv
  PROVE  /\ Good(Now) /\ CountedExcept(Now, {}) /\ Now.out = <<>>
         /\ Now.subscribers = mgr.subscribers /\ Now.topics = mgr.topics
         /\ Now.pendingSubscribes = mgr.pendingSubscribes
         /\ DemandExcept(Now, sessionUp, {})
         /\ sourceBootId \in Boots
<1>1. /\ Good(Now) /\ CountedExcept(Now, {})
      /\ Now.subscribers = mgr.subscribers /\ Now.topics = mgr.topics
      /\ Now.pendingSubscribes = mgr.pendingSubscribes
  BY NowOK DEF DemandInv
<1>2. Now.out = <<>>
  BY DEF Now, DemandInv, IInv, Good, ManagerOK, Members
<1>3. DemandExcept(mgr, sessionUp, {})
  BY DEF DemandInv
<1>4. DemandExcept(Now, sessionUp, {})
  BY <1>1, <1>3, DemandMoves
<1> QED
  BY <1>1, <1>2, <1>4 DEF DemandInv, IInv

\* What an action must show.
Settles == DemandExcept(mgr', sessionUp', {})

\* addSubscriber().
LEMMA AddSettles ==
  ASSUME DemandInv, NEW k \in Key, NEW r \in Rate, AddSubscriber(k, r)
  PROVE  Settles /\ KeepsGrants(Now, mgr')
<1>1. mgr' = AddConsumer(Now, sourceBootId, k, r) /\ sessionUp' = sessionUp
  BY DEF AddSubscriber
<1> QED
  BY <1>1, NowDemand, AddConsumerDemand DEF Settles

\* removeSubscriber().
LEMMA RemoveSettles ==
  ASSUME DemandInv, NEW h \in DOMAIN mgr.subscribers, RemoveSubscriber(h)
  PROVE  Settles /\ LeavesOnTheWire(Now, mgr')
<1>1. mgr' = RemoveConsumer(Now, sourceBootId, h) /\ sessionUp' = sessionUp
  BY DEF RemoveSubscriber
<1>2. h \in DOMAIN Now.subscribers
  BY NowDemand
<1> QED
  BY <1>1, <1>2, NowDemand, RemoveConsumerDemand DEF Settles

\* updateSubscriber() leaves one topic and joins another.
LEMMA UpdateSettles ==
  ASSUME DemandInv, NEW h \in DOMAIN mgr.subscribers, NEW k \in Key, NEW r \in Rate,
         UpdateSubscriber(h, k, r)
  PROVE  Settles /\ LeavesOnTheWire(Now, mgr')
<1> DEFINE m1 == RemoveConsumer(Now, sourceBootId, h)
           n == AddConsumer(m1, sourceBootId, k, r)
<1>1. mgr' = n /\ sessionUp' = sessionUp
  BY DEF UpdateSubscriber
<1>2. h \in DOMAIN Now.subscribers
  BY NowDemand
<1>3. /\ Good(m1) /\ CountedExcept(m1, {})
      /\ LeavesOnTheWire(Now, m1) /\ DemandExcept(m1, sessionUp, {})
  BY <1>2, NowDemand, RemoveConsumerOK, RemoveConsumerDemand
<1> HIDE DEF m1
<1>4. Good(n) /\ KeepsGrants(m1, n) /\ DemandExcept(n, sessionUp, {})
  BY <1>3, NowDemand, AddConsumerOK, AddConsumerDemand
<1> HIDE DEF n
<1>5. LeavesOnTheWire(Now, n)
  BY <1>3, <1>4, NowDemand, LeavesThenKeeps
<1> QED
  BY <1>1, <1>4, <1>5 DEF Settles

\* A SUBSCRIBE_RESULT.
LEMMA SubscribeResultSettles ==
  ASSUME DemandInv, NEW seq \in DOMAIN mgr.pendingSubscribes, NEW status \in Status,
         NEW id \in SubscriptionId \cup {0}, SubscribeResult(seq, status, id)
  PROVE  Settles /\ (status = "SUCCESS" /\ id # 0 => KeepsGrants(Now, mgr'))
<1>1. /\ mgr' = HandleSubscribeResult(Now, sourceBootId, seq, status, id)
      /\ sessionUp' = sessionUp
  BY DEF SubscribeResult
<1>2. seq \in DOMAIN Now.pendingSubscribes
  BY NowDemand
<1> QED
  BY <1>1, <1>2, NowDemand, HandleSubscribeResultDemand DEF Settles

\* An UNSUBSCRIBE_RESULT.
LEMMA UnsubscribeResultSettles ==
  ASSUME DemandInv, NEW seq \in DOMAIN mgr.pendingUnsubscribes, UnsubscribeResult(seq)
  PROVE  Settles /\ KeepsGrants(Now, mgr')
<1> DEFINE m1 == [Now EXCEPT !.pendingUnsubscribes =
                    Without(mgr.pendingUnsubscribes, {seq})]
           k == mgr.pendingUnsubscribes[seq]
<1>1. mgr' = DropIfIdle(m1, {k}) /\ sessionUp' = sessionUp
  BY DEF UnsubscribeResult
<1>2. /\ DOMAIN m1 = Members
      /\ m1.subscribers = Now.subscribers
      /\ m1.topics = Now.topics
      /\ m1.nextHandle = Now.nextHandle
      /\ m1.nextSequence = Now.nextSequence
      /\ m1.pendingSubscribes = Now.pendingSubscribes
      /\ m1.out = Now.out
      /\ m1.pendingUnsubscribes =
           [q \in DOMAIN mgr.pendingUnsubscribes \ {seq} |-> mgr.pendingUnsubscribes[q]]
  BY NowDemand DEF Good, ManagerOK, Members, Without, Restrict
<1> HIDE DEF m1
<1>3. ManagerOK(m1)
  <2>1. mgr.pendingUnsubscribes \in [DOMAIN mgr.pendingUnsubscribes -> Key]
        /\ DOMAIN mgr.pendingUnsubscribes \subseteq 1..(Now.nextSequence - 1)
    BY NowOK DEF DemandInv, IInv, Good, ManagerOK
  <2>2. /\ m1.pendingUnsubscribes \in [DOMAIN m1.pendingUnsubscribes -> Key]
        /\ DOMAIN m1.pendingUnsubscribes \subseteq 1..(Now.nextSequence - 1)
    BY <1>2, <2>1
  <2> QED
    BY <1>2, <2>2, NowDemand DEF Good, ManagerOK
<1>4. Good(m1)
  BY <1>2, <1>3, NowDemand DEF Good, Correlated
<1>5. DemandExcept(m1, sessionUp, {}) /\ KeepsGrants(Now, m1)
  <2>1. KeepsGrants(Now, m1)
    BY <1>2, NowDemand, OutLen DEF KeepsGrants, Appends, GrantHeld
  <2>2. DemandExcept(m1, sessionUp, {})
    BY <1>2, NowDemand, DemandMoves
  <2> QED
    BY <2>1, <2>2
<1>6. /\ Good(mgr') /\ KeepsGrants(m1, mgr')
      /\ \A up, E : DemandExcept(m1, up, E) => DemandExcept(mgr', up, E)
  BY <1>1, <1>4, DropIfIdleOK, DropIfIdleDemand
<1> QED
  BY <1>1, <1>4, <1>5, <1>6, NowDemand, KeepsChain DEF Settles

\* The lease timer: who waited too long is asked for again, if anyone wants it.
LEMMA RenewDueSettles ==
  ASSUME DemandInv, NEW late \in SUBSET InFlightTopics, NEW due \in SUBSET RenewableTopics,
         RenewDueSubscriptions(late, due)
  PROVE  Settles /\ KeepsGrants(Now, mgr')
<1> DEFINE g == GiveUp(Now, late)
           m == DropIfIdle(g, late)
           again == ToRetry(late) \cup due
<1>1. /\ Good(Now) /\ CountedExcept(Now, {})
      /\ Now.subscribers = mgr.subscribers /\ Now.topics = mgr.topics
      /\ DemandExcept(Now, sessionUp, {})
      /\ sourceBootId \in Boots
  BY NowDemand
<1>2. late \in SUBSET DOMAIN Now.topics
  BY <1>1 DEF InFlightTopics
<1>3. /\ Good(g) /\ CountedExcept(g, {})
      /\ g.subscribers = Now.subscribers
      /\ DOMAIN g.topics = DOMAIN Now.topics
  BY <1>1, <1>2, GiveUpOK
<1>4. /\ g.out = Now.out
      /\ g.topics = [k \in DOMAIN Now.topics |->
           IF k \in late THEN [Now.topics[k] EXCEPT !.inFlightSequence = 0] ELSE Now.topics[k]]
  BY <1>1 DEF Good, ManagerOK, Members, GiveUp
<1> HIDE DEF g
<1>5. KeepsGrants(Now, g) /\ DemandExcept(g, sessionUp, late)
  BY <1>1, <1>3, <1>4, ForgottenRequests
<1>6. /\ Good(m) /\ CountedExcept(m, {})
      /\ m.subscribers = g.subscribers
      /\ \A k \in DOMAIN g.topics : ConsumersOf(g, k) # {} => k \in DOMAIN m.topics
      /\ KeepsGrants(g, m)
      /\ \A up, E : DemandExcept(g, up, E) => DemandExcept(m, up, E)
  BY <1>3, DropIfIdleOK, DropIfIdleDemand
<1> HIDE DEF m
<1>7. /\ again \in SUBSET DOMAIN m.topics
      /\ \A k \in again : ConsumersOf(m, k) # {}
      /\ \A k \in late \ again : ConsumersOf(m, k) = {}
  BY <1>1, <1>3, <1>6 DEF ToRetry, RenewableTopics, InFlightTopics, ConsumersOf
<1> HIDE DEF again
<1>8. PICK order \in Orders(sourceBootId, again) :
         mgr' = SendSubscribes(m, sourceBootId, again, order)
  BY DEF RenewDueSubscriptions, g, m, again
<1>9. /\ Good(mgr') /\ mgr'.subscribers = m.subscribers
      /\ KeepsGrants(m, mgr')
      /\ \A up, E : DemandExcept(m, up, E) => DemandExcept(mgr', up, E \ again)
  BY <1>1, <1>6, <1>7, <1>8, SendSubscribesOK, SendSubscribesDemand DEF Follows
<1>10. KeepsGrants(Now, mgr')
  BY <1>1, <1>3, <1>5, <1>6, <1>9, KeepsChain
<1>11. DemandExcept(mgr', sessionUp, late \ again)
  BY <1>5, <1>6, <1>9
<1>12. \A k \in late \ again : ConsumersOf(mgr', k) = {}
  BY <1>7, <1>9, SameDemand
<1>13. DemandExcept(mgr', sessionUp, {})
  BY <1>11, <1>12, UnwantedExceptions
<1>14. sessionUp' = sessionUp
  BY DEF RenewDueSubscriptions
<1> QED
  BY <1>10, <1>13, <1>14 DEF Settles

\* A new session is asked for everything that is wanted.
LEMMA EstablishedSettles ==
  ASSUME DemandInv, NEW boots \in Boots, OnSessionEstablished(Now, boots)
  PROVE  DemandExcept(mgr', TRUE, {})
<1> DEFINE m1 == ForgetAll(Now)
           K == DOMAIN Now.topics
<1>1. Good(Now) /\ CountedExcept(Now, {})
  BY NowDemand
<1>2. Good(m1) /\ DOMAIN m1.topics = K /\ DemandExcept(m1, TRUE, K)
  BY <1>1, ForgetAllOK, ForgetAllDemand
<1>3. PICK order \in Orders(boots, ToRequest(m1, K)) :
         mgr' = SyncTopics(m1, boots, K, order)
  BY DEF OnSessionEstablished
<1> HIDE DEF m1, K
<1>4. DemandExcept(mgr', TRUE, K \ K)
  BY <1>2, <1>3, SyncTopicsDemand
<1>5. K \ K = {}
  OBVIOUS
<1> QED
  BY <1>4, <1>5

\* Without a session nothing is asked for.
LEMMA LostSettles ==
  ASSUME DemandInv, SessionLost
  PROVE  Settles
<1>1. Good(Now) /\ CountedExcept(Now, {})
  BY NowDemand
<1>2. Good(ForgetAll(Now)) /\ DemandExcept(ForgetAll(Now), FALSE, {})
  BY <1>1, ForgetAllOK, ForgetAllDemand
<1>3. mgr' = DropIfIdle(ForgetAll(Now), DOMAIN mgr.topics) /\ sessionUp' = FALSE
  BY DEF SessionLost
<1>4. DemandExcept(mgr', FALSE, {})
  BY <1>2, <1>3, DropIfIdleDemand
<1> QED
  BY <1>3, <1>4 DEF Settles

\* A manifest: only a reboot costs grants, and only those of its source.
LEMMA ManifestSettles ==
  ASSUME DemandInv, NEW s \in Source, NEW b \in BootId, NEW rebooted \in BOOLEAN,
         ManifestData(s, b, rebooted)
  PROVE  /\ Settles
         /\ \A k : GrantHeld(mgr, k) /\ ~(rebooted /\ SourceOf(k) = s) => GrantHeld(mgr', k)
<1> DEFINE boots == [sourceBootId EXCEPT ![s] = b]
           gone == IF rebooted THEN TopicsOf(s) ELSE {}
           m1 == IF rebooted THEN ForgetSource(Now, TopicsOf(s)) ELSE Now
           K == gone \cup Deferred(m1)
<1>1. /\ Good(Now) /\ CountedExcept(Now, {})
      /\ Now.topics = mgr.topics
      /\ DemandExcept(Now, sessionUp, {})
      /\ sourceBootId \in Boots
  BY NowDemand
<1>2. boots \in Boots
  BY <1>1 DEF Boots
<1>3. PICK order \in Orders(boots, ToRequest(m1, K)) :
         mgr' = SyncTopics(m1, boots, K, order)
  BY DEF ManifestData
<1>4. sessionUp' = sessionUp
  BY DEF ManifestData
<1>5. /\ Good(m1) /\ DOMAIN m1.topics = DOMAIN mgr.topics
      /\ DemandExcept(m1, sessionUp, gone)
      /\ \A k : GrantHeld(Now, k) /\ k \notin gone => GrantHeld(m1, k)
  <2>1. CASE rebooted
    BY <1>1, <2>1, ForgetSourceOK, ForgetSourceDemand
  <2>2. CASE ~rebooted
    BY <1>1, <2>2
  <2> QED
    BY <2>1, <2>2
<1> HIDE DEF m1, boots
<1>6. gone \in SUBSET DOMAIN mgr.topics /\ (\A k \in gone : rebooted /\ SourceOf(k) = s)
  BY DEF TopicsOf
<1> HIDE DEF gone
<1>7. K \in SUBSET DOMAIN m1.topics /\ gone \ K = {}
  BY <1>5, <1>6 DEF Deferred
<1> HIDE DEF K
<1>8. /\ KeepsGrants(m1, mgr')
      /\ \A up, E : DemandExcept(m1, up, E) => DemandExcept(mgr', up, E \ K)
  BY <1>2, <1>3, <1>5, <1>7, SyncTopicsDemand
<1>9. DemandExcept(mgr', sessionUp, {})
  BY <1>5, <1>7, <1>8
<1>10. ASSUME NEW k, GrantHeld(mgr, k), ~(rebooted /\ SourceOf(k) = s)
       PROVE  GrantHeld(mgr', k)
  BY <1>1, <1>5, <1>6, <1>8, <1>10 DEF GrantHeld, KeepsGrants
<1> QED
  BY <1>4, <1>9, <1>10 DEF Settles

\* A source that came back is asked again for everything that is wanted of it.
LEMMA ReconnectedSettles ==
  ASSUME DemandInv, NEW s \in Source, PeerReconnected(s)
  PROVE  Settles /\ KeepsGrants(Now, mgr')
<1> DEFINE K == {k \in TopicsOf(s) : ConsumersOf(mgr, k) # {}}
           gone == {q \in DOMAIN mgr.pendingSubscribes : mgr.pendingSubscribes[q] \in K}
           m1 == [Now EXCEPT
             !.topics = [k \in DOMAIN mgr.topics |->
                IF k \in K THEN [mgr.topics[k] EXCEPT !.inFlightSequence = 0]
                ELSE mgr.topics[k]],
             !.pendingSubscribes = Without(mgr.pendingSubscribes, gone)]
<1>1. /\ Good(Now) /\ CountedExcept(Now, {})
      /\ Now.subscribers = mgr.subscribers /\ Now.topics = mgr.topics
      /\ Now.pendingSubscribes = mgr.pendingSubscribes
      /\ DemandExcept(Now, sessionUp, {})
      /\ sourceBootId \in Boots
  BY NowDemand
<1>2. /\ DOMAIN m1 = Members
      /\ m1.subscribers = Now.subscribers
      /\ m1.nextHandle = Now.nextHandle
      /\ m1.nextSequence = Now.nextSequence
      /\ m1.pendingUnsubscribes = Now.pendingUnsubscribes
      /\ m1.out = Now.out
      /\ m1.topics = [k \in DOMAIN Now.topics |->
           IF k \in K THEN [Now.topics[k] EXCEPT !.inFlightSequence = 0] ELSE Now.topics[k]]
      /\ m1.pendingSubscribes =
           [q \in DOMAIN Now.pendingSubscribes \ gone |-> Now.pendingSubscribes[q]]
  BY <1>1 DEF Good, ManagerOK, Members, Without, Restrict
<1>3. PICK order \in Orders(sourceBootId, K) :
          mgr' = SendSubscribes(m1, sourceBootId, K, order)
  BY DEF PeerReconnected
<1>4. gone = {q \in DOMAIN Now.pendingSubscribes : Now.pendingSubscribes[q] \in K}
  BY <1>1
<1>5. K \in SUBSET DOMAIN Now.topics /\ \A k \in K : ConsumersOf(Now, k) # {}
  BY <1>1 DEF TopicsOf, ConsumersOf
<1> HIDE DEF m1, K, gone
<1>6. KeepsGrants(Now, m1) /\ DemandExcept(m1, sessionUp, K)
  BY <1>1, <1>2, ForgottenRequests
<1>7. \A k \in DOMAIN Now.topics :
         /\ m1.topics[k] \in Topic
         /\ m1.topics[k].inFlightSequence # 0 => k \notin K /\ m1.topics[k] = Now.topics[k]
  <2> TAKE k \in DOMAIN Now.topics
  <2>1. Now.topics[k] \in Topic
    BY <1>1 DEF Good, ManagerOK
  <2>2. /\ [Now.topics[k] EXCEPT !.inFlightSequence = 0] \in Topic
        /\ [Now.topics[k] EXCEPT !.inFlightSequence = 0].inFlightSequence = 0
    BY <2>1 DEF Topic
  <2> QED
    BY <1>2, <2>1, <2>2
<1>8. Good(m1)
  <2>1. /\ m1.pendingSubscribes \in [DOMAIN m1.pendingSubscribes -> Key]
        /\ DOMAIN m1.pendingSubscribes \subseteq 1..(m1.nextSequence - 1)
    BY <1>1, <1>2 DEF Good, ManagerOK
  <2>2. m1.topics \in [DOMAIN m1.topics -> Topic] /\ DOMAIN m1.topics = DOMAIN Now.topics
    BY <1>2, <1>7
  <2>3. ManagerOK(m1)
    BY <1>1, <1>2, <2>1, <2>2 DEF Good, ManagerOK
  <2>4. Correlated(m1)
    BY <1>1, <1>2, <1>4, <1>7, <2>2 DEF Good, Correlated
  <2> QED
    BY <2>3, <2>4 DEF Good
<1>9. K \in SUBSET DOMAIN m1.topics /\ \A k \in K : ConsumersOf(m1, k) # {}
  BY <1>2, <1>5, SameDemand
<1>10. /\ Good(mgr') /\ KeepsGrants(m1, mgr')
       /\ \A up, E : DemandExcept(m1, up, E) => DemandExcept(mgr', up, E \ K)
  BY <1>1, <1>3, <1>8, <1>9, SendSubscribesOK, SendSubscribesDemand
<1>11. K \ K = {}
  OBVIOUS
<1>12. DemandExcept(mgr', sessionUp, {})
  BY <1>6, <1>10, <1>11
<1>13. KeepsGrants(Now, mgr')
  BY <1>1, <1>6, <1>8, <1>10, KeepsChain
<1>14. sessionUp' = sessionUp
  BY DEF PeerReconnected
<1> QED
  BY <1>12, <1>13, <1>14 DEF Settles

\* The constructor: there is no topic.
LEMMA InitDemandInv == Init => DemandInv
<1> SUFFICES ASSUME Init PROVE DemandInv
  OBVIOUS
<1>1. mgr.topics = <<>>
  BY DEF Init
<1>2. DOMAIN mgr.topics = {}
  BY <1>1
<1> QED
  BY <1>2, InitIInv DEF DemandInv, DemandExcept

\* Every handler puts right what it disturbs.
LEMMA StepDemandInv == DemandInv /\ [Next]_vars => DemandInv'
<1> SUFFICES ASSUME DemandInv, [Next]_vars PROVE DemandInv'
  OBVIOUS
<1>1. IInv'
  BY StepIInv DEF DemandInv
<1> SUFFICES Settles
  BY <1>1 DEF DemandInv, Settles
<1>2. ASSUME NEW boots \in Boots, OnSessionEstablished(Now, boots), sessionUp' = TRUE
      PROVE  Settles
  BY <1>2, EstablishedSettles DEF Settles
<1>3. CASE SessionEstablished
  <2>1. sourceBootId \in Boots
    BY DEF DemandInv, IInv
  <2>2. OnSessionEstablished(Now, sourceBootId) /\ sessionUp' = TRUE
    BY <1>3 DEF SessionEstablished
  <2> QED
    BY <1>2, <2>1, <2>2
<1>4. ASSUME NEW s \in Source, NEW b \in BootId, DirectSessionEstablished(s, b)
      PROVE  Settles
  <2> DEFINE boots == sourceBootId'
  <2>1. boots \in Boots
    BY <1>1 DEF IInv
  <2>2. OnSessionEstablished(Now, boots) /\ sessionUp' = TRUE
    BY <1>4 DEF DirectSessionEstablished
  <2> HIDE DEF boots
  <2> QED
    BY <1>2, <2>1, <2>2
<1>5. CASE UNCHANGED vars
  <2>1. mgr' = mgr /\ sessionUp' = sessionUp
    BY <1>5 DEF vars
  <2>2. DemandExcept(mgr, sessionUp, {})
    BY DEF DemandInv
  <2> QED
    BY <2>1, <2>2 DEF Settles
<1>6. CASE \E k \in Key, r \in Rate : AddSubscriber(k, r)
  BY <1>6, AddSettles
<1>7. CASE \E h \in DOMAIN mgr.subscribers : RemoveSubscriber(h)
  BY <1>7, RemoveSettles
<1>8. CASE \E h \in DOMAIN mgr.subscribers, k \in Key, r \in Rate : UpdateSubscriber(h, k, r)
  BY <1>8, UpdateSettles
<1>9. CASE \E seq \in DOMAIN mgr.pendingSubscribes, status \in Status,
              id \in SubscriptionId \cup {0} : SubscribeResult(seq, status, id)
  BY <1>9, SubscribeResultSettles
<1>10. CASE \E seq \in DOMAIN mgr.pendingUnsubscribes : UnsubscribeResult(seq)
  BY <1>10, UnsubscribeResultSettles
<1>11. CASE \E late \in SUBSET InFlightTopics, due \in SUBSET RenewableTopics :
               RenewDueSubscriptions(late, due)
  BY <1>11, RenewDueSettles
<1>12. CASE SessionLost
  BY <1>12, LostSettles
<1>13. CASE \E s \in Source, b \in BootId, rebooted \in BOOLEAN : ManifestData(s, b, rebooted)
  BY <1>13, ManifestSettles
<1>14. CASE \E s \in Source : PeerReconnected(s)
  BY <1>14, ReconnectedSettles
<1> QED
  BY <1>3, <1>4, <1>5, <1>6, <1>7, <1>8, <1>9, <1>10, <1>11, <1>12, <1>13, <1>14 DEF Next

-----------------------------------------------------------------------------
\* The invariant is stronger than the properties: every consumer has a topic, and
\* a topic with consumers that is wanted was asked for, held back or refused.
LEMMA DemandInvShows == DemandInv => DemandOnTheWire /\ NoConsumerForgotten
<1>1. DemandInv => DemandOnTheWire
  BY DEF DemandInv, DemandExcept, AtRate, DemandOnTheWire
<1>2. ASSUME DemandInv, sessionUp, NEW h \in DOMAIN mgr.subscribers
      PROVE  Asked(mgr.topics[mgr.subscribers[h].key])
  <2> DEFINE k == mgr.subscribers[h].key
  <2>1. k \in DOMAIN mgr.topics
    BY <1>2 DEF DemandInv, IInv, CountedExcept
  <2>2. ConsumersOf(mgr, k) # {}
    BY <1>2 DEF ConsumersOf
  <2> QED
    BY <1>2, <2>1, <2>2 DEF DemandInv, DemandExcept
<1>3. DemandInv => NoConsumerForgotten
  BY <1>2 DEF NoConsumerForgotten, Asked
<1> QED
  BY <1>1, <1>3

\* The theorems.

\* The wire carries the highest rate that any consumer asked for, however its
\* consumers came and went while requests were on the wire.
THEOREM DemandOnTheWireHolds == Spec => []DemandOnTheWire
BY DemandInvShows, InitDemandInv, StepDemandInv, PTL DEF Spec

\* While a session is up no consumer is forgotten.
THEOREM NoConsumerForgottenHolds == Spec => []NoConsumerForgotten
BY DemandInvShows, InitDemandInv, StepDemandInv, PTL DEF Spec

\* A grant is given up only on the wire.
GivenUpOnTheWire(k) ==
  \/ \E i \in DOMAIN mgr'.out :
       /\ mgr'.out[i].type = "UNSUBSCRIBE"
       /\ mgr'.out[i].key = k
       /\ mgr'.out[i].id = mgr.topics[k].subscriptionId
       /\ mgr'.out[i].boot = mgr.topics[k].targetBootId
  \/ \E q \in DOMAIN mgr.pendingSubscribes :
       SubscribeResult(q, "REJECTED", 0) \/ SubscribeResult(q, "SUCCESS", 0)
  \/ SessionEstablished \/ SessionLost
  \/ \E b \in BootId : \/ \E s \in Source : DirectSessionEstablished(s, b)
                       \/ ManifestData(SourceOf(k), b, TRUE)

\* A result that grants nothing is the same with any identity.
LEMMA RefusalIs ==
  ASSUME NEW q, NEW status \in Status, NEW id, SubscribeResult(q, status, id),
         ~(status = "SUCCESS" /\ id # 0)
  PROVE  SubscribeResult(q, "REJECTED", 0) \/ SubscribeResult(q, "SUCCESS", 0)
<1>1. CASE status = "SUCCESS"
  BY <1>1
<1>2. CASE status = "REJECTED"
  <2>1. \A m, k : Answered(m, k, "REJECTED", id) = Answered(m, k, "REJECTED", 0)
    BY DEF Answered
  <2>2. HandleSubscribeResult(Now, sourceBootId, q, "REJECTED", id) =
          HandleSubscribeResult(Now, sourceBootId, q, "REJECTED", 0)
    BY <2>1 DEF HandleSubscribeResult
  <2> QED
    BY <1>2, <2>2 DEF SubscribeResult
<1> QED
  BY <1>1, <1>2 DEF Status

\* Every handler gives up grants on the wire, or is told to by the source.
LEMMA GrantsStep ==
  ASSUME DemandInv, Next, NEW k \in DOMAIN mgr.topics,
         GrantHeld(mgr, k), ~GrantHeld(mgr', k)
  PROVE  GivenUpOnTheWire(k)
<1>1. GrantHeld(Now, k) /\ Now.topics = mgr.topics
  BY NowDemand DEF GrantHeld
<1>2. ASSUME KeepsGrants(Now, mgr') PROVE GivenUpOnTheWire(k)
  BY <1>1, <1>2 DEF KeepsGrants
<1>3. ASSUME LeavesOnTheWire(Now, mgr') PROVE GivenUpOnTheWire(k)
  <2>1. Said(mgr', k, Now.topics[k])
    BY <1>1, <1>3 DEF LeavesOnTheWire
  <2>2. Said(mgr', k, mgr.topics[k])
    BY <1>1, <2>1
  <2> QED
    BY <2>2 DEF Said, GivenUpOnTheWire
<1>4. ASSUME NEW seq \in DOMAIN mgr.pendingSubscribes, NEW status \in Status,
             NEW id \in SubscriptionId \cup {0}, SubscribeResult(seq, status, id)
      PROVE  GivenUpOnTheWire(k)
  <2>1. CASE status = "SUCCESS" /\ id # 0
    BY <1>2, <1>4, <2>1, SubscribeResultSettles
  <2>2. CASE ~(status = "SUCCESS" /\ id # 0)
    BY <1>4, <2>2, RefusalIs DEF GivenUpOnTheWire
  <2> QED
    BY <2>1, <2>2
<1>5. ASSUME NEW s \in Source, NEW b \in BootId, NEW rebooted \in BOOLEAN,
             ManifestData(s, b, rebooted)
      PROVE  GivenUpOnTheWire(k)
  <2>1. rebooted /\ SourceOf(k) = s
    BY <1>5, ManifestSettles
  <2>2. rebooted = TRUE
    BY <2>1
  <2> QED
    BY <1>5, <2>1, <2>2 DEF GivenUpOnTheWire
<1>6. CASE SessionEstablished
  BY <1>6 DEF GivenUpOnTheWire
<1>13. CASE SessionLost
  BY <1>13 DEF GivenUpOnTheWire
<1>14. CASE \E s \in Source, b \in BootId : DirectSessionEstablished(s, b)
  BY <1>14 DEF GivenUpOnTheWire
<1>7. CASE \E i \in Key, r \in Rate : AddSubscriber(i, r)
  BY <1>2, <1>7, AddSettles
<1>8. CASE \E h \in DOMAIN mgr.subscribers : RemoveSubscriber(h)
  BY <1>3, <1>8, RemoveSettles
<1>9. CASE \E h \in DOMAIN mgr.subscribers, i \in Key, r \in Rate : UpdateSubscriber(h, i, r)
  BY <1>3, <1>9, UpdateSettles
<1>10. CASE \E seq \in DOMAIN mgr.pendingUnsubscribes : UnsubscribeResult(seq)
  BY <1>2, <1>10, UnsubscribeResultSettles
<1>11. CASE \E late \in SUBSET InFlightTopics, due \in SUBSET RenewableTopics :
               RenewDueSubscriptions(late, due)
  BY <1>2, <1>11, RenewDueSettles
<1>12. CASE \E s \in Source : PeerReconnected(s)
  BY <1>2, <1>12, ReconnectedSettles
<1>15. CASE \E seq \in DOMAIN mgr.pendingSubscribes, status \in Status,
              id \in SubscriptionId \cup {0} : SubscribeResult(seq, status, id)
  BY <1>4, <1>15
<1>16. CASE \E s \in Source, b \in BootId, rebooted \in BOOLEAN : ManifestData(s, b, rebooted)
  BY <1>5, <1>16
<1> QED
  BY <1>6, <1>7, <1>8, <1>9, <1>10, <1>11, <1>12, <1>13, <1>14, <1>15, <1>16 DEF Next

\* When the manager stops holding a grant of a live session, that step sent the
\* UNSUBSCRIBE with the identity of the grant and the boot it was asked for, or
\* the source refused, or it rebooted, or the session changed.
THEOREM GrantsLeaveOnTheWireHolds == Spec => GrantsLeaveOnTheWire
<1>1. DemandInv /\ [Next]_vars =>
        [\A k \in DOMAIN mgr.topics :
           GrantHeld(mgr, k) /\ ~GrantHeld(mgr', k) => GivenUpOnTheWire(k)]_vars
  BY GrantsStep
<1>2. GrantsLeaveOnTheWire <=>
        [][\A k \in DOMAIN mgr.topics :
             GrantHeld(mgr, k) /\ ~GrantHeld(mgr', k) => GivenUpOnTheWire(k)]_vars
  BY DEF GrantsLeaveOnTheWire, GivenUpOnTheWire
<1> QED
  BY <1>1, <1>2, InitDemandInv, StepDemandInv, PTL DEF Spec

-----------------------------------------------------------------------------
(* Sharing. *)

\* One more rate that is not above the highest leaves the highest.
LEMMA MaxWithMember ==
  ASSUME NEW S \in SUBSET Rate, S # {}, NEW r \in Rate, r <= Max(S)
  PROVE  Max(S \cup {r}) = Max(S)
<1> DEFINE T == S \cup {r}
<1>1. Max(S) \in S /\ \A y \in S : y <= Max(S)
  BY MaxInSet
<1>2. T \in SUBSET Rate /\ T # {}
  OBVIOUS
<1> HIDE DEF T
<1>3. Max(T) \in T /\ \A y \in T : y <= Max(T)
  BY <1>2, MaxInSet
<1> DEFINE a == Max(S)
           b == Max(T)
<1>4. a \in T /\ b \in S \cup {r} /\ a \in Rate /\ b \in Rate
  BY <1>1, <1>2, <1>3 DEF T
<1>5. b <= a /\ a <= b
  BY <1>1, <1>3, <1>4
<1>6. a \in Int /\ b \in Int
  BY <1>4 DEF Rate
<1> HIDE DEF a, b
<1>7. a = b
  BY <1>5, <1>6
<1> QED
  BY <1>7 DEF a, b, T

\* A served topic needs no SUBSCRIBE, as long as the demand is the same.
LEMMA ServedNeedsNothing ==
  ASSUME DemandInv, NEW k, Served(mgr, k), NEW m,
         m.topics[k] = mgr.topics[k], DesiredRate(m, k) = DesiredRate(mgr, k)
  PROVE  ~NeedsSubscribe(m, k)
<1>1. k \in DOMAIN mgr.topics /\ AtRate(mgr.topics[k], DesiredRate(mgr, k))
  BY DEF Served, DemandInv, DemandExcept
<1> QED
  BY <1>1 DEF Served, AtRate, NeedsSubscribe

\* A consumer that joins below the highest rate sends nothing.
LEMMA JoiningIsSilent ==
  ASSUME DemandInv, NEW k \in Key, NEW r \in Rate, Served(mgr, k),
         r <= DesiredRate(mgr, k), AddSubscriber(k, r)
  PROVE  mgr'.out = <<>>
<1> DEFINE j == Joined(Now, k, r)
           S == {mgr.subscribers[h].rate : h \in ConsumersOf(mgr, k)}
<1>1. /\ Good(Now) /\ CountedExcept(Now, {}) /\ Now.out = <<>>
      /\ Now.subscribers = mgr.subscribers /\ Now.topics = mgr.topics
  BY NowDemand
<1>2. mgr' = SyncTopic(j, sourceBootId, k)
  BY DEF AddSubscriber, AddConsumer, Joined
<1>3. HasJoined(Now, j, k, r) /\ ConsumersOf(j, k) = ConsumersOf(Now, k) \cup {Now.nextHandle}
  BY <1>1, JoinedOK, JoinedDemand
<1> HIDE DEF j
<1>4. /\ j.subscribers[Now.nextHandle].rate = r
      /\ \A h \in DOMAIN mgr.subscribers : j.subscribers[h] = mgr.subscribers[h]
      /\ DOMAIN j.topics = DOMAIN mgr.topics \cup {k}
      /\ \A i \in DOMAIN mgr.topics : j.topics[i] = mgr.topics[i]
      /\ j.out = <<>>
  BY <1>1, <1>3 DEF HasJoined
<1>5. ConsumersOf(j, k) = ConsumersOf(mgr, k) \cup {Now.nextHandle}
      /\ ConsumersOf(mgr, k) \subseteq DOMAIN mgr.subscribers
      /\ ConsumersOf(mgr, k) # {} /\ k \in DOMAIN mgr.topics
  BY <1>1, <1>3, SameDemand DEF ConsumersOf, Served
<1>6. {j.subscribers[h].rate : h \in ConsumersOf(j, k)} = S \cup {r}
  BY <1>4, <1>5
<1>7. S \in SUBSET Rate /\ S # {}
  <2>1. \A h \in DOMAIN mgr.subscribers : mgr.subscribers[h].rate \in Rate
    BY <1>1 DEF Good, ManagerOK
  <2> QED
    BY <1>5, <2>1
<1>8. DesiredRate(mgr, k) = Max(S) /\ DesiredRate(j, k) = Max(S \cup {r})
  BY <1>5, <1>6 DEF DesiredRate
<1> HIDE DEF S
<1>9. DesiredRate(j, k) = DesiredRate(mgr, k)
  BY <1>7, <1>8, MaxWithMember
<1>10. ~NeedsSubscribe(j, k)
  BY <1>4, <1>5, <1>9, ServedNeedsNothing
<1>11. mgr' = j
  BY <1>2, <1>4, <1>5, <1>10 DEF SyncTopic
<1> QED
  BY <1>4, <1>11

\* A consumer that leaves without lowering the highest rate sends nothing.
LEMMA LeavingIsSilent ==
  ASSUME DemandInv, NEW h \in DOMAIN mgr.subscribers,
         Served(mgr, mgr.subscribers[h].key), RemoveSubscriber(h),
         DesiredRate(mgr', mgr.subscribers[h].key) = DesiredRate(mgr, mgr.subscribers[h].key)
  PROVE  mgr'.out = <<>>
<1> DEFINE l == Left(Now, h)
           k == mgr.subscribers[h].key
<1>1. /\ Good(Now) /\ CountedExcept(Now, {}) /\ Now.out = <<>>
      /\ Now.subscribers = mgr.subscribers /\ Now.topics = mgr.topics
      /\ sourceBootId \in Boots
  BY NowDemand
<1>2. mgr' = SyncTopic(l, sourceBootId, k)
  BY <1>1 DEF RemoveSubscriber, RemoveConsumer, Left
<1>3. /\ Good(l) /\ CountedExcept(l, {k})
      /\ l.topics = mgr.topics /\ l.out = <<>>
  BY <1>1, LeftOK
<1> HIDE DEF l
<1>4. mgr'.subscribers = l.subscribers
  BY <1>1, <1>2, <1>3, SyncTopicOK
<1>5. DesiredRate(l, k) = DesiredRate(mgr, k) /\ ConsumersOf(l, k) = ConsumersOf(mgr', k)
  BY <1>4, SameDemand
<1>6. k \in DOMAIN mgr.topics /\ ConsumersOf(mgr, k) # {}
  BY DEF Served
<1>7. DesiredRate(mgr, k) \in Rate
  BY <1>6, DesiredRateType DEF DemandInv, IInv, Good
<1>8. ConsumersOf(l, k) # {}
  BY <1>5, <1>7, MaxRateAssumption DEF DesiredRate, Rate
<1>9. ~NeedsSubscribe(l, k)
  BY <1>3, <1>5, ServedNeedsNothing
<1>10. mgr' = l
  BY <1>2, <1>3, <1>6, <1>8, <1>9 DEF SyncTopic
<1> QED
  BY <1>3, <1>10

\* A consumer that joins or leaves a served topic without changing the highest
\* rate wanted puts nothing on the wire.
THEOREM SharingIsSilentHolds == Spec => SharingIsSilent
<1> DEFINE Silent ==
      /\ \A k \in Key, r \in Rate :
           Served(mgr, k) /\ r <= DesiredRate(mgr, k) /\ AddSubscriber(k, r) => mgr'.out = <<>>
      /\ \A h \in DOMAIN mgr.subscribers :
           LET k == mgr.subscribers[h].key
           IN /\ Served(mgr, k)
              /\ RemoveSubscriber(h)
              /\ DesiredRate(mgr', k) = DesiredRate(mgr, k)
              => mgr'.out = <<>>
<1>1. ASSUME DemandInv PROVE Silent
  BY <1>1, JoiningIsSilent, LeavingIsSilent
<1>2. DemandInv /\ [Next]_vars => [Silent]_vars
  BY <1>1
<1>3. SharingIsSilent <=> [][Silent]_vars
  BY DEF SharingIsSilent
<1> HIDE DEF Silent
<1> QED
  BY <1>2, <1>3, InitDemandInv, StepDemandInv, PTL DEF Spec

=============================================================================
