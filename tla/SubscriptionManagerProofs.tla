--------------------- MODULE SubscriptionManagerProofs ---------------------
(***************************************************************************)
(* What SubscriptionManager guarantees for every set of sources, topics    *)
(* and boots, every highest rate and every number of consumers.            *)
(*                                                                         *)
(* The invariant is a predicate of the object: Good(m) says that m has its *)
(* type and that every awaited request is pending, CountedExcept(m, E)     *)
(* that grants are counted except for topics E, which a handler is in the  *)
(* middle of releasing. One lemma per private method says what it makes of *)
(* an object that satisfies them; a handler composes those lemmas the way  *)
(* the code composes the calls.                                            *)
(***************************************************************************)
EXTENDS SubscriptionManager, FiniteSetTheorems, WellFoundedInduction, TLAPS

Boots == [Source -> BootId \cup {0}]

\* InFlightIsPending, of an object.
Correlated(m) ==
  \A k \in DOMAIN m.topics :
    LET q == m.topics[k].inFlightSequence
    IN q # 0 => q \in DOMAIN m.pendingSubscribes /\ m.pendingSubscribes[q] = k

\* Reference counting, with topics E whose grant is still to be released.
CountedExcept(m, E) ==
  /\ \A h \in DOMAIN m.subscribers : m.subscribers[h].key \in DOMAIN m.topics
  /\ \A k \in DOMAIN m.topics \ E :
       m.topics[k].subscriptionId # 0 => ConsumersOf(m, k) # {}

Good(m) == ManagerOK(m) /\ Correlated(m)

\* n has the consumers and topics of m, and no grant m did not account for.
Follows(m, n) ==
  /\ n.subscribers = m.subscribers
  /\ DOMAIN n.topics = DOMAIN m.topics
  /\ \A E : CountedExcept(m, E) => CountedExcept(n, E)

\* The source of a key is a source.
LEMMA KeyType == ASSUME NEW k \in Key PROVE SourceOf(k) \in Source
BY DEF Key, SourceOf

\* A nonempty set of rates has a highest one: the distance to MaxRate has a
\* least value because < is well founded on Nat.
LEMMA MaxInSet ==
  ASSUME NEW S \in SUBSET Rate, S # {}
  PROVE  Max(S) \in S /\ \A y \in S : y <= Max(S)
<1> DEFINE gap == {MaxRate - r : r \in S}
<1>1. MaxRate \in Nat
  BY MaxRateAssumption
<1>2. gap \subseteq Nat /\ gap # {}
  <2>1. \A r \in S : MaxRate - r \in Nat
    BY <1>1 DEF Rate
  <2>2. \E r \in S : MaxRate - r \in gap
    OBVIOUS
  <2> QED
    BY <2>1, <2>2
<1>3. PICK g \in gap : \A h \in gap : ~(<<h, g>> \in OpToRel(<, Nat))
  BY <1>2, NatLessThanWellFounded, WFMin
<1>4. PICK x \in S : g = MaxRate - x
  OBVIOUS
<1>5. \A y \in S : x >= y
  <2> SUFFICES ASSUME NEW y \in S PROVE x >= y
    OBVIOUS
  <2>1. MaxRate - y \in gap
    OBVIOUS
  <2>2. ~(MaxRate - y < MaxRate - x)
    BY <1>2, <1>3, <1>4, <2>1 DEF OpToRel
  <2> QED
    BY <1>1, <2>2 DEF Rate
<1>6. Max(S) \in S /\ \A y \in S : Max(S) >= y
  BY <1>5 DEF Max
<1> QED
  BY <1>1, <1>6 DEF Rate

\* desiredRateFor() of a topic with consumers is a rate.
LEMMA DesiredRateType ==
  ASSUME NEW m, ManagerOK(m), NEW k, ConsumersOf(m, k) # {}
  PROVE  DesiredRate(m, k) \in Rate
<1> DEFINE S == {m.subscribers[h].rate : h \in ConsumersOf(m, k)}
<1>1. \A h \in ConsumersOf(m, k) : m.subscribers[h].rate \in Rate
  BY DEF ManagerOK, ConsumersOf
<1>2. S \in SUBSET Rate /\ S # {}
  BY <1>1
<1> QED
  BY <1>2, MaxInSet DEF DesiredRate

\* sendSubscribe() with an unknown boot only marks topics.
LEMMA DeferOK ==
  ASSUME NEW m, Good(m), NEW K
  PROVE  Good(Defer(m, K)) /\ Follows(m, Defer(m, K))
<1> DEFINE n == Defer(m, K)
<1>1. /\ DOMAIN n = Members
            /\ n.topics = [k \in DOMAIN m.topics |->
                  IF k \in K THEN [m.topics[k] EXCEPT !.deferredForBootId = TRUE]
                  ELSE m.topics[k]]
            /\ n.subscribers = m.subscribers
            /\ n.nextHandle = m.nextHandle
            /\ n.nextSequence = m.nextSequence
            /\ n.out = m.out
            /\ n.pendingSubscribes = m.pendingSubscribes
            /\ n.pendingUnsubscribes = m.pendingUnsubscribes
  BY DEF Good, ManagerOK, Members, Defer
<1> HIDE DEF n
<1>2. \A k \in DOMAIN m.topics :
         /\ n.topics[k] \in Topic
         /\ n.topics[k].inFlightSequence = m.topics[k].inFlightSequence
         /\ n.topics[k].subscriptionId = m.topics[k].subscriptionId
  <2> TAKE k \in DOMAIN m.topics
  <2>1. m.topics[k] \in Topic
    BY DEF Good, ManagerOK
  <2> DEFINE t == m.topics[k]
  <2>2. [t EXCEPT !.deferredForBootId = TRUE] \in Topic
    BY <2>1 DEF Topic
  <2>4. CASE k \in K
    BY <1>1, <2>1, <2>2, <2>4 DEF Topic
  <2>5. CASE k \notin K
    BY <1>1, <2>1, <2>5
  <2> QED
    BY <2>4, <2>5
<1>3. DOMAIN n.topics = DOMAIN m.topics
  BY <1>1
<1>4. n.topics \in [DOMAIN n.topics -> Topic]
  BY <1>1, <1>2
<1>5. ManagerOK(n) BY <1>1, <1>3, <1>4 DEF ManagerOK, Good
<1>6. Correlated(n) BY <1>1, <1>2, <1>3 DEF Correlated, Good
<1>7. \A E : CountedExcept(m, E) => CountedExcept(n, E)
   BY <1>1, <1>2, <1>3 DEF CountedExcept, ConsumersOf
<1> QED
  BY <1>1, <1>3, <1>5, <1>6, <1>7 DEF Good, Follows, n

\* sendSubscribe() with a known boot: each topic asked for waits for a fresh
\* sequence that is pending under its own key.
LEMMA RequestOK ==
  ASSUME NEW m, Good(m), NEW boots \in Boots,
         NEW n \in Nat, NEW order \in [1..n -> DOMAIN m.topics],
         \A i \in 1..n : /\ boots[SourceOf(order[i])] # 0
                         /\ ConsumersOf(m, order[i]) # {}
  PROVE  Good(Request(m, boots, order)) /\ Follows(m, Request(m, boots, order))
<1> DEFINE r == Request(m, boots, order)
           asked == {order[i] : i \in 1..n}
           index(k) == CHOOSE i \in 1..n : order[i] = k
           seqOf(k) == m.nextSequence - 1 + index(k)
           frame(i) == [type |-> "SUBSCRIBE", seq |-> m.nextSequence + i - 1,
                        key |-> order[i], boot |-> boots[SourceOf(order[i])],
                        rate |-> DesiredRate(m, order[i])]
           asking(k) == [m.topics[k] EXCEPT !.targetBootId = boots[SourceOf(k)],
                                            !.sentRate = DesiredRate(m, k),
                                            !.inFlightSequence = seqOf(k),
                                            !.deferredForBootId = FALSE]
<1>0. ManagerOK(m) /\ Correlated(m)
  BY DEF Good
<1>1. Len(order) = n
  OBVIOUS
<1>2. r.topics = [k \in DOMAIN m.topics |->
            IF k \in asked THEN asking(k) ELSE m.topics[k]]
  BY <1>0, <1>1 DEF Request, ManagerOK, Members
<1>20. r.pendingSubscribes =
            [q \in DOMAIN m.pendingSubscribes
                     \cup m.nextSequence..(m.nextSequence + n - 1) |->
               IF q \in DOMAIN m.pendingSubscribes THEN m.pendingSubscribes[q]
               ELSE order[q - m.nextSequence + 1]]
  BY <1>0, <1>1 DEF Request, ManagerOK, Members
<1>21. r.out = m.out \o [i \in 1..n |-> frame(i)]
  BY <1>0, <1>1 DEF Request, ManagerOK, Members
<1>22. /\ DOMAIN r = Members
       /\ r.subscribers = m.subscribers
       /\ r.nextHandle = m.nextHandle
       /\ r.nextSequence = m.nextSequence + n
       /\ r.pendingUnsubscribes = m.pendingUnsubscribes
  BY <1>0, <1>1 DEF Request, ManagerOK, Members
<1> HIDE DEF r
<1>3. \A k \in asked : index(k) \in 1..n /\ order[index(k)] = k
  OBVIOUS
<1>4. \A i \in 1..n : /\ order[i] \in Key
                      /\ boots[SourceOf(order[i])] \in BootId
                      /\ DesiredRate(m, order[i]) \in Rate
  BY <1>0, KeyType, DesiredRateType DEF ManagerOK, Boots
<1> HIDE DEF index
<1>5. /\ m.nextSequence \in Nat \ {0}
      /\ m.topics \in [DOMAIN m.topics -> Topic]
      /\ DOMAIN m.pendingSubscribes \subseteq 1..(m.nextSequence - 1)
      /\ m.pendingSubscribes \in [DOMAIN m.pendingSubscribes -> Key]
      /\ DOMAIN m.topics \subseteq Key
  BY <1>0 DEF ManagerOK
<1>6. \A k \in asked : seqOf(k) \in m.nextSequence..(m.nextSequence + n - 1)
  BY <1>3, <1>5
<1>7. ASSUME NEW k \in asked
      PROVE  /\ asking(k) \in Topic
             /\ asking(k).subscriptionId = m.topics[k].subscriptionId
             /\ asking(k).inFlightSequence = seqOf(k)
  <2>1. k \in DOMAIN m.topics
    OBVIOUS
  <2>2. m.topics[k] \in Topic
    BY <1>5, <2>1
  <2>3. /\ boots[SourceOf(k)] \in BootId
        /\ DesiredRate(m, k) \in Rate
    BY <1>4
  <2>4. seqOf(k) \in Nat
    BY <1>5, <1>6
  <2> HIDE DEF asked, seqOf
  <2> QED
    BY <2>2, <2>3, <2>4 DEF Topic
<1>8. r.topics \in [DOMAIN m.topics -> Topic]
  <2> SUFFICES ASSUME NEW k \in DOMAIN m.topics
               PROVE  (IF k \in asked THEN asking(k) ELSE m.topics[k]) \in Topic
    BY <1>2
  <2> QED
    BY <1>5, <1>7
<1>9. \A i \in 1..n : frame(i) \in Frame
  <2> TAKE i \in 1..n
  <2>1. m.nextSequence + i - 1 \in Nat
    BY <1>5
  <2> QED
    BY <1>4, <2>1 DEF Frame
<1>10. [i \in 1..n |-> frame(i)] \in Seq(Frame)
  BY <1>9
<1>11. r.out \in Seq(Frame)
  BY <1>0, <1>21, <1>10 DEF ManagerOK
<1>12. ASSUME NEW q \in m.nextSequence..(m.nextSequence + n - 1)
       PROVE  /\ q \notin DOMAIN m.pendingSubscribes
              /\ q - m.nextSequence + 1 \in 1..n
              /\ r.pendingSubscribes[q] = order[q - m.nextSequence + 1]
              /\ r.pendingSubscribes[q] \in Key
  <2>1. /\ q \notin DOMAIN m.pendingSubscribes
        /\ q - m.nextSequence + 1 \in 1..n
    BY <1>5
  <2> QED
    BY <1>4, <1>20, <2>1
<1>13. r.pendingSubscribes \in [DOMAIN r.pendingSubscribes -> Key]
  BY <1>20, <1>5, <1>12
<1>14. DOMAIN r.pendingSubscribes \subseteq 1..(r.nextSequence - 1)
  BY <1>20, <1>22, <1>5
<1>15. ManagerOK(r)
  <2>1. r.nextSequence \in Nat \ {0}
    BY <1>22, <1>5
  <2>2. DOMAIN r.pendingUnsubscribes \subseteq 1..(r.nextSequence - 1)
    BY <1>0, <1>22, <1>5 DEF ManagerOK
  <2>3. DOMAIN r.topics = DOMAIN m.topics
    BY <1>2
  <2> QED
    BY <1>0, <1>22, <1>8, <1>11, <1>13, <1>14, <2>1, <2>2, <2>3 DEF ManagerOK
<1>16. Correlated(r)
  <2> SUFFICES ASSUME NEW k \in DOMAIN m.topics, r.topics[k].inFlightSequence # 0
               PROVE  /\ r.topics[k].inFlightSequence \in DOMAIN r.pendingSubscribes
                      /\ r.pendingSubscribes[r.topics[k].inFlightSequence] = k
    BY <1>2 DEF Correlated
  <2>1. CASE k \in asked
    <3>1. r.topics[k].inFlightSequence = seqOf(k)
      BY <1>2, <1>7, <2>1
    <3>2. index(k) \in 1..n /\ order[index(k)] = k
      BY <1>3, <2>1
    <3>3. seqOf(k) - m.nextSequence + 1 = index(k)
      BY <1>5, <3>2
    <3>4. seqOf(k) \in m.nextSequence..(m.nextSequence + n - 1)
      BY <1>6, <2>1
    <3>5. r.pendingSubscribes[seqOf(k)] = k
      BY <1>12, <3>2, <3>3, <3>4
    <3> QED
      BY <1>20, <3>1, <3>4, <3>5
  <2>2. CASE k \notin asked
    <3>1. r.topics[k] = m.topics[k]
      BY <1>2, <2>2
    <3> QED
      BY <1>0, <1>20, <3>1 DEF Correlated
  <2> QED
    BY <2>1, <2>2
<1>17. ASSUME NEW E, CountedExcept(m, E)
       PROVE  CountedExcept(r, E)
  <2>1. \A k \in DOMAIN m.topics : r.topics[k].subscriptionId = m.topics[k].subscriptionId
    <3> TAKE k \in DOMAIN m.topics
    <3>1. CASE k \in asked
      BY <1>2, <1>7, <3>1
    <3>2. CASE k \notin asked
      BY <1>2, <3>2
    <3> QED
      BY <3>1, <3>2
  <2>2. DOMAIN r.topics = DOMAIN m.topics
    BY <1>2
  <2> QED
    BY <1>22, <1>17, <2>1, <2>2 DEF CountedExcept, ConsumersOf
<1>18. DOMAIN r.topics = DOMAIN m.topics
  BY <1>2
<1> QED
  BY <1>15, <1>16, <1>17, <1>18, <1>22 DEF Good, Follows, r

\* An order of the topics of a loop enumerates them.
LEMMA OrdersType ==
  ASSUME NEW K \in SUBSET Key, NEW boots, NEW order \in Orders(boots, K)
  PROVE  \E n \in Nat : order \in [1..n -> Known(boots, K)]
<1>1. IsFiniteSet(Key)
  BY FiniteKeys, FS_Product DEF Key
<1>2. IsFiniteSet(Known(boots, K))
  BY <1>1, FS_Subset DEF Known
<1>3. Cardinality(Known(boots, K)) \in Nat
  BY <1>2, FS_CardinalityType
<1> QED
  BY <1>3 DEF Orders, Bijection, Injection

\* sendSubscribe() in a loop, some boots known and some not.
LEMMA SendSubscribesOK ==
  ASSUME NEW m, Good(m), NEW boots \in Boots,
         NEW K \in SUBSET DOMAIN m.topics, \A k \in K : ConsumersOf(m, k) # {},
         NEW order \in Orders(boots, K)
  PROVE  /\ Good(SendSubscribes(m, boots, K, order))
         /\ Follows(m, SendSubscribes(m, boots, K, order))
<1> DEFINE d == Defer(m, K \ Known(boots, K))
<1>1. Good(d) /\ Follows(m, d)
  BY DeferOK
<1>2. K \in SUBSET Key
  BY DEF Good, ManagerOK
<1>3. PICK n \in Nat : order \in [1..n -> Known(boots, K)]
  BY <1>2, OrdersType
<1> HIDE DEF d
<1>4. \A i \in 1..n : /\ order[i] \in DOMAIN d.topics
                      /\ boots[SourceOf(order[i])] # 0
                      /\ ConsumersOf(d, order[i]) # {}
  BY <1>1, <1>3 DEF Known, Follows, ConsumersOf
<1>5. order \in [1..n -> DOMAIN d.topics]
  BY <1>3, <1>4
<1>6. Good(Request(d, boots, order)) /\ Follows(d, Request(d, boots, order))
  BY <1>1, <1>4, <1>5, RequestOK
<1> QED
  BY <1>1, <1>6 DEF SendSubscribes, Follows, d

\* One sendSubscribe().
LEMMA SendSubscribeOK ==
  ASSUME NEW m, Good(m), NEW boots \in Boots,
         NEW k \in DOMAIN m.topics, ConsumersOf(m, k) # {}
  PROVE  /\ Good(SendSubscribe(m, boots, k))
         /\ Follows(m, SendSubscribe(m, boots, k))
<1>1. CASE boots[SourceOf(k)] = 0
  BY <1>1, DeferOK DEF SendSubscribe
<1>2. CASE boots[SourceOf(k)] # 0
  <2> DEFINE order == <<k>>
  <2>1. order \in [1..1 -> DOMAIN m.topics] /\ \A i \in 1..1 : order[i] = k
    OBVIOUS
  <2> HIDE DEF order
  <2>2. \A i \in 1..1 : /\ boots[SourceOf(order[i])] # 0
                        /\ ConsumersOf(m, order[i]) # {}
    BY <1>2, <2>1
  <2>3. Good(Request(m, boots, order)) /\ Follows(m, Request(m, boots, order))
    BY <2>1, <2>2, RequestOK
  <2> QED
    BY <1>2, <2>3 DEF SendSubscribe, order
<1> QED
  BY <1>1, <1>2

\* sendUnsubscribe() and forgetting the grant settle the topic's account.
LEMMA ReleaseOK ==
  ASSUME NEW m, Good(m), NEW k \in DOMAIN m.topics,
         m.topics[k].subscriptionId # 0
  PROVE  /\ Good(Release(m, k)) /\ Follows(m, Release(m, k))
         /\ \A E : CountedExcept(m, E) => CountedExcept(Release(m, k), E \ {k})
<1> DEFINE n == Release(m, k)
           t == m.topics[k]
           bye == [type |-> "UNSUBSCRIBE", seq |-> m.nextSequence, key |-> k,
                   boot |-> t.targetBootId, id |-> t.subscriptionId]
           forgotten == [t EXCEPT !.subscriptionId = 0, !.sentRate = 0]
<1>1. /\ DOMAIN n = Members
      /\ n.subscribers = m.subscribers
      /\ n.nextHandle = m.nextHandle
      /\ n.nextSequence = m.nextSequence + 1
      /\ n.pendingSubscribes = m.pendingSubscribes
  BY DEF Good, ManagerOK, Members, Release, SendUnsubscribe
<1>2. n.pendingUnsubscribes = With(m.pendingUnsubscribes, m.nextSequence, k)
  BY DEF Good, ManagerOK, Members, Release, SendUnsubscribe
<1>3. n.topics = [m.topics EXCEPT ![k] = forgotten]
  BY DEF Good, ManagerOK, Members, Release, SendUnsubscribe
<1>4. n.out = Append(m.out, bye)
  BY DEF Good, ManagerOK, Members, Release, SendUnsubscribe
<1>5. t \in Topic /\ m.nextSequence \in Nat \ {0} /\ k \in Key
  BY DEF Good, ManagerOK
<1> HIDE DEF n
<1>6. bye \in Frame
  BY <1>5 DEF Frame, Topic
<1>7. n.out \in Seq(Frame)
  BY <1>4, <1>6 DEF Good, ManagerOK
<1>8. forgotten \in Topic /\ forgotten.subscriptionId = 0
      /\ forgotten.inFlightSequence = t.inFlightSequence
  BY <1>5 DEF Topic
<1> HIDE DEF forgotten
<1>9. n.topics \in [DOMAIN m.topics -> Topic] /\ DOMAIN n.topics = DOMAIN m.topics
  BY <1>3, <1>8 DEF Good, ManagerOK
<1>10. /\ n.pendingUnsubscribes \in [DOMAIN n.pendingUnsubscribes -> Key]
       /\ DOMAIN n.pendingUnsubscribes = DOMAIN m.pendingUnsubscribes \cup {m.nextSequence}
  BY <1>2, <1>5 DEF With, Good, ManagerOK
<1>11. ManagerOK(n)
  <2>1. /\ n.nextSequence \in Nat \ {0}
        /\ DOMAIN n.pendingUnsubscribes \subseteq 1..(n.nextSequence - 1)
        /\ DOMAIN n.pendingSubscribes \subseteq 1..(n.nextSequence - 1)
    BY <1>1, <1>5, <1>10 DEF Good, ManagerOK
  <2> QED
    BY <1>1, <1>7, <1>9, <1>10, <2>1 DEF Good, ManagerOK
<1>12. Correlated(n)
  BY <1>1, <1>3, <1>8, <1>9 DEF Good, Correlated, ManagerOK
<1>13. ASSUME NEW E, CountedExcept(m, E)
       PROVE  CountedExcept(n, E \ {k}) /\ CountedExcept(n, E)
  BY <1>1, <1>3, <1>8, <1>9, <1>13 DEF CountedExcept, ConsumersOf, Good, ManagerOK
<1> QED
  BY <1>1, <1>9, <1>11, <1>12, <1>13 DEF Good, Follows, n

\* dropTopicIfIdle() drops no topic that a consumer or an answer needs.
LEMMA DropIfIdleOK ==
  ASSUME NEW m, Good(m), NEW K
  PROVE  LET n == DropIfIdle(m, K)
         IN /\ Good(n)
            /\ n.subscribers = m.subscribers
            /\ n.topics = [k \in DOMAIN n.topics |-> m.topics[k]]
            /\ DOMAIN n.topics \subseteq DOMAIN m.topics
            /\ \A k \in DOMAIN m.topics :
                  ConsumersOf(m, k) # {} => k \in DOMAIN n.topics
            /\ \A E : CountedExcept(m, E) => CountedExcept(n, E)
<1> DEFINE n == DropIfIdle(m, K)
           kept == DOMAIN m.topics \ {k \in K \cap DOMAIN m.topics : Idle(m, k)}
<1>1. /\ DOMAIN n = Members
      /\ n.subscribers = m.subscribers
      /\ n.nextHandle = m.nextHandle
      /\ n.nextSequence = m.nextSequence
      /\ n.pendingSubscribes = m.pendingSubscribes
      /\ n.pendingUnsubscribes = m.pendingUnsubscribes
      /\ n.out = m.out
  BY DEF Good, ManagerOK, Members, DropIfIdle
<1>2. n.topics = [k \in kept |-> m.topics[k]]
  BY DEF Good, ManagerOK, Members, DropIfIdle, Without, Restrict
<1> HIDE DEF n
<1>3. \A k \in DOMAIN m.topics : ConsumersOf(m, k) # {} => k \in kept
  BY DEF Idle
<1> HIDE DEF kept
<1>4. kept \subseteq DOMAIN m.topics
  BY DEF kept
<1>5. n.topics \in [kept -> Topic] /\ DOMAIN n.topics = kept
  BY <1>2, <1>4 DEF Good, ManagerOK
<1>6. ManagerOK(n)
  BY <1>1, <1>4, <1>5 DEF Good, ManagerOK
<1>7. Correlated(n)
  BY <1>1, <1>2, <1>4, <1>5 DEF Good, Correlated
<1>8. ASSUME NEW E, CountedExcept(m, E)
      PROVE  CountedExcept(n, E)
  <2>1. ASSUME NEW h \in DOMAIN n.subscribers
        PROVE  n.subscribers[h].key \in DOMAIN n.topics
    BY <1>1, <1>3, <1>5, <1>8, <2>1 DEF CountedExcept, ConsumersOf
  <2>2. ASSUME NEW k \in DOMAIN n.topics \ E, n.topics[k].subscriptionId # 0
        PROVE  ConsumersOf(n, k) # {}
    BY <1>1, <1>2, <1>4, <1>5, <1>8, <2>2 DEF CountedExcept, ConsumersOf
  <2> QED
    BY <2>1, <2>2 DEF CountedExcept
<1> QED
  BY <1>1, <1>2, <1>3, <1>4, <1>5, <1>6, <1>7, <1>8 DEF Good, n

-----------------------------------------------------------------------------
(* syncTopic() and the handlers' other steps. *)

\* A step that adds no request and no grant, except to the topics E.
LEMMA RewriteOK ==
  ASSUME NEW m, Good(m), NEW E, CountedExcept(m, E),
         NEW n, DOMAIN n = Members,
         n.subscribers = m.subscribers,
         n.nextHandle = m.nextHandle,
         n.nextSequence = m.nextSequence,
         n.out \in Seq(Frame),
         DOMAIN n.pendingSubscribes \subseteq DOMAIN m.pendingSubscribes,
         n.pendingSubscribes = [q \in DOMAIN n.pendingSubscribes |-> m.pendingSubscribes[q]],
         DOMAIN n.pendingUnsubscribes \subseteq DOMAIN m.pendingUnsubscribes,
         n.pendingUnsubscribes =
            [q \in DOMAIN n.pendingUnsubscribes |-> m.pendingUnsubscribes[q]],
         n.topics \in [DOMAIN m.topics -> Topic],
         \A k \in DOMAIN m.topics : n.topics[k].inFlightSequence # 0 =>
            /\ n.topics[k].inFlightSequence = m.topics[k].inFlightSequence
            /\ n.topics[k].inFlightSequence \in DOMAIN n.pendingSubscribes,
         \A k \in DOMAIN m.topics \ E :
            n.topics[k].subscriptionId # 0 => m.topics[k].subscriptionId # 0
  PROVE  Good(n) /\ CountedExcept(n, E)
<1>1. DOMAIN n.topics = DOMAIN m.topics
  OBVIOUS
<1>2. /\ n.pendingSubscribes \in [DOMAIN n.pendingSubscribes -> Key]
      /\ n.pendingUnsubscribes \in [DOMAIN n.pendingUnsubscribes -> Key]
  BY DEF Good, ManagerOK
<1>3. ManagerOK(n)
  BY <1>1, <1>2 DEF Good, ManagerOK
<1>4. Correlated(n)
  BY <1>1 DEF Good, Correlated
<1>5. CountedExcept(n, E)
  BY <1>1 DEF CountedExcept, ConsumersOf
<1> QED
  BY <1>3, <1>4, <1>5 DEF Good

\* syncTopic() restores the count of the one topic that may be off.
LEMMA SyncTopicOK ==
  ASSUME NEW m, Good(m), NEW boots \in Boots, NEW k, CountedExcept(m, {k})
  PROVE  LET n == SyncTopic(m, boots, k)
         IN /\ Good(n)
            /\ CountedExcept(n, {})
            /\ n.subscribers = m.subscribers
<1>1. CASE k \notin DOMAIN m.topics
  BY <1>1 DEF SyncTopic, CountedExcept
<1>2. CASE k \in DOMAIN m.topics /\ ConsumersOf(m, k) = {}
  <2> DEFINE m1 == [m EXCEPT !.topics[k].deferredForBootId = FALSE]
             m2 == IF m.topics[k].subscriptionId # 0 THEN Release(m1, k) ELSE m1
  <2>1. /\ DOMAIN m1 = Members
        /\ m1.subscribers = m.subscribers
        /\ m1.nextHandle = m.nextHandle
        /\ m1.nextSequence = m.nextSequence
        /\ m1.pendingSubscribes = m.pendingSubscribes
        /\ m1.pendingUnsubscribes = m.pendingUnsubscribes
        /\ m1.out = m.out
    BY DEF Good, ManagerOK, Members
  <2>2. m1.topics = [m.topics EXCEPT ![k] = [@ EXCEPT !.deferredForBootId = FALSE]]
    BY DEF Good, ManagerOK, Members
  <2>3. m.topics[k] \in Topic
    BY <1>2 DEF Good, ManagerOK
  <2> HIDE DEF m1
  <2>4. [m.topics[k] EXCEPT !.deferredForBootId = FALSE] \in Topic
    BY <2>3 DEF Topic
  <2>5. \A j \in DOMAIN m.topics :
           /\ m1.topics[j] \in Topic
           /\ m1.topics[j].subscriptionId = m.topics[j].subscriptionId
           /\ m1.topics[j].inFlightSequence = m.topics[j].inFlightSequence
    BY <1>2, <2>2, <2>3, <2>4 DEF Good, ManagerOK, Topic
  <2>6. DOMAIN m1.topics = DOMAIN m.topics /\ m1.topics \in [DOMAIN m.topics -> Topic]
    BY <2>2, <2>5
  <2>7. Good(m1)
    BY <2>1, <2>5, <2>6 DEF Good, ManagerOK, Correlated
  <2>8. CountedExcept(m1, {k})
    BY <2>1, <2>5, <2>6 DEF CountedExcept, ConsumersOf
  <2>9. Good(m2) /\ CountedExcept(m2, {}) /\ m2.subscribers = m.subscribers
    <3>1. CASE m.topics[k].subscriptionId # 0
      <4>1. Good(Release(m1, k)) /\ CountedExcept(Release(m1, k), {k} \ {k})
            /\ Release(m1, k).subscribers = m1.subscribers
        BY <1>2, <2>5, <2>6, <2>7, <2>8, <3>1, ReleaseOK DEF Follows
      <4> QED
        BY <2>1, <3>1, <4>1
    <3>2. CASE m.topics[k].subscriptionId = 0
      BY <1>2, <2>1, <2>5, <2>6, <2>7, <2>8, <3>2 DEF CountedExcept
    <3> QED
      BY <3>1, <3>2
  <2> HIDE DEF m2
  <2>10. Good(DropIfIdle(m2, {k})) /\ CountedExcept(DropIfIdle(m2, {k}), {})
         /\ DropIfIdle(m2, {k}).subscribers = m2.subscribers
    BY <2>9, DropIfIdleOK
  <2> QED
    BY <1>2, <2>9, <2>10 DEF SyncTopic, m1, m2
<1>3. CASE k \in DOMAIN m.topics /\ ConsumersOf(m, k) # {}
  <2>1. CountedExcept(m, {})
    BY <1>3 DEF CountedExcept
  <2>2. CASE NeedsSubscribe(m, k)
    BY <1>3, <2>1, <2>2, SendSubscribeOK DEF SyncTopic, Follows
  <2>3. CASE ~NeedsSubscribe(m, k)
    BY <1>3, <2>1, <2>3 DEF SyncTopic
  <2> QED
    BY <2>2, <2>3
<1> QED
  BY <1>1, <1>2, <1>3

\* syncTopic() in a loop, as after a session change, a reboot or a manifest.
LEMMA SyncTopicsOK ==
  ASSUME NEW m, Good(m), CountedExcept(m, {}), NEW boots \in Boots,
         NEW K \in SUBSET DOMAIN m.topics,
         NEW order \in Orders(boots, ToRequest(m, K))
  PROVE  LET n == SyncTopics(m, boots, K, order)
         IN /\ Good(n)
            /\ CountedExcept(n, {})
            /\ n.subscribers = m.subscribers
<1> DEFINE d == DropIfIdle(m, K)
           R == ToRequest(m, K)
<1>1. /\ Good(d) /\ CountedExcept(d, {}) /\ d.subscribers = m.subscribers
      /\ \A k \in DOMAIN m.topics : ConsumersOf(m, k) # {} => k \in DOMAIN d.topics
  BY DropIfIdleOK
<1> HIDE DEF d
<1>2. R \in SUBSET DOMAIN d.topics /\ \A k \in R : ConsumersOf(d, k) # {}
  BY <1>1 DEF ToRequest, NeedsSubscribe, ConsumersOf
<1> HIDE DEF R
<1>3. order \in Orders(boots, R)
  BY DEF R
<1>4. /\ Good(SendSubscribes(d, boots, R, order))
      /\ Follows(d, SendSubscribes(d, boots, R, order))
  BY <1>1, <1>2, <1>3, SendSubscribesOK
<1> QED
  BY <1>1, <1>4 DEF SyncTopics, Follows, d, R

\* addSubscriber() before it syncs, and removeSubscriber().
Joined(m, k, r) ==
  [m EXCEPT !.subscribers = With(m.subscribers, m.nextHandle, [key |-> k, rate |-> r]),
            !.nextHandle = @ + 1,
            !.topics = IF k \in DOMAIN m.topics THEN m.topics
                       ELSE With(m.topics, k, NewTopic)]
Left(m, h) == [m EXCEPT !.subscribers = Without(m.subscribers, {h})]

\* n is m with one more consumer of k, at rate r.
HasJoined(m, n, k, r) ==
  /\ DOMAIN n.subscribers = DOMAIN m.subscribers \cup {m.nextHandle}
  /\ m.nextHandle \notin DOMAIN m.subscribers
  /\ n.subscribers[m.nextHandle] = [key |-> k, rate |-> r]
  /\ \A h \in DOMAIN m.subscribers : n.subscribers[h] = m.subscribers[h]
  /\ DOMAIN n.topics = DOMAIN m.topics \cup {k}
  /\ \A j \in DOMAIN m.topics : n.topics[j] = m.topics[j]
  /\ n.out = m.out

\* A new consumer has a topic entry, whose grant is not counted yet.
LEMMA JoinedOK ==
  ASSUME NEW m, Good(m), CountedExcept(m, {}), NEW k \in Key, NEW r \in Rate
  PROVE  LET n == Joined(m, k, r)
         IN /\ Good(n) /\ CountedExcept(n, {k})
            /\ HasJoined(m, n, k, r)
<1> DEFINE m1 == Joined(m, k, r)
<1>1. /\ DOMAIN m1 = Members
      /\ m1.nextHandle = m.nextHandle + 1
      /\ m1.nextSequence = m.nextSequence
      /\ m1.pendingSubscribes = m.pendingSubscribes
      /\ m1.pendingUnsubscribes = m.pendingUnsubscribes
      /\ m1.out = m.out
  BY DEF Good, ManagerOK, Members, Joined
<1>2. m1.subscribers = With(m.subscribers, m.nextHandle, [key |-> k, rate |-> r])
  BY DEF Good, ManagerOK, Members, Joined
<1>3. m1.topics = IF k \in DOMAIN m.topics THEN m.topics ELSE With(m.topics, k, NewTopic)
  BY DEF Good, ManagerOK, Members, Joined
<1> HIDE DEF m1
<1>4. m.nextHandle \in Nat \ {0} /\ DOMAIN m.subscribers \subseteq 1..(m.nextHandle - 1)
  BY DEF Good, ManagerOK
<1>5. /\ DOMAIN m1.subscribers = DOMAIN m.subscribers \cup {m.nextHandle}
      /\ m.nextHandle \notin DOMAIN m.subscribers
      /\ m1.subscribers[m.nextHandle] = [key |-> k, rate |-> r]
      /\ \A h \in DOMAIN m.subscribers : m1.subscribers[h] = m.subscribers[h]
  BY <1>2, <1>4 DEF With
<1>6. m1.subscribers \in [DOMAIN m1.subscribers -> [key : Key, rate : Rate]]
  BY <1>2, <1>5 DEF With, Good, ManagerOK
<1>7. /\ NewTopic \in Topic
      /\ NewTopic.subscriptionId = 0 /\ NewTopic.inFlightSequence = 0
  BY DEF NewTopic, Topic
<1>8. /\ DOMAIN m1.topics = DOMAIN m.topics \cup {k}
      /\ \A j \in DOMAIN m.topics : m1.topics[j] = m.topics[j]
      /\ k \notin DOMAIN m.topics => m1.topics[k] = NewTopic
  BY <1>3 DEF With
<1>9. m1.topics \in [DOMAIN m1.topics -> Topic]
  BY <1>3, <1>7, <1>8 DEF With, Good, ManagerOK
<1>10. ManagerOK(m1)
  <2>1. m1.nextHandle \in Nat \ {0} /\ DOMAIN m1.subscribers \subseteq 1..(m1.nextHandle - 1)
    BY <1>1, <1>4, <1>5
  <2> QED
    BY <1>1, <1>6, <1>8, <1>9, <2>1 DEF Good, ManagerOK
<1>11. Correlated(m1)
  BY <1>1, <1>7, <1>8 DEF Good, Correlated
<1>12. CountedExcept(m1, {k})
  <2>1. ASSUME NEW h \in DOMAIN m1.subscribers
        PROVE  m1.subscribers[h].key \in DOMAIN m1.topics
    BY <1>5, <1>8, <2>1 DEF CountedExcept
  <2>2. ASSUME NEW j \in DOMAIN m1.topics \ {k}, m1.topics[j].subscriptionId # 0
        PROVE  ConsumersOf(m1, j) # {}
    BY <1>5, <1>8, <2>2 DEF CountedExcept, ConsumersOf
  <2> QED
    BY <2>1, <2>2 DEF CountedExcept
<1> QED
  BY <1>1, <1>5, <1>8, <1>10, <1>11, <1>12 DEF Good, HasJoined, m1

\* addSubscriber().
LEMMA AddConsumerOK ==
  ASSUME NEW m, Good(m), CountedExcept(m, {}), NEW boots \in Boots,
         NEW k \in Key, NEW r \in Rate
  PROVE  LET n == AddConsumer(m, boots, k, r)
         IN Good(n) /\ CountedExcept(n, {})
<1>1. Good(Joined(m, k, r)) /\ CountedExcept(Joined(m, k, r), {k})
  BY JoinedOK
<1>2. AddConsumer(m, boots, k, r) = SyncTopic(Joined(m, k, r), boots, k)
  BY DEF AddConsumer, Joined
<1> QED
  BY <1>1, <1>2, SyncTopicOK

\* The topic of a consumer that left is not counted yet.
LEMMA LeftOK ==
  ASSUME NEW m, Good(m), CountedExcept(m, {}), NEW h \in DOMAIN m.subscribers
  PROVE  LET n == Left(m, h)
         IN /\ Good(n) /\ CountedExcept(n, {m.subscribers[h].key})
            /\ n.subscribers = [g \in DOMAIN m.subscribers \ {h} |-> m.subscribers[g]]
            /\ n.topics = m.topics
            /\ n.out = m.out
<1> DEFINE m1 == Left(m, h)
           k == m.subscribers[h].key
<1>1. /\ DOMAIN m1 = Members
      /\ m1.topics = m.topics
      /\ m1.nextHandle = m.nextHandle
      /\ m1.nextSequence = m.nextSequence
      /\ m1.pendingSubscribes = m.pendingSubscribes
      /\ m1.pendingUnsubscribes = m.pendingUnsubscribes
      /\ m1.out = m.out
  BY DEF Good, ManagerOK, Members, Left
<1>2. m1.subscribers = [g \in DOMAIN m.subscribers \ {h} |-> m.subscribers[g]]
  BY DEF Good, ManagerOK, Members, Left, Without, Restrict
<1> HIDE DEF m1
<1>3. /\ m1.subscribers \in [DOMAIN m1.subscribers -> [key : Key, rate : Rate]]
      /\ DOMAIN m1.subscribers \subseteq DOMAIN m.subscribers
  BY <1>2 DEF Good, ManagerOK
<1>4. Good(m1)
  BY <1>1, <1>3 DEF Good, ManagerOK, Correlated
<1>5. CountedExcept(m1, {k})
  <2>1. ASSUME NEW g \in DOMAIN m1.subscribers
        PROVE  m1.subscribers[g].key \in DOMAIN m1.topics
    BY <1>1, <1>2, <2>1 DEF CountedExcept
  <2>2. ASSUME NEW j \in DOMAIN m1.topics \ {k}, m1.topics[j].subscriptionId # 0
        PROVE  ConsumersOf(m1, j) # {}
    <3>1. PICK g \in DOMAIN m.subscribers : m.subscribers[g].key = j
      BY <1>1, <2>2 DEF CountedExcept, ConsumersOf
    <3>2. g \in DOMAIN m1.subscribers /\ m1.subscribers[g].key = j
      BY <1>2, <2>2, <3>1
    <3> QED
      BY <3>2 DEF ConsumersOf
  <2> QED
    BY <2>1, <2>2 DEF CountedExcept
<1> QED
  BY <1>1, <1>2, <1>4, <1>5 DEF m1

\* removeSubscriber().
LEMMA RemoveConsumerOK ==
  ASSUME NEW m, Good(m), CountedExcept(m, {}), NEW boots \in Boots,
         NEW h \in DOMAIN m.subscribers
  PROVE  LET n == RemoveConsumer(m, boots, h)
         IN Good(n) /\ CountedExcept(n, {})
<1>1. Good(Left(m, h)) /\ CountedExcept(Left(m, h), {m.subscribers[h].key})
  BY LeftOK
<1>2. RemoveConsumer(m, boots, h) = SyncTopic(Left(m, h), boots, m.subscribers[h].key)
  BY DEF RemoveConsumer, Left
<1> QED
  BY <1>1, <1>2, SyncTopicOK

\* The end of handleSubscribeResult(): a grant nobody waits for is released.
LEMMA ReconcileOK ==
  ASSUME NEW m, Good(m), NEW boots \in Boots, NEW k \in DOMAIN m.topics,
         CountedExcept(m, {k})
  PROVE  LET n == Reconcile(m, boots, k)
         IN Good(n) /\ CountedExcept(n, {})
<1> DEFINE m2 == IF m.topics[k].subscriptionId # 0 THEN Release(m, k) ELSE m
<1>1. CASE ConsumersOf(m, k) = {}
  <2>1. Good(m2) /\ CountedExcept(m2, {})
    <3>1. CASE m.topics[k].subscriptionId # 0
      <4>1. Good(Release(m, k)) /\ CountedExcept(Release(m, k), {k} \ {k})
        BY <3>1, ReleaseOK
      <4> QED
        BY <3>1, <4>1
    <3>2. CASE m.topics[k].subscriptionId = 0
      BY <3>2 DEF CountedExcept
    <3> QED
      BY <3>1, <3>2
  <2> HIDE DEF m2
  <2>2. Good(DropIfIdle(m2, {k})) /\ CountedExcept(DropIfIdle(m2, {k}), {})
    BY <2>1, DropIfIdleOK
  <2> QED
    BY <1>1, <2>2 DEF Reconcile, m2
<1>2. CASE ConsumersOf(m, k) # {}
  <2>1. CountedExcept(m, {})
    BY <1>2 DEF CountedExcept
  <2> QED
    BY <1>2, <2>1, SendSubscribeOK DEF Reconcile, Follows
<1> QED
  BY <1>1, <1>2

\* handleSubscribeResult() takes the pending entry first.
Taken(m, seq) == [m EXCEPT !.pendingSubscribes = Without(m.pendingSubscribes, {seq})]

\* Is seq the request that its topic waits for?
Awaited(m, seq) ==
  LET k == m.pendingSubscribes[seq]
  IN k \in DOMAIN m.topics /\ m.topics[k].inFlightSequence = seq

\* What an answer makes of the topic that waits for it.
AnswerTo(t, status, id) ==
  LET granted == status = "SUCCESS" /\ id # 0
  IN [t EXCEPT !.inFlightSequence = 0,
               !.lastStatus = status,
               !.subscriptionId = IF granted THEN id ELSE 0,
               !.sentRate = IF granted THEN t.sentRate ELSE 0]

\* What an answer makes of the object that waits for it.
Received(m, seq, status, id) ==
  Answered(Taken(m, seq), m.pendingSubscribes[seq], status, id)

\* handleSubscribeResult() takes the pending entry and leaves the topics alone.
LEMMA TakenIs ==
  ASSUME NEW m, Good(m), NEW seq
  PROVE  LET n == Taken(m, seq)
         IN /\ DOMAIN n = Members
            /\ n.subscribers = m.subscribers
            /\ n.topics = m.topics
            /\ n.nextHandle = m.nextHandle
            /\ n.nextSequence = m.nextSequence
            /\ n.pendingUnsubscribes = m.pendingUnsubscribes
            /\ n.out = m.out
            /\ n.pendingSubscribes =
                 [q \in DOMAIN m.pendingSubscribes \ {seq} |-> m.pendingSubscribes[q]]
BY DEF Good, ManagerOK, Members, Taken, Without, Restrict

\* A superseded answer changes nothing else.
LEMMA SupersededOK ==
  ASSUME NEW m, Good(m), CountedExcept(m, {}),
         NEW seq \in DOMAIN m.pendingSubscribes, ~Awaited(m, seq)
  PROVE  Good(Taken(m, seq)) /\ CountedExcept(Taken(m, seq), {})
<1> DEFINE m1 == Taken(m, seq)
<1>1. /\ DOMAIN m1 = Members
      /\ m1.subscribers = m.subscribers
      /\ m1.topics = m.topics
      /\ m1.nextHandle = m.nextHandle
      /\ m1.nextSequence = m.nextSequence
      /\ m1.pendingUnsubscribes = m.pendingUnsubscribes
      /\ m1.out = m.out
      /\ m1.pendingSubscribes =
           [q \in DOMAIN m.pendingSubscribes \ {seq} |-> m.pendingSubscribes[q]]
  BY TakenIs
<1> HIDE DEF m1
<1>2. \A j \in DOMAIN m.topics : m.topics[j].inFlightSequence # 0 =>
         m.topics[j].inFlightSequence \in DOMAIN m1.pendingSubscribes
  BY <1>1 DEF Good, Correlated, Awaited
<1>3. DOMAIN m1.pendingSubscribes \subseteq DOMAIN m.pendingSubscribes
      /\ m1.pendingSubscribes = [q \in DOMAIN m1.pendingSubscribes |-> m.pendingSubscribes[q]]
  BY <1>1
<1>4. /\ m1.out \in Seq(Frame)
      /\ m1.topics \in [DOMAIN m.topics -> Topic]
      /\ m1.pendingUnsubscribes =
           [q \in DOMAIN m1.pendingUnsubscribes |-> m.pendingUnsubscribes[q]]
  BY <1>1 DEF Good, ManagerOK
<1>5. Good(m1) /\ CountedExcept(m1, {})
  BY <1>1, <1>2, <1>3, <1>4, RewriteOK
<1> QED
  BY <1>5 DEF m1

\* a is m with t for topic k.
OneTopicChanges(m, a, k, t) ==
  /\ k \in DOMAIN m.topics /\ DOMAIN a.topics = DOMAIN m.topics
  /\ a.subscribers = m.subscribers /\ a.out = m.out
  /\ a.topics[k] = t
  /\ \A j \in DOMAIN m.topics \ {k} : a.topics[j] = m.topics[j]

\* The awaited answer changes one topic, whose grant is not counted yet.
LEMMA ReceivedOK ==
  ASSUME NEW m, Good(m), CountedExcept(m, {}),
         NEW seq \in DOMAIN m.pendingSubscribes, Awaited(m, seq),
         NEW status \in Status, NEW id \in SubscriptionId \cup {0}
  PROVE  LET k == m.pendingSubscribes[seq]
             a == Received(m, seq, status, id)
         IN /\ Good(a) /\ CountedExcept(a, {k})
            /\ OneTopicChanges(m, a, k, AnswerTo(m.topics[k], status, id))
<1> DEFINE k == m.pendingSubscribes[seq]
           m1 == Taken(m, seq)
           a == Received(m, seq, status, id)
           t == AnswerTo(m.topics[k], status, id)
<1>1. /\ DOMAIN m1 = Members
      /\ m1.subscribers = m.subscribers
      /\ m1.topics = m.topics
      /\ m1.nextHandle = m.nextHandle
      /\ m1.nextSequence = m.nextSequence
      /\ m1.pendingUnsubscribes = m.pendingUnsubscribes
      /\ m1.out = m.out
      /\ m1.pendingSubscribes =
           [q \in DOMAIN m.pendingSubscribes \ {seq} |-> m.pendingSubscribes[q]]
  BY TakenIs
<1>2. a = Answered(m1, k, status, id)
  BY DEF Received
<1> HIDE DEF m1, a
<1>3. k \in DOMAIN m.topics /\ m.topics[k].inFlightSequence = seq
  BY DEF Awaited
<1>4. /\ DOMAIN a = Members
      /\ a.subscribers = m.subscribers
      /\ a.nextHandle = m.nextHandle
      /\ a.nextSequence = m.nextSequence
      /\ a.pendingSubscribes = m1.pendingSubscribes
      /\ a.pendingUnsubscribes = m.pendingUnsubscribes
      /\ a.out = m.out
  BY <1>1, <1>2 DEF Answered, Members
<1>5. a.topics = [m.topics EXCEPT ![k] = t]
  <2>1. a.topics = [m1.topics EXCEPT ![k] = AnswerTo(m1.topics[k], status, id)]
    BY <1>1, <1>2 DEF Answered, AnswerTo, Members
  <2> QED
    BY <1>1, <2>1
<1>6. t \in Topic /\ t.inFlightSequence = 0
  <2>1. m.topics[k] \in Topic
    BY <1>3 DEF Good, ManagerOK
  <2> HIDE DEF k
  <2> QED
    BY <2>1 DEF Topic, AnswerTo
<1> HIDE DEF t
<1>7. /\ a.topics \in [DOMAIN m.topics -> Topic]
      /\ DOMAIN a.topics = DOMAIN m.topics
      /\ a.topics[k] = t
      /\ \A j \in DOMAIN m.topics \ {k} : a.topics[j] = m.topics[j]
  BY <1>3, <1>5, <1>6 DEF Good, ManagerOK
<1>8. \A j \in DOMAIN m.topics : a.topics[j].inFlightSequence # 0 =>
         /\ a.topics[j].inFlightSequence = m.topics[j].inFlightSequence
         /\ a.topics[j].inFlightSequence \in DOMAIN a.pendingSubscribes
  <2> SUFFICES ASSUME NEW j \in DOMAIN m.topics, j # k,
                      m.topics[j].inFlightSequence # 0
               PROVE  m.topics[j].inFlightSequence \in DOMAIN a.pendingSubscribes
    BY <1>6, <1>7
  <2> QED
    BY <1>1, <1>4 DEF Good, Correlated
<1>9. DOMAIN a.pendingSubscribes \subseteq DOMAIN m.pendingSubscribes
      /\ a.pendingSubscribes = [q \in DOMAIN a.pendingSubscribes |-> m.pendingSubscribes[q]]
  BY <1>1, <1>4
<1>10. /\ a.out \in Seq(Frame)
       /\ DOMAIN a.pendingUnsubscribes \subseteq DOMAIN m.pendingUnsubscribes
       /\ a.pendingUnsubscribes =
            [q \in DOMAIN a.pendingUnsubscribes |-> m.pendingUnsubscribes[q]]
  BY <1>4 DEF Good, ManagerOK
<1>11. CountedExcept(m, {k})
  BY DEF CountedExcept
<1>12. \A j \in DOMAIN m.topics \ {k} :
          a.topics[j].subscriptionId # 0 => m.topics[j].subscriptionId # 0
  BY <1>7
<1>13. Good(a) /\ CountedExcept(a, {k})
  BY <1>4, <1>7, <1>8, <1>9, <1>10, <1>11, <1>12, RewriteOK
<1> QED
  BY <1>3, <1>4, <1>7, <1>13 DEF a, t, OneTopicChanges

\* handleSubscribeResult(), in the words of the lemmas above.
LEMMA HandleSubscribeResultIs ==
  ASSUME NEW m, Good(m), NEW boots, NEW seq, NEW status, NEW id
  PROVE  /\ Awaited(m, seq) =>
              HandleSubscribeResult(m, boots, seq, status, id) =
                Reconcile(Received(m, seq, status, id), boots, m.pendingSubscribes[seq])
         /\ ~Awaited(m, seq) =>
              HandleSubscribeResult(m, boots, seq, status, id) = Taken(m, seq)
<1>1. Taken(m, seq).topics = m.topics
  BY TakenIs
<1>2. HandleSubscribeResult(m, boots, seq, status, id) =
        IF m.pendingSubscribes[seq] \notin DOMAIN m.topics THEN Taken(m, seq)
        ELSE IF m.topics[m.pendingSubscribes[seq]].inFlightSequence # seq THEN Taken(m, seq)
        ELSE Reconcile(Received(m, seq, status, id), boots, m.pendingSubscribes[seq])
  BY DEF HandleSubscribeResult, Taken, Received
<1> QED
  BY <1>2 DEF Awaited

\* handleSubscribeResult(), the superseded answers included.
LEMMA HandleSubscribeResultOK ==
  ASSUME NEW m, Good(m), CountedExcept(m, {}), NEW boots \in Boots,
         NEW seq \in DOMAIN m.pendingSubscribes,
         NEW status \in Status, NEW id \in SubscriptionId \cup {0}
  PROVE  LET n == HandleSubscribeResult(m, boots, seq, status, id)
         IN Good(n) /\ CountedExcept(n, {})
<1> DEFINE k == m.pendingSubscribes[seq]
           a == Received(m, seq, status, id)
<1>1. CASE Awaited(m, seq)
  <2>1. Good(a) /\ CountedExcept(a, {k}) /\ k \in DOMAIN a.topics
    <3>1. OneTopicChanges(m, a, k, AnswerTo(m.topics[k], status, id))
          /\ Good(a) /\ CountedExcept(a, {k})
      BY <1>1, ReceivedOK
    <3> QED
      BY <3>1 DEF OneTopicChanges
  <2> HIDE DEF a
  <2>2. Good(Reconcile(a, boots, k)) /\ CountedExcept(Reconcile(a, boots, k), {})
    BY <2>1, ReconcileOK
  <2> QED
    BY <1>1, <2>2, HandleSubscribeResultIs DEF a
<1>2. CASE ~Awaited(m, seq)
  BY <1>2, SupersededOK, HandleSubscribeResultIs
<1> QED
  BY <1>1, <1>2

\* renewDueSubscriptions() forgets a late request and its correlation together.
\* Two topics never wait for the same sequence, so no other topic is hurt.
LEMMA GiveUpOK ==
  ASSUME NEW m, Good(m), CountedExcept(m, {}), NEW late \in SUBSET DOMAIN m.topics
  PROVE  LET n == GiveUp(m, late)
         IN /\ Good(n) /\ CountedExcept(n, {})
            /\ n.subscribers = m.subscribers
            /\ DOMAIN n.topics = DOMAIN m.topics
<1> DEFINE n == GiveUp(m, late)
           gone == {m.topics[k].inFlightSequence : k \in late}
<1>1. /\ DOMAIN n = Members
      /\ n.subscribers = m.subscribers
      /\ n.nextHandle = m.nextHandle
      /\ n.nextSequence = m.nextSequence
      /\ n.pendingUnsubscribes = m.pendingUnsubscribes
      /\ n.out = m.out
  BY DEF Good, ManagerOK, Members, GiveUp
<1>2. n.pendingSubscribes = [q \in DOMAIN m.pendingSubscribes \ gone |-> m.pendingSubscribes[q]]
  BY DEF Good, ManagerOK, Members, GiveUp, Without, Restrict
<1>3. n.topics = [k \in DOMAIN m.topics |->
         IF k \in late THEN [m.topics[k] EXCEPT !.inFlightSequence = 0] ELSE m.topics[k]]
  BY DEF Good, ManagerOK, Members, GiveUp
<1> HIDE DEF n
<1>4. ASSUME NEW k \in DOMAIN m.topics
      PROVE  /\ n.topics[k] \in Topic
             /\ n.topics[k].subscriptionId = m.topics[k].subscriptionId
             /\ n.topics[k].inFlightSequence # 0 =>
                   k \notin late /\ n.topics[k] = m.topics[k]
  <2>1. m.topics[k] \in Topic
    BY DEF Good, ManagerOK
  <2>2. /\ [m.topics[k] EXCEPT !.inFlightSequence = 0] \in Topic
        /\ [m.topics[k] EXCEPT !.inFlightSequence = 0].inFlightSequence = 0
        /\ [m.topics[k] EXCEPT !.inFlightSequence = 0].subscriptionId = m.topics[k].subscriptionId
    BY <2>1 DEF Topic
  <2> QED
    BY <1>3, <2>1, <2>2
<1>5. ASSUME NEW k \in DOMAIN m.topics, n.topics[k].inFlightSequence # 0
      PROVE  /\ n.topics[k].inFlightSequence = m.topics[k].inFlightSequence
             /\ n.topics[k].inFlightSequence \in DOMAIN n.pendingSubscribes
  <2>1. k \notin late /\ n.topics[k] = m.topics[k] /\ m.topics[k].inFlightSequence # 0
    BY <1>4, <1>5
  <2>2. m.topics[k].inFlightSequence \notin gone
    BY <2>1 DEF Good, Correlated
  <2> QED
    BY <1>2, <2>1, <2>2 DEF Good, Correlated
<1>6. n.topics \in [DOMAIN m.topics -> Topic]
  BY <1>3, <1>4
<1> HIDE DEF gone
<1>7. /\ DOMAIN n.pendingSubscribes \subseteq DOMAIN m.pendingSubscribes
      /\ n.pendingSubscribes = [q \in DOMAIN n.pendingSubscribes |-> m.pendingSubscribes[q]]
  BY <1>2
<1>8. /\ n.out \in Seq(Frame)
      /\ n.pendingUnsubscribes =
            [q \in DOMAIN n.pendingUnsubscribes |-> m.pendingUnsubscribes[q]]
  BY <1>1 DEF Good, ManagerOK
<1>9. Good(n) /\ CountedExcept(n, {})
  BY <1>1, <1>4, <1>5, <1>6, <1>7, <1>8, RewriteOK
<1> QED
  BY <1>1, <1>6, <1>9 DEF n

\* What a session change or a reboot leaves of a topic.
LEMMA ForgetType ==
  ASSUME NEW t \in Topic
  PROVE  /\ Forget(t) \in Topic
         /\ [Forget(t) EXCEPT !.targetBootId = 0] \in Topic
         /\ Forget(t).inFlightSequence = 0
         /\ Forget(t).subscriptionId = 0
         /\ [Forget(t) EXCEPT !.targetBootId = 0].inFlightSequence = 0
         /\ [Forget(t) EXCEPT !.targetBootId = 0].subscriptionId = 0
BY DEF Forget, Topic

\* onSessionEstablished() and onSessionLost() before they sync.
LEMMA ForgetAllOK ==
  ASSUME NEW m, Good(m), CountedExcept(m, {})
  PROVE  LET n == ForgetAll(m)
         IN /\ Good(n) /\ CountedExcept(n, {})
            /\ n.subscribers = m.subscribers
            /\ DOMAIN n.topics = DOMAIN m.topics
<1> DEFINE n == ForgetAll(m)
<1>1. /\ DOMAIN n = Members
      /\ n.subscribers = m.subscribers
      /\ n.nextHandle = m.nextHandle
      /\ n.nextSequence = m.nextSequence
      /\ n.out = m.out
  BY DEF Good, ManagerOK, Members, ForgetAll
<1>2. n.pendingSubscribes = <<>> /\ n.pendingUnsubscribes = <<>>
  BY DEF Good, ManagerOK, Members, ForgetAll
<1>3. n.topics = [k \in DOMAIN m.topics |-> Forget(m.topics[k])]
  BY DEF Good, ManagerOK, Members, ForgetAll
<1> HIDE DEF n
<1>4. \A k \in DOMAIN m.topics : /\ n.topics[k] \in Topic
                                 /\ n.topics[k].inFlightSequence = 0
                                 /\ n.topics[k].subscriptionId = 0
  <2> TAKE k \in DOMAIN m.topics
  <2>1. m.topics[k] \in Topic
    BY DEF Good, ManagerOK
  <2> QED
    BY <1>3, <2>1, ForgetType
<1>5. n.topics \in [DOMAIN m.topics -> Topic]
  BY <1>3, <1>4
<1>6. /\ DOMAIN n.pendingSubscribes = {}
      /\ n.pendingSubscribes = [q \in DOMAIN n.pendingSubscribes |-> m.pendingSubscribes[q]]
  BY <1>2
<1>7. /\ DOMAIN n.pendingUnsubscribes = {}
      /\ n.pendingUnsubscribes =
            [q \in DOMAIN n.pendingUnsubscribes |-> m.pendingUnsubscribes[q]]
  BY <1>2
<1>8. n.out \in Seq(Frame)
  BY <1>1 DEF Good, ManagerOK
<1>9. \A k \in DOMAIN m.topics : n.topics[k].inFlightSequence # 0 =>
         /\ n.topics[k].inFlightSequence = m.topics[k].inFlightSequence
         /\ n.topics[k].inFlightSequence \in DOMAIN n.pendingSubscribes
  BY <1>4
<1>10. \A k \in DOMAIN m.topics \ {} :
          n.topics[k].subscriptionId # 0 => m.topics[k].subscriptionId # 0
  BY <1>4
<1>11. /\ DOMAIN n.pendingSubscribes \subseteq DOMAIN m.pendingSubscribes
       /\ DOMAIN n.pendingUnsubscribes \subseteq DOMAIN m.pendingUnsubscribes
  BY <1>6, <1>7
<1>12. Good(n) /\ CountedExcept(n, {})
  BY <1>1, <1>5, <1>6, <1>7, <1>8, <1>9, <1>10, <1>11, RewriteOK
<1> QED
  BY <1>1, <1>5, <1>12 DEF n

\* onPeerRebooted() before it syncs: the topics of other sources keep theirs.
LEMMA ForgetSourceOK ==
  ASSUME NEW m, Good(m), CountedExcept(m, {}), NEW K
  PROVE  LET n == ForgetSource(m, K)
         IN /\ Good(n) /\ CountedExcept(n, {})
            /\ DOMAIN n.topics = DOMAIN m.topics
<1> DEFINE n == ForgetSource(m, K)
           gone(f) == {q \in DOMAIN f : f[q] \in K}
<1>1. /\ DOMAIN n = Members
      /\ n.subscribers = m.subscribers
      /\ n.nextHandle = m.nextHandle
      /\ n.nextSequence = m.nextSequence
      /\ n.out = m.out
  BY DEF Good, ManagerOK, Members, ForgetSource
<1>2. /\ n.pendingSubscribes =
           [q \in DOMAIN m.pendingSubscribes \ gone(m.pendingSubscribes) |->
              m.pendingSubscribes[q]]
      /\ n.pendingUnsubscribes =
           [q \in DOMAIN m.pendingUnsubscribes \ gone(m.pendingUnsubscribes) |->
              m.pendingUnsubscribes[q]]
  BY DEF Good, ManagerOK, Members, ForgetSource, Without, Restrict
<1>3. n.topics = [k \in DOMAIN m.topics |->
         IF k \in K THEN [Forget(m.topics[k]) EXCEPT !.targetBootId = 0] ELSE m.topics[k]]
  BY DEF Good, ManagerOK, Members, ForgetSource
<1> HIDE DEF n
<1>4. \A k \in DOMAIN m.topics :
         /\ n.topics[k] \in Topic
         /\ n.topics[k].subscriptionId # 0 => m.topics[k].subscriptionId # 0
         /\ n.topics[k].inFlightSequence # 0 => k \notin K /\ n.topics[k] = m.topics[k]
  <2> TAKE k \in DOMAIN m.topics
  <2> DEFINE t == [Forget(m.topics[k]) EXCEPT !.targetBootId = 0]
  <2>1. m.topics[k] \in Topic
    BY DEF Good, ManagerOK
  <2>2. t \in Topic /\ t.inFlightSequence = 0 /\ t.subscriptionId = 0
    BY <2>1, ForgetType
  <2>3. n.topics[k] = IF k \in K THEN t ELSE m.topics[k]
    BY <1>3
  <2> HIDE DEF t
  <2> QED
    BY <2>1, <2>2, <2>3
<1>5. \A k \in DOMAIN m.topics : n.topics[k].inFlightSequence # 0 =>
         /\ n.topics[k].inFlightSequence = m.topics[k].inFlightSequence
         /\ n.topics[k].inFlightSequence \in DOMAIN n.pendingSubscribes
  BY <1>2, <1>4 DEF Good, Correlated
<1>6. n.topics \in [DOMAIN m.topics -> Topic]
  BY <1>3, <1>4
<1>7. /\ DOMAIN n.pendingSubscribes \subseteq DOMAIN m.pendingSubscribes
      /\ n.pendingSubscribes = [q \in DOMAIN n.pendingSubscribes |-> m.pendingSubscribes[q]]
      /\ DOMAIN n.pendingUnsubscribes \subseteq DOMAIN m.pendingUnsubscribes
      /\ n.pendingUnsubscribes =
            [q \in DOMAIN n.pendingUnsubscribes |-> m.pendingUnsubscribes[q]]
  BY <1>2
<1>8. n.out \in Seq(Frame)
  BY <1>1 DEF Good, ManagerOK
<1>9. Good(n) /\ CountedExcept(n, {})
  BY <1>1, <1>4, <1>5, <1>6, <1>7, <1>8, RewriteOK
<1> QED
  BY <1>6, <1>9 DEF n

-----------------------------------------------------------------------------
(* The inductive invariant. *)

\* TypeOK, InFlightIsPending and CountedGrants are inductive together, not one by
\* one: that a grant released by the handler names a known topic needs the type,
\* and that dropping a correlation strands no other topic needs the pending map.
IInv ==
  /\ Good(mgr)
  /\ CountedExcept(mgr, {})
  /\ sourceBootId \in Boots
  /\ sessionUp \in BOOLEAN

\* The constructor establishes the invariant.
LEMMA InitIInv == Init => IInv
<1> SUFFICES ASSUME Init PROVE IInv
  OBVIOUS
<1>1. /\ DOMAIN mgr = Members
      /\ mgr.subscribers = <<>> /\ mgr.topics = <<>>
      /\ mgr.pendingSubscribes = <<>> /\ mgr.pendingUnsubscribes = <<>>
      /\ mgr.nextSequence = 1 /\ mgr.nextHandle = 1
      /\ mgr.out = <<>>
  BY DEF Init, Members
<1>2. \A S : <<>> \in [DOMAIN <<>> -> S] /\ DOMAIN <<>> = {}
  OBVIOUS
<1>3. ManagerOK(mgr)
  BY <1>1, <1>2 DEF ManagerOK
<1>4. Correlated(mgr) /\ CountedExcept(mgr, {})
  BY <1>1, <1>2 DEF Correlated, CountedExcept
<1>5. sourceBootId \in Boots /\ sessionUp \in BOOLEAN
  BY DEF Init, Boots
<1> QED
  BY <1>3, <1>4, <1>5 DEF IInv, Good

\* The object at the start of a handler.
LEMMA NowOK ==
  ASSUME IInv
  PROVE  /\ Good(Now) /\ CountedExcept(Now, {})
         /\ DOMAIN Now = Members
         /\ Now.subscribers = mgr.subscribers
         /\ Now.topics = mgr.topics
         /\ Now.pendingSubscribes = mgr.pendingSubscribes
         /\ Now.pendingUnsubscribes = mgr.pendingUnsubscribes
         /\ Now.nextSequence = mgr.nextSequence
<1>1. /\ DOMAIN Now = Members
      /\ Now.subscribers = mgr.subscribers
      /\ Now.topics = mgr.topics
      /\ Now.pendingSubscribes = mgr.pendingSubscribes
      /\ Now.pendingUnsubscribes = mgr.pendingUnsubscribes
      /\ Now.nextSequence = mgr.nextSequence
      /\ Now.nextHandle = mgr.nextHandle
      /\ Now.out = <<>>
  BY DEF Now, IInv, Good, ManagerOK, Members
<1>2. ManagerOK(Now)
  BY <1>1 DEF IInv, Good, ManagerOK
<1>3. Correlated(Now) /\ CountedExcept(Now, {})
  BY <1>1 DEF IInv, Good, Correlated, CountedExcept, ConsumersOf
<1> QED
  BY <1>1, <1>2, <1>3 DEF Good

\* Every handler of the class preserves the invariant.
LEMMA StepIInv == IInv /\ [Next]_vars => IInv'
<1> SUFFICES ASSUME IInv, [Next]_vars PROVE IInv'
  OBVIOUS
<1>n. /\ Good(Now) /\ CountedExcept(Now, {})
      /\ DOMAIN Now = Members
      /\ Now.subscribers = mgr.subscribers
      /\ Now.topics = mgr.topics
      /\ Now.pendingSubscribes = mgr.pendingSubscribes
      /\ Now.pendingUnsubscribes = mgr.pendingUnsubscribes
      /\ Now.nextSequence = mgr.nextSequence
  BY NowOK
<1>b. sourceBootId \in Boots /\ sessionUp \in BOOLEAN
  BY DEF IInv
<1> USE DEF IInv
<1>1. ASSUME NEW k \in Key, NEW r \in Rate, AddSubscriber(k, r)
      PROVE  IInv'
  BY <1>n, <1>b, <1>1, AddConsumerOK DEF AddSubscriber
<1>2. ASSUME NEW h \in DOMAIN mgr.subscribers, RemoveSubscriber(h)
      PROVE  IInv'
  BY <1>n, <1>b, <1>2, RemoveConsumerOK DEF RemoveSubscriber
<1>3. ASSUME NEW h \in DOMAIN mgr.subscribers, NEW k \in Key, NEW r \in Rate,
             UpdateSubscriber(h, k, r)
      PROVE  IInv'
  <2> DEFINE m1 == RemoveConsumer(Now, sourceBootId, h)
  <2>1. Good(m1) /\ CountedExcept(m1, {})
    BY <1>n, <1>b, RemoveConsumerOK
  <2> HIDE DEF m1
  <2>2. Good(AddConsumer(m1, sourceBootId, k, r))
        /\ CountedExcept(AddConsumer(m1, sourceBootId, k, r), {})
    BY <1>b, <2>1, AddConsumerOK
  <2> QED
    BY <1>b, <1>3, <2>2 DEF UpdateSubscriber, m1
<1>4. ASSUME NEW seq \in DOMAIN mgr.pendingSubscribes, NEW status \in Status,
             NEW id \in SubscriptionId \cup {0}, SubscribeResult(seq, status, id)
      PROVE  IInv'
  BY <1>n, <1>b, <1>4, HandleSubscribeResultOK DEF SubscribeResult
<1>5. ASSUME NEW seq \in DOMAIN mgr.pendingUnsubscribes, UnsubscribeResult(seq)
      PROVE  IInv'
  <2> DEFINE m1 == [Now EXCEPT !.pendingUnsubscribes =
                      Without(mgr.pendingUnsubscribes, {seq})]
             k == mgr.pendingUnsubscribes[seq]
  <2>1. /\ DOMAIN m1 = Members
        /\ m1.subscribers = Now.subscribers
        /\ m1.topics = Now.topics
        /\ m1.nextHandle = Now.nextHandle
        /\ m1.nextSequence = Now.nextSequence
        /\ m1.pendingSubscribes = Now.pendingSubscribes
        /\ m1.out = Now.out
    BY <1>n DEF Members
  <2>2. m1.pendingUnsubscribes =
          [q \in DOMAIN Now.pendingUnsubscribes \ {seq} |-> Now.pendingUnsubscribes[q]]
    BY <1>n DEF Members, Without, Restrict
  <2> HIDE DEF m1
  <2>3. /\ DOMAIN m1.pendingUnsubscribes \subseteq DOMAIN Now.pendingUnsubscribes
        /\ m1.pendingUnsubscribes =
              [q \in DOMAIN m1.pendingUnsubscribes |-> Now.pendingUnsubscribes[q]]
    BY <2>2
  <2>4. /\ m1.out \in Seq(Frame)
        /\ m1.topics \in [DOMAIN Now.topics -> Topic]
        /\ m1.pendingSubscribes =
              [q \in DOMAIN m1.pendingSubscribes |-> Now.pendingSubscribes[q]]
        /\ \A j \in DOMAIN Now.topics : m1.topics[j].inFlightSequence # 0 =>
              m1.topics[j].inFlightSequence \in DOMAIN m1.pendingSubscribes
    BY <1>n, <2>1 DEF Good, ManagerOK, Correlated
  <2>5. Good(m1) /\ CountedExcept(m1, {})
    BY <1>n, <2>1, <2>3, <2>4, RewriteOK
  <2>6. Good(DropIfIdle(m1, {k})) /\ CountedExcept(DropIfIdle(m1, {k}), {})
    BY <2>5, DropIfIdleOK
  <2> QED
    BY <1>b, <1>5, <2>6 DEF UnsubscribeResult, m1
<1>6. ASSUME NEW late \in SUBSET InFlightTopics, NEW due \in SUBSET RenewableTopics,
             RenewDueSubscriptions(late, due)
      PROVE  IInv'
  <2> DEFINE g == GiveUp(Now, late)
             m == DropIfIdle(g, late)
             again == ToRetry(late) \cup due
  <2>1. late \in SUBSET DOMAIN Now.topics
    BY <1>n DEF InFlightTopics
  <2>2. /\ Good(g) /\ CountedExcept(g, {})
        /\ g.subscribers = mgr.subscribers
        /\ DOMAIN g.topics = DOMAIN mgr.topics
    BY <1>n, <2>1, GiveUpOK
  <2> HIDE DEF g
  <2>3. /\ Good(m) /\ CountedExcept(m, {})
        /\ m.subscribers = g.subscribers
        /\ \A k \in DOMAIN g.topics : ConsumersOf(g, k) # {} => k \in DOMAIN m.topics
    BY <2>2, DropIfIdleOK
  <2> HIDE DEF m
  <2>4. again \in SUBSET DOMAIN m.topics /\ \A k \in again : ConsumersOf(m, k) # {}
    BY <2>2, <2>3 DEF ToRetry, RenewableTopics, InFlightTopics, ConsumersOf
  <2> HIDE DEF again
  <2>5. PICK order \in Orders(sourceBootId, again) :
           mgr' = SendSubscribes(m, sourceBootId, again, order)
    BY <1>6 DEF RenewDueSubscriptions, g, m, again
  <2>6. Good(mgr') /\ Follows(m, mgr')
    BY <1>b, <2>3, <2>4, <2>5, SendSubscribesOK
  <2> QED
    BY <1>b, <1>6, <2>3, <2>6 DEF RenewDueSubscriptions, Follows
<1>7. ASSUME NEW boots \in Boots, OnSessionEstablished(Now, boots)
      PROVE  Good(mgr') /\ CountedExcept(mgr', {})
  <2> DEFINE m1 == ForgetAll(Now)
             K == DOMAIN Now.topics
  <2>1. Good(m1) /\ CountedExcept(m1, {}) /\ DOMAIN m1.topics = K
    BY <1>n, ForgetAllOK
  <2>2. PICK order \in Orders(boots, ToRequest(m1, K)) :
           mgr' = SyncTopics(m1, boots, K, order)
    BY <1>7 DEF OnSessionEstablished
  <2> HIDE DEF m1, K
  <2> QED
    BY <2>1, <2>2, SyncTopicsOK
<1>8. ASSUME SessionEstablished
      PROVE  IInv'
  BY <1>b, <1>7, <1>8 DEF SessionEstablished
<1>9. ASSUME NEW s \in Source, NEW b \in BootId, DirectSessionEstablished(s, b)
      PROVE  IInv'
  <2>1. sourceBootId' \in Boots
    BY <1>b, <1>9 DEF DirectSessionEstablished, Boots
  <2> QED
    BY <1>7, <1>9, <2>1 DEF DirectSessionEstablished
<1>10. ASSUME SessionLost
       PROVE  IInv'
  <2> DEFINE m1 == ForgetAll(Now)
  <2>1. Good(m1) /\ CountedExcept(m1, {})
    BY <1>n, ForgetAllOK
  <2> HIDE DEF m1
  <2>2. \A K : Good(DropIfIdle(m1, K)) /\ CountedExcept(DropIfIdle(m1, K), {})
    BY <2>1, DropIfIdleOK
  <2> QED
    BY <1>b, <1>10, <2>2 DEF SessionLost, m1
<1>11. ASSUME NEW s \in Source, NEW b \in BootId, NEW rebooted \in BOOLEAN,
              ManifestData(s, b, rebooted)
       PROVE  IInv'
  <2> DEFINE boots == [sourceBootId EXCEPT ![s] = b]
             m1 == IF rebooted THEN ForgetSource(Now, TopicsOf(s)) ELSE Now
             K == (IF rebooted THEN TopicsOf(s) ELSE {}) \cup Deferred(m1)
  <2>1. boots \in Boots
    BY <1>b DEF Boots
  <2>2. Good(m1) /\ CountedExcept(m1, {}) /\ DOMAIN m1.topics = DOMAIN mgr.topics
    BY <1>n, ForgetSourceOK
  <2> HIDE DEF m1
  <2>3. K \in SUBSET DOMAIN m1.topics
    BY <2>2 DEF TopicsOf, Deferred
  <2>4. PICK order \in Orders(boots, ToRequest(m1, K)) :
           mgr' = SyncTopics(m1, boots, K, order)
    BY <1>11 DEF ManifestData, m1
  <2>5. sourceBootId' = boots /\ sessionUp' = sessionUp
    BY <1>11 DEF ManifestData
  <2> HIDE DEF boots, K
  <2>6. Good(mgr') /\ CountedExcept(mgr', {})
    BY <2>1, <2>2, <2>3, <2>4, SyncTopicsOK
  <2> QED
    BY <1>b, <2>1, <2>5, <2>6
<1>12. ASSUME NEW s \in Source, PeerReconnected(s)
       PROVE  IInv'
  <2> DEFINE K == {k \in TopicsOf(s) : ConsumersOf(mgr, k) # {}}
             gone == {q \in DOMAIN mgr.pendingSubscribes : mgr.pendingSubscribes[q] \in K}
             m1 == [Now EXCEPT
               !.topics = [k \in DOMAIN mgr.topics |->
                  IF k \in K THEN [mgr.topics[k] EXCEPT !.inFlightSequence = 0]
                  ELSE mgr.topics[k]],
               !.pendingSubscribes = Without(mgr.pendingSubscribes, gone)]
  <2>1. /\ DOMAIN m1 = Members
        /\ m1.subscribers = Now.subscribers
        /\ m1.nextHandle = Now.nextHandle
        /\ m1.nextSequence = Now.nextSequence
        /\ m1.pendingUnsubscribes = Now.pendingUnsubscribes
        /\ m1.out = Now.out
    BY <1>n DEF Members
  <2>2. m1.pendingSubscribes =
          [q \in DOMAIN Now.pendingSubscribes \ gone |-> Now.pendingSubscribes[q]]
    BY <1>n DEF Members, Without, Restrict
  <2>3. m1.topics = [k \in DOMAIN Now.topics |->
           IF k \in K THEN [Now.topics[k] EXCEPT !.inFlightSequence = 0] ELSE Now.topics[k]]
    BY <1>n DEF Members
  <2> HIDE DEF m1, K
  <2>4. ASSUME NEW k \in DOMAIN Now.topics
        PROVE  /\ m1.topics[k] \in Topic
               /\ m1.topics[k].subscriptionId = Now.topics[k].subscriptionId
               /\ m1.topics[k].inFlightSequence # 0 =>
                     k \notin K /\ m1.topics[k] = Now.topics[k]
    <3> DEFINE t == [Now.topics[k] EXCEPT !.inFlightSequence = 0]
    <3>1. Now.topics[k] \in Topic
      BY <1>n DEF Good, ManagerOK
    <3>2. /\ t \in Topic
          /\ t.inFlightSequence = 0
          /\ t.subscriptionId = Now.topics[k].subscriptionId
      BY <3>1 DEF Topic
    <3> HIDE DEF t
    <3>3. m1.topics[k] = IF k \in K THEN t ELSE Now.topics[k]
      BY <2>3 DEF t
    <3> QED
      BY <3>1, <3>2, <3>3
  <2>5. \A k \in DOMAIN Now.topics : m1.topics[k].inFlightSequence # 0 =>
           /\ m1.topics[k].inFlightSequence = Now.topics[k].inFlightSequence
           /\ m1.topics[k].inFlightSequence \in DOMAIN m1.pendingSubscribes
    BY <1>n, <2>2, <2>4 DEF Good, Correlated
  <2>6. m1.topics \in [DOMAIN Now.topics -> Topic]
    BY <2>3, <2>4
  <2>7. /\ DOMAIN m1.pendingSubscribes \subseteq DOMAIN Now.pendingSubscribes
        /\ m1.pendingSubscribes =
              [q \in DOMAIN m1.pendingSubscribes |-> Now.pendingSubscribes[q]]
    BY <2>2
  <2>8. /\ m1.out \in Seq(Frame)
        /\ m1.pendingUnsubscribes =
              [q \in DOMAIN m1.pendingUnsubscribes |-> Now.pendingUnsubscribes[q]]
    BY <1>n, <2>1 DEF Good, ManagerOK
  <2>9. Good(m1) /\ CountedExcept(m1, {})
    BY <1>n, <2>1, <2>4, <2>5, <2>6, <2>7, <2>8, RewriteOK
  <2>10. K \in SUBSET DOMAIN m1.topics /\ \A k \in K : ConsumersOf(m1, k) # {}
    BY <1>n, <2>1, <2>6 DEF K, TopicsOf, ConsumersOf
  <2>11. PICK order \in Orders(sourceBootId, K) :
            mgr' = SendSubscribes(m1, sourceBootId, K, order)
    BY <1>12 DEF PeerReconnected, m1, K
  <2>12. Good(mgr') /\ Follows(m1, mgr')
    BY <1>b, <2>9, <2>10, <2>11, SendSubscribesOK
  <2> QED
    BY <1>b, <1>12, <2>9, <2>12 DEF PeerReconnected, Follows
<1>13. ASSUME UNCHANGED vars
       PROVE  IInv'
  BY <1>13 DEF vars, Good, ManagerOK, Correlated, CountedExcept, ConsumersOf
<1> QED
  BY <1>1, <1>2, <1>3, <1>4, <1>5, <1>6, <1>8, <1>9, <1>10, <1>11, <1>12, <1>13 DEF Next

\* The object keeps the shape its class declares, whatever the handlers do.
THEOREM TypeCorrect == Spec => []TypeOK
<1>1. IInv => TypeOK
  BY DEF IInv, Good, TypeOK, Boots
<1> QED
  BY <1>1, InitIInv, StepIInv, PTL DEF Spec

\* A topic that waits for an answer can recognise it (handleSubscribeResult()
\* compares the pending entry with inFlightSequence).
THEOREM AnswersAreRecognised == Spec => []InFlightIsPending
<1>1. IInv => InFlightIsPending
  BY DEF IInv, Good, Correlated, InFlightIsPending
<1> QED
  BY <1>1, InitIInv, StepIInv, PTL DEF Spec

\* Every consumer is counted and no grant outlives its last consumer
\* (syncTopic(), handleSubscribeResult()).
THEOREM GrantsAreCounted == Spec => []CountedGrants
<1>1. IInv => CountedGrants
  BY DEF IInv, CountedExcept, CountedGrants
<1> QED
  BY <1>1, InitIInv, StepIInv, PTL DEF Spec
=============================================================================
