-------------------------- MODULE OtaClientProofs --------------------------
(***************************************************************************)
(* What the OTA client guarantees for every set of devices, whichever of   *)
(* them are addressed by a ".local" name, answer late or have a file that  *)
(* does not open, and for every timeout.                                   *)
(*                                                                         *)
(* That a device never gets a second image beside the first depends on the *)
(* walks and the message boxes: an upload that waits for its lookup starts *)
(* a POST without looking for another one, and it is only safe because     *)
(* nothing can have remembered the address, and so let a new upload go     *)
(* past the lookup, before the walk that will start the waiting one is     *)
(* over.  The invariant says so of the whole stack (CachedIsUnderWay).     *)
(***************************************************************************)
EXTENDS OtaClient, SequenceTheorems, FiniteSetTheorems, TLAPS

Frame == [walk  : {"none", "answer", "tick"},
          todo  : SUBSET Request,
          at    : {{}} \cup {{Upload(d)} : d \in Device},
          sound : BOOLEAN]

\* What walk f owes to the requests that wait: the row it is suspended at has
\* been served; a walk over an answer that will serve the status request of a
\* device will serve its upload as well.
FrameOK(f, wait) ==
  /\ f.walk # "none" => f.at \cap wait = {}
  /\ f.walk = "answer" =>
       \A d \in Device :
         Status(d) \in f.todo /\ Upload(d) \in wait => Upload(d) \in f.todo

\* Walk f will serve the upload of d with the address of d.
WillServe(f, d) == f.walk = "answer" /\ Upload(d) \in f.todo

StackOK(stack, wait) ==
  /\ stack \in Seq(Frame)
  /\ \A i \in 1 .. Len(stack) : FrameOK(stack[i], wait)

UnderWay(stack, d) == \E i \in 1 .. Len(stack) : WillServe(stack[i], d)

\* Every variable has its type.
TypeOK ==
  /\ active \in BOOLEAN
  /\ listed \subseteq Device
  /\ uploading \subseteq Device
  /\ statusAge \in [Device -> 0 .. StatusSeconds]
  /\ posts \subseteq Post
  /\ current \in [Device -> 0 .. 2]
  /\ pending \subseteq Request
  /\ queryAge \in [Request -> 0 .. LookupSeconds]
  /\ cached \subseteq Device
  /\ frames \in Seq(Frame)
  /\ defined \in BOOLEAN

\* What the client waits for, the resolver looks up.
WaitingIsAsked == \A r \in pending : queryAge[r] # 0

\* A POST that runs is the one the client takes for the device's own, and no
\* upload waits beside it.
PostIsCurrent == \A p \in posts : p[2] = current[p[1]] /\ Upload(p[1]) \notin pending

OnlyNamesWait == \A d \in Device : Upload(d) \in pending => d \in Local

\* An address that is remembered while an upload waits for it was brought by a
\* walk that has still to serve that upload.
CachedIsUnderWay ==
  defined => \A d \in cached : Upload(d) \in pending => UnderWay(frames, d)

\* The inductive invariant.
IInv ==
  /\ TypeOK
  /\ StackOK(frames, pending)
  /\ WaitingIsAsked
  /\ PostIsCurrent
  /\ OnlyNamesWait
  /\ CachedIsUnderWay
  /\ LockedRowIsServed

-----------------------------------------------------------------------------
\* The stack.

\* An upload and a status request are different requests of the device.
LEMMA RequestsDiffer ==
  /\ \A d, e \in Device : Upload(d) = Upload(e) => d = e
  /\ \A d, e \in Device : Upload(d) # Status(e)
  /\ \A d \in Device : Upload(d) \in Request /\ Status(d) \in Request
BY DEF Upload, Status, Request

\* A request is one or the other, of its device.
LEMMA RequestCases ==
  ASSUME NEW r \in Request
  PROVE  r[2] \in Device /\ (r = Upload(r[2]) \/ r = Status(r[2]))
BY DEF Upload, Status, Request

\* A frame that does its duty may be put on top, and serves what it will serve.
LEMMA PushedStack ==
  ASSUME NEW wait, NEW stack, StackOK(stack, wait),
         NEW f \in Frame, FrameOK(f, wait)
  PROVE  /\ StackOK(Append(stack, f), wait)
         /\ \A d \in Device : UnderWay(Append(stack, f), d)
                                <=> UnderWay(stack, d) \/ WillServe(f, d)
<1>1. stack \in Seq(Frame) /\ Len(stack) \in Nat
  BY LenProperties DEF StackOK
<1>2. /\ Append(stack, f) \in Seq(Frame)
      /\ Len(Append(stack, f)) = Len(stack) + 1
      /\ \A i \in 1 .. Len(stack) : Append(stack, f)[i] = stack[i]
      /\ Append(stack, f)[Len(stack) + 1] = f
  BY <1>1, AppendProperties
<1>3. \A i \in 1 .. Len(Append(stack, f)) : i \in 1 .. Len(stack) \/ i = Len(stack) + 1
  BY <1>1, <1>2
<1>4. /\ \A i \in 1 .. Len(stack) : i \in 1 .. Len(Append(stack, f))
      /\ Len(stack) + 1 \in 1 .. Len(Append(stack, f))
  BY <1>1, <1>2
<1>5. StackOK(Append(stack, f), wait)
  BY <1>2, <1>3 DEF StackOK
<1>6. ASSUME NEW d \in Device
      PROVE  UnderWay(Append(stack, f), d) <=> UnderWay(stack, d) \/ WillServe(f, d)
  BY <1>2, <1>3, <1>4 DEF UnderWay
<1> QED
  BY <1>5, <1>6

\* A stack that is not empty is its top on what is below it.
LEMMA SplitStack ==
  ASSUME NEW wait, NEW stack, StackOK(stack, wait), stack # <<>>
  PROVE  LET below == SubSeq(stack, 1, Len(stack) - 1)
             top == stack[Len(stack)]
         IN /\ StackOK(below, wait)
            /\ top \in Frame
            /\ FrameOK(top, wait)
            /\ \A d \in Device :
                 UnderWay(stack, d) <=> UnderWay(below, d) \/ WillServe(top, d)
<1> DEFINE below == SubSeq(stack, 1, Len(stack) - 1)
           top == stack[Len(stack)]
<1>1. stack \in Seq(Frame) /\ Len(stack) \in Nat /\ Len(stack) >= 1
  BY EmptySeq, LenProperties DEF StackOK
<1>2. /\ below \in Seq(Frame)
      /\ Len(below) = Len(stack) - 1
      /\ \A i \in 1 .. Len(stack) - 1 : below[i] = stack[i]
  <2>1. \A i \in 1 .. Len(stack) - 1 : stack[i] \in Frame
    BY <1>1, ElementOfSeq
  <2>2. 1 \in Int /\ Len(stack) - 1 \in Int
    BY <1>1
  <2>3. /\ below \in Seq(Frame)
        /\ Len(below) = IF 1 <= Len(stack) - 1 THEN Len(stack) - 1 - 1 + 1 ELSE 0
        /\ \A i \in 1 .. Len(stack) - 1 - 1 + 1 : below[i] = stack[1 + i - 1]
    BY <2>1, <2>2, SubSeqProperties
  <2> HIDE DEF below
  <2>4. Len(below) = Len(stack) - 1
    <3>1. CASE 1 <= Len(stack) - 1
      BY <1>1, <2>3, <3>1
    <3>2. CASE ~(1 <= Len(stack) - 1)
      <4> DEFINE n == Len(stack)
      <4>3. n \in Nat /\ n >= 1 /\ ~(1 <= n - 1)
        BY <1>1, <3>2
      <4> HIDE DEF n
      <4>4. n = 1
        BY <4>3
      <4>1. Len(stack) = 1
        BY <4>4 DEF n
      <4>2. Len(below) = 0
        BY <2>3, <3>2
      <4> QED
        BY <4>1, <4>2
    <3> QED
      BY <3>1, <3>2
  <2>5. \A i \in 1 .. Len(stack) - 1 :
          i \in 1 .. Len(stack) - 1 - 1 + 1 /\ 1 + i - 1 = i
    BY <1>1
  <2> QED
    BY <2>3, <2>4, <2>5
<1>3. top \in Frame
  BY <1>1, ElementOfSeq
<1> HIDE DEF below, top
<1>4. StackOK(below, wait)
  <2>1. \A i \in 1 .. Len(below) : i \in 1 .. Len(stack) /\ below[i] = stack[i]
    BY <1>1, <1>2
  <2> QED
    BY <1>2, <2>1 DEF StackOK
<1>5. FrameOK(top, wait)
  <2>1. Len(stack) \in 1 .. Len(stack)
    BY <1>1
  <2> QED
    BY <2>1 DEF StackOK, top
<1>6. ASSUME NEW d \in Device
      PROVE  UnderWay(stack, d) <=> UnderWay(below, d) \/ WillServe(top, d)
  <2>1. \A i \in 1 .. Len(stack) :
          \/ i \in 1 .. Len(below) /\ stack[i] = below[i]
          \/ stack[i] = top
    BY <1>1, <1>2 DEF top
  <2>2. \A i \in 1 .. Len(below) : i \in 1 .. Len(stack) /\ below[i] = stack[i]
    BY <1>1, <1>2
  <2>3. Len(stack) \in 1 .. Len(stack)
    BY <1>1
  <2> QED
    BY <2>1, <2>2, <2>3 DEF UnderWay, top
<1> QED
  BY <1>3, <1>4, <1>5, <1>6 DEF below, top

\* A change of the table takes the soundness of the walks and nothing else.
LEMMA DisturbedStack ==
  ASSUME NEW wait, NEW stack, StackOK(stack, wait)
  PROVE  /\ StackOK(Disturbed(stack), wait)
         /\ \A d \in Device : UnderWay(Disturbed(stack), d) <=> UnderWay(stack, d)
<1> DEFINE after == Disturbed(stack)
<1>1. stack \in Seq(Frame) /\ Len(stack) \in Nat
  BY LenProperties DEF StackOK
<1>2. \A i \in 1 .. Len(stack) : stack[i] \in Frame
  BY <1>1, ElementOfSeq
<1>3. \A i \in 1 .. Len(stack) :
        /\ after[i] \in Frame
        /\ after[i].walk = stack[i].walk
        /\ after[i].todo = stack[i].todo
        /\ after[i].at = stack[i].at
  BY <1>2 DEF Disturbed, Frame
<1>4. after \in Seq(Frame) /\ Len(after) = Len(stack)
  <2>1. after = [i \in 1 .. Len(stack) |-> after[i]]
    BY DEF Disturbed
  <2> HIDE DEF after
  <2>2. after \in [1 .. Len(stack) -> Frame]
    BY <1>3, <2>1
  <2>3. after \in Seq(Frame)
    BY <1>1, <2>2, SeqDef
  <2>4. Len(after) \in Nat /\ DOMAIN after = 1 .. Len(after) /\ DOMAIN after = 1 .. Len(stack)
    BY <2>2, <2>3, LenProperties
  <2> QED
    BY <1>1, <2>3, <2>4
<1> HIDE DEF after
<1>5. StackOK(after, wait)
  BY <1>3, <1>4 DEF StackOK, FrameOK
<1>6. \A d \in Device : UnderWay(after, d) <=> UnderWay(stack, d)
  BY <1>3, <1>4 DEF UnderWay, WillServe
<1> QED
  BY <1>5, <1>6 DEF after

\* The stack does its duty also when fewer requests wait, or more that are not
\* uploads.
LEMMA WaitingLess ==
  ASSUME NEW wait, NEW less, NEW stack, StackOK(stack, wait),
         \A d \in Device : Upload(d) \in less => Upload(d) \in wait
  PROVE  StackOK(stack, less)
<1>1. ASSUME NEW f \in Frame, FrameOK(f, wait) PROVE FrameOK(f, less)
  <2>1. f.walk # "none" => f.at \cap less = {}
    BY <1>1 DEF Frame, FrameOK
  <2>2. f.walk = "answer" =>
          \A d \in Device :
            Status(d) \in f.todo /\ Upload(d) \in less => Upload(d) \in f.todo
    BY <1>1 DEF FrameOK
  <2> QED
    BY <2>1, <2>2 DEF FrameOK
<1>2. \A i \in 1 .. Len(stack) : stack[i] \in Frame
  BY ElementOfSeq DEF StackOK
<1> QED
  BY <1>1, <1>2 DEF StackOK

-----------------------------------------------------------------------------
\* The clock and the polls.

\* Growing older stays within the limit and never ends a request.
LEMMA OlderProperties ==
  ASSUME NEW limit \in Nat, NEW age \in 0 .. limit
  PROVE  Older(age, limit) \in 0 .. limit /\ (age # 0 => Older(age, limit) # 0)
BY DEF Older

\* A poll asks for what it then waits for, touches no upload, and leaves the
\* walks their duty.
LEMMA RefreshKeeps ==
  ASSUME IInv,
         NEW polled \in SUBSET Device,
         NEW statuses \in [Device -> 0 .. StatusSeconds],
         NEW queries \in [Request -> 0 .. LookupSeconds],
         \A r \in Request : queryAge[r] # 0 => queries[r] # 0,
         Refresh(polled, statuses, queries),
         active' \in BOOLEAN,
         UNCHANGED <<listed, uploading, posts, current, cached, defined>>
  PROVE  IInv'
<1> DEFINE lookups == {Status(d) : d \in {e \in polled : NeedsLookup(e)}}
<1>1. /\ statusAge' = [d \in Device |->
            IF d \in polled /\ ~NeedsLookup(d) THEN 1 ELSE statuses[d]]
      /\ pending' = pending \cup lookups
      /\ queryAge' = [r \in Request |-> IF r \in lookups THEN 1 ELSE queries[r]]
      /\ frames' = IF lookups = {} THEN frames ELSE Disturbed(frames)
  BY DEF Refresh
<1>2. lookups \subseteq Request /\ \A d \in Device : Upload(d) \notin lookups
  BY RequestsDiffer
<1> HIDE DEF lookups
<1>3. 1 \in 0 .. StatusSeconds /\ 1 \in 0 .. LookupSeconds
  BY SecondsAssumption
<1>4. \A d \in Device : Upload(d) \in pending' <=> Upload(d) \in pending
  BY <1>1, <1>2
<1>5. StackOK(frames', pending)
  BY <1>1, DisturbedStack DEF IInv
<1>6. StackOK(frames', pending')
  BY <1>4, <1>5, WaitingLess
<1>7. \A d \in Device : UnderWay(frames', d) <=> UnderWay(frames, d)
  BY <1>1, DisturbedStack DEF IInv
<1>8. TypeOK'
  <2>1. statusAge' \in [Device -> 0 .. StatusSeconds]
    <3> DEFINE Q == 0 .. StatusSeconds
    <3>1. 1 \in Q /\ statuses \in [Device -> Q]
      BY <1>3
    <3> HIDE DEF Q
    <3>2. statusAge' \in [Device -> Q]
      BY <1>1, <3>1
    <3> QED
      BY <3>2 DEF Q
  <2>2. queryAge' \in [Request -> 0 .. LookupSeconds]
    <3> DEFINE Q == 0 .. LookupSeconds
    <3>1. 1 \in Q /\ queries \in [Request -> Q]
      BY <1>3
    <3> HIDE DEF Q
    <3>2. queryAge' \in [Request -> Q]
      BY <1>1, <3>1
    <3> QED
      BY <3>2 DEF Q
  <2>3. frames' \in Seq(Frame)
    BY <1>6 DEF StackOK
  <2>4. pending' \subseteq Request
    BY <1>1, <1>2 DEF IInv, TypeOK
  <2> QED
    BY <2>1, <2>2, <2>3, <2>4 DEF IInv, TypeOK
<1>9. WaitingIsAsked'
  <2>1. ASSUME NEW r \in pending' PROVE queryAge'[r] # 0
    <3>1. r \in Request
      BY <1>1, <1>2, <2>1 DEF IInv, TypeOK
    <3>2. CASE r \in lookups
      BY <1>1, <3>1, <3>2
    <3>3. CASE r \notin lookups
      BY <1>1, <3>1, <3>3 DEF IInv, WaitingIsAsked
    <3> QED
      BY <3>2, <3>3
  <2> QED
    BY <2>1 DEF WaitingIsAsked
<1>10. PostIsCurrent'
  <2>1. \A p \in posts : p[1] \in Device
    BY DEF IInv, TypeOK, Post
  <2> QED
    BY <1>4, <2>1 DEF IInv, PostIsCurrent
<1>11. OnlyNamesWait'
  BY <1>4 DEF IInv, OnlyNamesWait
<1>12. CachedIsUnderWay'
  BY <1>4, <1>7 DEF IInv, TypeOK, CachedIsUnderWay
<1>13. LockedRowIsServed'
  <2>1. \A d \in uploading : <<d, current[d]>> \in posts \/ Upload(d) \in pending'
    BY <1>4 DEF IInv, LockedRowIsServed, TypeOK
  <2> QED
    BY <1>9, <2>1 DEF LockedRowIsServed, WaitingIsAsked
<1> QED
  BY <1>6, <1>8, <1>9, <1>10, <1>11, <1>12, <1>13 DEF IInv

\* A second passes and the tab in front polls.
LEMMA SecondKeeps == IInv /\ Second => IInv'
<1> SUFFICES ASSUME IInv, Second PROVE IInv'
  OBVIOUS
<1> DEFINE polled == IF active THEN Polled ELSE {}
           statuses == [d \in Device |-> Older(statusAge[d], StatusSeconds)]
           queries == [r \in Request |-> Older(queryAge[r], LookupSeconds)]
<1>1. StatusSeconds \in Nat /\ LookupSeconds \in Nat
  BY SecondsAssumption
<1>2. polled \in SUBSET Device
  BY DEF IInv, TypeOK, Polled
<1>3. statuses \in [Device -> 0 .. StatusSeconds]
  <2>1. \A d \in Device : Older(statusAge[d], StatusSeconds) \in 0 .. StatusSeconds
    BY <1>1, OlderProperties DEF IInv, TypeOK
  <2> QED
    BY <2>1
<1>4. /\ queries \in [Request -> 0 .. LookupSeconds]
      /\ \A r \in Request : queryAge[r] # 0 => queries[r] # 0
  <2>1. \A r \in Request : /\ Older(queryAge[r], LookupSeconds) \in 0 .. LookupSeconds
                           /\ queryAge[r] # 0 => Older(queryAge[r], LookupSeconds) # 0
    BY <1>1, OlderProperties DEF IInv, TypeOK
  <2> QED
    BY <2>1
<1>5. Refresh(polled, statuses, queries)
  BY DEF Second
<1>6. /\ active' \in BOOLEAN
      /\ UNCHANGED <<listed, uploading, posts, current, cached, defined>>
  BY DEF Second, tab, IInv, TypeOK
<1> HIDE DEF polled, statuses, queries
<1> QED
  BY <1>2, <1>3, <1>4, <1>5, <1>6, RefreshKeeps

\* The tab comes to the front, or leaves it.
LEMMA SetActiveKeeps ==
  ASSUME IInv, NEW front \in BOOLEAN, SetActive(front)
  PROVE  IInv'
<1>1. CASE front = TRUE
  <2>1. Refresh(Polled, statusAge, queryAge)
    BY <1>1 DEF SetActive
  <2>2. /\ active' \in BOOLEAN
        /\ UNCHANGED <<listed, uploading, posts, current, cached, defined>>
    BY DEF SetActive
  <2>3. Polled \in SUBSET Device
    BY DEF IInv, TypeOK, Polled
  <2>4. /\ statusAge \in [Device -> 0 .. StatusSeconds]
        /\ queryAge \in [Request -> 0 .. LookupSeconds]
    BY DEF IInv, TypeOK
  <2> QED
    BY <2>1, <2>2, <2>3, <2>4, RefreshKeeps
<1>2. CASE front = FALSE
  BY <1>2 DEF SetActive, IInv, TypeOK, WaitingIsAsked, PostIsCurrent, OnlyNamesWait,
              CachedIsUnderWay, LockedRowIsServed
<1> QED
  BY <1>1, <1>2

-----------------------------------------------------------------------------
\* Steps that touch neither the uploads nor what waits.

\* A status request that ends concerns nothing else.
LEMMA StatusEndsKeeps ==
  ASSUME IInv, NEW d \in Device, StatusEnds(d)
  PROVE  IInv'
<1>1. statusAge' \in [Device -> 0 .. StatusSeconds]
  <2> DEFINE Q == 0 .. StatusSeconds
  <2>1. 0 \in Q /\ statusAge \in [Device -> Q]
    BY SecondsAssumption DEF IInv, TypeOK
  <2> HIDE DEF Q
  <2>2. statusAge' \in [Device -> Q]
    BY <2>1 DEF StatusEnds
  <2> QED
    BY <2>2 DEF Q
<1>2. UNCHANGED <<active, listed, uploading, posts, current, pending, queryAge,
                  cached, frames, defined>>
  BY DEF StatusEnds, tab
<1> QED
  BY <1>1, <1>2 DEF IInv, TypeOK, WaitingIsAsked, PostIsCurrent, OnlyNamesWait,
                    CachedIsUnderWay, LockedRowIsServed

\* An address that is forgotten leaves less to account for.
LEMMA CacheExpiresKeeps ==
  ASSUME IInv, NEW d \in Device, CacheExpires(d)
  PROVE  IInv'
<1>1. /\ cached' \subseteq cached
      /\ UNCHANGED <<active, listed, uploading, statusAge, posts, current, pending,
                     queryAge, frames, defined>>
  BY DEF CacheExpires, tab
<1>2. CachedIsUnderWay'
  BY <1>1 DEF IInv, CachedIsUnderWay
<1> QED
  BY <1>1, <1>2 DEF IInv, TypeOK, WaitingIsAsked, PostIsCurrent, OnlyNamesWait,
                    LockedRowIsServed

\* A lock goes with its row.
LEMMA RemoveDeviceKeeps ==
  ASSUME IInv, NEW d \in Device, RemoveDevice(d)
  PROVE  IInv'
<1>1. /\ listed' \subseteq listed /\ uploading' \subseteq uploading
      /\ UNCHANGED <<active, statusAge, posts, current, pending, queryAge, cached,
                     frames, defined>>
  BY DEF RemoveDevice
<1>2. TypeOK'
  BY <1>1 DEF IInv, TypeOK
<1>3. LockedRowIsServed'
  BY <1>1 DEF IInv, LockedRowIsServed
<1> QED
  BY <1>1, <1>2, <1>3 DEF IInv, WaitingIsAsked, PostIsCurrent, OnlyNamesWait,
                          CachedIsUnderWay

\* A row that comes back is not locked.
LEMMA RestoreDeviceKeeps ==
  ASSUME IInv, NEW d \in Device, RestoreDevice(d)
  PROVE  IInv'
<1>1. /\ listed' = listed \cup {d}
      /\ UNCHANGED <<active, uploading, statusAge, posts, current, pending, queryAge,
                     cached, frames, defined>>
  BY DEF RestoreDevice
<1>2. TypeOK'
  BY <1>1 DEF IInv, TypeOK
<1> QED
  BY <1>1, <1>2 DEF IInv, WaitingIsAsked, PostIsCurrent, OnlyNamesWait,
                    CachedIsUnderWay, LockedRowIsServed

\* A walk begins: it has served nothing, and if it is over an answer every
\* request of the device that the resolver knows of is before it.
LEMMA PushKeeps ==
  ASSUME IInv, NEW f \in Frame, FrameOK(f, pending),
         frames' = Append(frames, f),
         UNCHANGED <<active, listed, uploading, statusAge, posts, current, pending,
                     queryAge, cached, defined>>
  PROVE  IInv'
<1>1. /\ StackOK(frames', pending)
      /\ \A d \in Device : UnderWay(frames, d) => UnderWay(frames', d)
  BY PushedStack DEF IInv
<1>2. TypeOK'
  BY <1>1 DEF IInv, TypeOK, StackOK
<1>3. CachedIsUnderWay'
  BY <1>1 DEF IInv, TypeOK, CachedIsUnderWay
<1> QED
  BY <1>1, <1>2, <1>3 DEF IInv, WaitingIsAsked, PostIsCurrent, OnlyNamesWait,
                          LockedRowIsServed

\* An answer starts a walk over all requests for its name.
LEMMA AnswerArrivesKeeps ==
  ASSUME IInv, NEW d \in Device, AnswerArrives(d)
  PROVE  IInv'
<1> DEFINE matching == {r \in Asked : r[2] = d}
           f == [walk |-> "answer", todo |-> matching, at |-> {}, sound |-> TRUE]
<1>1. /\ frames' = Append(frames, f)
      /\ UNCHANGED <<active, listed, uploading, statusAge, posts, current, pending,
                     queryAge, cached, defined>>
  BY DEF AnswerArrives, tab
<1>2. matching \in SUBSET Request
  BY DEF Asked
<1>3. \A e \in Device : Status(e) \in matching /\ Upload(e) \in pending => Upload(e) \in matching
  <2>1. \A e \in Device : Status(e)[2] = e /\ Upload(e)[2] = e
    BY DEF Status, Upload
  <2> QED
    BY <2>1 DEF IInv, TypeOK, WaitingIsAsked, Asked
<1> HIDE DEF matching
<1>4. f \in Frame /\ FrameOK(f, pending)
  BY <1>2, <1>3 DEF Frame, FrameOK
<1> HIDE DEF f
<1> QED
  BY <1>1, <1>4, PushKeeps

\* The timer starts a walk over the late requests.
LEMMA LookupTickKeeps == IInv /\ LookupTick => IInv'
<1> SUFFICES ASSUME IInv, LookupTick PROVE IInv'
  OBVIOUS
<1> DEFINE late == {r \in Asked : queryAge[r] = LookupSeconds}
           f == [walk |-> "tick", todo |-> late, at |-> {}, sound |-> TRUE]
<1>1. /\ frames' = Append(frames, f)
      /\ UNCHANGED <<active, listed, uploading, statusAge, posts, current, pending,
                     queryAge, cached, defined>>
  BY DEF LookupTick, tab
<1>2. late \in SUBSET Request
  BY DEF Asked
<1> HIDE DEF late
<1>3. f \in Frame /\ FrameOK(f, pending)
  BY <1>2 DEF Frame, FrameOK
<1> HIDE DEF f
<1> QED
  BY <1>1, <1>3, PushKeeps

-----------------------------------------------------------------------------
\* Uploads.

\* What is dropped before an upload starts is every POST of the device.
LEMMA AbortedAll ==
  ASSUME IInv, NEW d \in Device
  PROVE  \A p \in posts \ Aborted(d) : p[1] # d
<1>1. ASSUME NEW p \in posts, p[1] = d PROVE p \in Aborted(d)
  <2>1. p = <<p[1], p[2]>>
    BY DEF IInv, TypeOK, Post
  <2>2. p[2] = current[d]
    BY <1>1 DEF IInv, PostIsCurrent
  <2> QED
    BY <1>1, <2>1, <2>2 DEF Aborted
<1> QED
  BY <1>1

\* A POST starts beside none of the device, or its row is unlocked; no other
\* device sees a difference.
LEMMA SendUploadOutcome ==
  ASSUME NEW d \in Device, NEW opens \in BOOLEAN,
         NEW running \in SUBSET Post, \A p \in running : p[1] # d,
         NEW held \in [Device -> 0 .. 2],
         NEW locked \in SUBSET Device,
         SendUpload(d, opens, running, held, locked)
  PROVE  /\ posts' \in SUBSET Post
         /\ current' \in [Device -> 0 .. 2]
         /\ uploading' \in SUBSET locked
         /\ \A p \in posts' : p \in running \/ (p[1] = d /\ p[2] = current'[d])
         /\ running \subseteq posts'
         /\ \A e \in Device : e # d => current'[e] = held[e]
         /\ d \in uploading' => <<d, current'[d]>> \in posts'
<1> DEFINE n == CHOOSE m \in {1, 2} : <<d, m>> \notin running
<1>1. n \in {1, 2}
  <2>1. <<d, 1>> \notin running
    OBVIOUS
  <2> QED
    BY <2>1
<1>2. /\ posts' = IF opens THEN running \cup {<<d, n>>} ELSE running
      /\ current' = IF opens THEN [held EXCEPT ![d] = n] ELSE held
      /\ uploading' = IF opens THEN locked ELSE locked \ {d}
  BY DEF SendUpload, Unlocked
<1> HIDE DEF n
<1>3. CASE opens = TRUE
  <2>1. <<d, n>> \in Post
    BY <1>1 DEF Post
  <2>2. /\ posts' = running \cup {<<d, n>>}
        /\ current' = [held EXCEPT ![d] = n]
        /\ uploading' = locked
    BY <1>2, <1>3
  <2>3. current' \in [Device -> 0 .. 2] /\ current'[d] = n
    BY <1>1, <2>2
  <2>4. \A e \in Device : e # d => current'[e] = held[e]
    BY <2>2
  <2> QED
    BY <2>1, <2>2, <2>3, <2>4
<1>4. CASE opens = FALSE
  BY <1>2, <1>4
<1> QED
  BY <1>3, <1>4

\* A message box serves no walk and owes nothing.
LEMMA BoxIsIdle ==
  ASSUME NEW d \in Device, NEW wait
  PROVE  Box(d) \in Frame /\ FrameOK(Box(d), wait)
BY DEF Box, Frame, FrameOK

\* An upload starts with nothing under way: what waited has no address, so the
\* one that goes past the lookup does not wait.
LEMMA StartUploadKeeps ==
  ASSUME IInv, NEW d \in Device, StartUpload(d)
  PROVE  IInv'
<1> DEFINE running == posts \ Aborted(d)
           held == [current EXCEPT ![d] = 0]
           locked == uploading \cup {d}
<1>1. /\ frames = <<>>
      /\ defined = TRUE
      /\ UNCHANGED <<active, listed, statusAge, cached, defined>>
  BY DEF StartUpload, Unblocked, tab, IInv, TypeOK
<1>2. /\ running \in SUBSET Post
      /\ running \subseteq posts
      /\ \A p \in running : p[1] # d
      /\ \A p \in posts : p[1] # d => p \in running
  BY AbortedAll DEF IInv, TypeOK, Aborted
<1>3. /\ held \in [Device -> 0 .. 2]
      /\ \A e \in Device : e # d => held[e] = current[e]
  BY DEF IInv, TypeOK
<1>4. locked \in SUBSET Device
  BY DEF IInv, TypeOK
\* Nothing is under way: no waiting upload has its address remembered.
<1>5. \A e \in cached : Upload(e) \notin pending
  <2>1. \A e : ~UnderWay(frames, e)
    BY <1>1, EmptySeq DEF UnderWay
  <2> QED
    BY <1>1, <2>1 DEF IInv, CachedIsUnderWay
<1>6. CASE /\ NeedsLookup(d)
           /\ posts' = running /\ current' = held /\ uploading' = locked
           /\ pending' = pending \cup {Upload(d)}
           /\ queryAge' = [queryAge EXCEPT ![Upload(d)] = 1]
           /\ frames' = frames
  <2> HIDE DEF running, held, locked
  <2>1. TypeOK'
    <3>1. queryAge' \in [Request -> 0 .. LookupSeconds]
      <4> DEFINE Q == 0 .. LookupSeconds
      <4>1. 1 \in Q /\ queryAge \in [Request -> Q]
        BY SecondsAssumption DEF IInv, TypeOK
      <4> HIDE DEF Q
      <4>2. queryAge' \in [Request -> Q]
        BY <1>6, <4>1
      <4> QED
        BY <4>2 DEF Q
    <3>2. pending' \subseteq Request
      BY <1>6, RequestsDiffer DEF IInv, TypeOK
    <3> QED
      BY <1>1, <1>2, <1>3, <1>4, <1>6, <3>1, <3>2 DEF IInv, TypeOK
  <2>2. StackOK(frames', pending')
    BY <1>1, <1>6, EmptySeq DEF IInv, StackOK
  <2>3. WaitingIsAsked'
    BY <1>6, <2>1, RequestsDiffer DEF IInv, TypeOK, WaitingIsAsked
  <2>4. PostIsCurrent'
    <3>1. ASSUME NEW p \in posts'
          PROVE  p[2] = current'[p[1]] /\ Upload(p[1]) \notin pending'
      <4>1. p \in running /\ p \in posts /\ p[1] \in Device /\ p[1] # d
        BY <1>2, <1>6, <3>1 DEF Post
      <4>2. p[2] = current[p[1]] /\ Upload(p[1]) \notin pending
        BY <4>1 DEF IInv, PostIsCurrent
      <4>3. Upload(p[1]) # Upload(d)
        BY <4>1, RequestsDiffer
      <4> QED
        BY <1>3, <1>6, <4>1, <4>2, <4>3
    <3> QED
      BY <3>1 DEF PostIsCurrent
  <2>5. OnlyNamesWait'
    <3>1. d \in Local
      BY <1>6 DEF NeedsLookup
    <3> QED
      BY <1>6, <3>1, RequestsDiffer DEF IInv, OnlyNamesWait
  <2>6. CachedIsUnderWay'
    <3>1. \A e \in cached : Upload(e) # Upload(d)
      BY <1>6, RequestsDiffer DEF NeedsLookup, IInv, TypeOK
    <3> QED
      BY <1>1, <1>5, <1>6, <3>1 DEF CachedIsUnderWay
  <2>7. LockedRowIsServed'
    <3>1. ASSUME NEW e \in uploading'
          PROVE  <<e, current'[e]>> \in posts' \/ Upload(e) \in pending'
      <4>1. CASE e = d
        BY <1>6, <4>1
      <4>2. CASE e # d
        <5>1. e \in uploading /\ e \in Device
          BY <1>6, <4>2 DEF locked, IInv, TypeOK
        <5>2. <<e, current[e]>> \in posts \/ Upload(e) \in pending
          BY <5>1 DEF IInv, LockedRowIsServed
        <5> QED
          BY <1>2, <1>3, <1>6, <4>2, <5>1, <5>2
      <4> QED
        BY <4>1, <4>2
    <3> QED
      BY <2>3, <3>1 DEF LockedRowIsServed, WaitingIsAsked
  <2> QED
    BY <2>1, <2>2, <2>3, <2>4, <2>5, <2>6, <2>7 DEF IInv
<1>7. CASE \E opens \in BOOLEAN :
             /\ ~NeedsLookup(d)
             /\ SendUpload(d, opens, running, held, locked)
             /\ frames' = IF Complains(d, opens) THEN <<Box(d)>> ELSE frames
             /\ UNCHANGED <<pending, queryAge>>
  <2>1. PICK opens \in BOOLEAN :
             /\ ~NeedsLookup(d)
             /\ SendUpload(d, opens, running, held, locked)
             /\ frames' = IF Complains(d, opens) THEN <<Box(d)>> ELSE frames
             /\ UNCHANGED <<pending, queryAge>>
    BY <1>7
  <2> HIDE DEF running, held, locked
  <2>2. /\ posts' \in SUBSET Post
        /\ current' \in [Device -> 0 .. 2]
        /\ uploading' \in SUBSET locked
        /\ \A p \in posts' : p \in running \/ (p[1] = d /\ p[2] = current'[d])
        /\ running \subseteq posts'
        /\ \A e \in Device : e # d => current'[e] = held[e]
        /\ d \in uploading' => <<d, current'[d]>> \in posts'
    BY <1>2, <1>3, <1>4, <2>1, SendUploadOutcome
  \* The address is known without a lookup, so none is waited for.
  <2>3. Upload(d) \notin pending
    BY <1>5, <2>1 DEF NeedsLookup, IInv, OnlyNamesWait
  <2>4. StackOK(frames', pending)
    <3>1. CASE frames' = frames
      BY <3>1 DEF IInv
    <3>2. CASE frames' = <<Box(d)>>
      <4>1. <<Box(d)>> = Append(<<>>, Box(d))
        BY SMT
      <4>2. StackOK(<<>>, pending)
        BY <1>1 DEF IInv
      <4>3. Box(d) \in Frame /\ FrameOK(Box(d), pending)
        BY BoxIsIdle
      <4>4. StackOK(Append(<<>>, Box(d)), pending)
        BY <4>2, <4>3, PushedStack
      <4> QED
        BY <3>2, <4>1, <4>4
    <3> QED
      BY <2>1, <3>1, <3>2
  <2>5. TypeOK'
    BY <1>1, <1>4, <2>1, <2>2, <2>4 DEF IInv, TypeOK, StackOK
  <2>6. PostIsCurrent'
    <3>1. ASSUME NEW p \in posts'
          PROVE  p[2] = current'[p[1]] /\ Upload(p[1]) \notin pending
      <4>1. CASE p[1] = d /\ p[2] = current'[d]
        BY <2>3, <4>1
      <4>2. CASE p \in running
        <5>1. p \in posts /\ p[1] \in Device /\ p[1] # d
          BY <1>2, <4>2 DEF Post
        <5> QED
          BY <1>3, <2>2, <5>1 DEF IInv, PostIsCurrent
      <4> QED
        BY <2>2, <4>1, <4>2
    <3> QED
      BY <2>1, <3>1 DEF PostIsCurrent
  <2>7. CachedIsUnderWay'
    BY <1>1, <1>5, <2>1 DEF CachedIsUnderWay
  <2>8. LockedRowIsServed'
    <3>1. ASSUME NEW e \in uploading'
          PROVE  <<e, current'[e]>> \in posts' \/ (Upload(e) \in pending /\ queryAge[Upload(e)] # 0)
      <4>1. CASE e = d
        BY <2>2, <3>1, <4>1
      <4>2. CASE e # d
        <5>1. e \in uploading /\ e \in Device
          BY <2>2, <4>2, <3>1 DEF locked, IInv, TypeOK
        <5>2. <<e, current[e]>> \in posts \/ (Upload(e) \in pending /\ queryAge[Upload(e)] # 0)
          BY <5>1 DEF IInv, LockedRowIsServed
        <5>3. current'[e] = current[e]
          BY <1>3, <2>2, <4>2, <5>1
        <5>4. <<e, current[e]>> \in posts => <<e, current[e]>> \in running
          BY <1>2, <4>2
        <5> QED
          BY <2>2, <5>2, <5>3, <5>4
      <4> QED
        BY <4>1, <4>2
    <3> QED
      BY <2>1, <3>1 DEF LockedRowIsServed
  <2> QED
    BY <2>1, <2>4, <2>5, <2>6, <2>7, <2>8 DEF IInv, WaitingIsAsked, OnlyNamesWait
<1> QED
  BY <1>6, <1>7 DEF StartUpload

\* A POST that ends is the device's own, so its row is unlocked with it.
LEMMA PostEndsKeeps ==
  ASSUME IInv, NEW d \in Device, NEW ok \in BOOLEAN, PostEnds(d, ok)
  PROVE  IInv'
<1>1. PICK p \in posts :
        /\ p[1] = d
        /\ posts' = posts \ {p}
        /\ IF current[d] = p[2]
           THEN /\ current' = [current EXCEPT ![d] = 0]
                /\ uploading' = Unlocked(uploading, d, ok)
                /\ frames' = IF Complains(d, ok) THEN Append(frames, Box(d)) ELSE frames
           ELSE UNCHANGED <<current, uploading, frames>>
  BY DEF PostEnds
<1>2. UNCHANGED <<active, listed, statusAge, pending, queryAge, cached, defined>>
  BY DEF PostEnds, tab
<1>3. current[d] = p[2] /\ p = <<d, p[2]>>
  BY <1>1 DEF IInv, TypeOK, PostIsCurrent, Post
<1>4. /\ current' = [current EXCEPT ![d] = 0]
      /\ uploading' = uploading \ {d}
      /\ frames' = IF Complains(d, ok) THEN Append(frames, Box(d)) ELSE frames
  BY <1>1, <1>3 DEF Unlocked
<1>5. \A q \in posts' : q \in posts /\ q[1] # d
  <2>1. \A q \in posts : q = <<q[1], q[2]>> /\ q[2] = current[q[1]]
    BY DEF IInv, TypeOK, Post, PostIsCurrent
  <2> QED
    BY <1>1, <1>3, <2>1
<1>6. /\ StackOK(frames', pending)
      /\ \A e \in Device : UnderWay(frames, e) => UnderWay(frames', e)
  <2>1. /\ StackOK(Append(frames, Box(d)), pending)
        /\ \A e \in Device : UnderWay(frames, e) => UnderWay(Append(frames, Box(d)), e)
    BY BoxIsIdle, PushedStack DEF IInv
  <2> QED
    BY <1>4, <2>1 DEF IInv
<1>7. current' \in [Device -> 0 .. 2] /\ \A e \in Device : e # d => current'[e] = current[e]
  BY <1>4 DEF IInv, TypeOK
<1>8. TypeOK'
  <2>1. posts' \subseteq Post /\ uploading' \subseteq Device /\ frames' \in Seq(Frame)
    BY <1>1, <1>4, <1>6 DEF IInv, TypeOK, StackOK
  <2> QED
    BY <1>2, <1>7, <2>1 DEF IInv, TypeOK
<1>9. PostIsCurrent'
  <2>1. \A q \in posts : q[1] \in Device
    BY DEF IInv, TypeOK, Post
  <2> QED
    BY <1>2, <1>5, <1>7, <2>1 DEF IInv, PostIsCurrent
<1>10. CachedIsUnderWay'
  BY <1>2, <1>6 DEF IInv, TypeOK, CachedIsUnderWay
<1>11. LockedRowIsServed'
  <2>1. ASSUME NEW e \in uploading'
        PROVE  <<e, current'[e]>> \in posts' \/ (Upload(e) \in pending /\ queryAge[Upload(e)] # 0)
    <3>1. e \in uploading /\ e # d /\ e \in Device
      BY <1>4, <2>1 DEF IInv, TypeOK
    <3>2. <<e, current[e]>> \in posts \/ (Upload(e) \in pending /\ queryAge[Upload(e)] # 0)
      BY <3>1 DEF IInv, LockedRowIsServed
    <3>3. <<e, current[e]>> # p
      BY <1>3, <3>1
    <3> QED
      BY <1>1, <1>7, <3>1, <3>2, <3>3
  <2> QED
    BY <1>2, <2>1 DEF LockedRowIsServed
<1> QED
  BY <1>2, <1>6, <1>8, <1>9, <1>10, <1>11 DEF IInv, WaitingIsAsked, OnlyNamesWait

-----------------------------------------------------------------------------
\* The walks.

\* A walk goes on: the row it was at is erased, and nothing that waits is
\* dropped from what it will serve.
LEMMA ErasedOutcome ==
  ASSUME NEW wait, StackOK(frames, wait), frames # <<>>,
         queryAge \in [Request -> 0 .. LookupSeconds],
         NEW r \in Request,
         NEW todo \in SUBSET Top.todo, Top.todo \cap wait \subseteq todo,
         Erased(r, todo)
  PROVE  /\ StackOK(frames', wait)
         /\ \A d \in Device : UnderWay(frames, d) /\ Upload(d) \in wait => UnderWay(frames', d)
         /\ queryAge' \in [Request -> 0 .. LookupSeconds]
         /\ \A s \in Request : s # r => queryAge'[s] = queryAge[s]
<1> DEFINE below == Disturbed(Below)
           f == [Top EXCEPT !.todo = todo, !.at = {}]
<1>1. /\ queryAge' = [queryAge EXCEPT ![r] = 0]
      /\ frames' = below \o (IF todo = {} THEN <<>> ELSE <<f>>)
  BY DEF Erased
<1>2. /\ StackOK(Below, wait)
      /\ Top \in Frame
      /\ FrameOK(Top, wait)
      /\ \A d \in Device : UnderWay(frames, d) <=> UnderWay(Below, d) \/ WillServe(Top, d)
  BY SplitStack DEF Below, Top
<1>3. /\ StackOK(below, wait)
      /\ \A d \in Device : UnderWay(below, d) <=> UnderWay(Below, d)
  BY <1>2, DisturbedStack
<1>4. f \in Frame /\ f.walk = Top.walk /\ f.todo = todo /\ f.at = {}
  BY <1>2 DEF Frame
<1>5. below \in Seq(Frame)
  BY <1>3 DEF StackOK
<1> HIDE DEF f, below
<1>6. FrameOK(f, wait)
  <2>1. f.at \cap wait = {}
    BY <1>4
  <2>2. f.walk = "answer" =>
          \A d \in Device : Status(d) \in f.todo /\ Upload(d) \in wait => Upload(d) \in f.todo
    BY <1>2, <1>4 DEF FrameOK
  <2> QED
    BY <2>1, <2>2 DEF FrameOK
<1>7. \A d \in Device : WillServe(Top, d) /\ Upload(d) \in wait => WillServe(f, d)
  BY <1>4 DEF WillServe
<1>8. /\ StackOK(frames', wait)
      /\ \A d \in Device : UnderWay(frames, d) /\ Upload(d) \in wait => UnderWay(frames', d)
  <2>1. CASE todo = {}
    <3>1. frames' = below
      BY <1>1, <1>5, <2>1, ConcatEmptySeq
    <3>2. \A d \in Device : ~WillServe(f, d)
      BY <1>4, <2>1 DEF WillServe
    <3> QED
      BY <1>2, <1>3, <1>7, <3>1, <3>2
  <2>2. CASE todo # {}
    <3>1. frames' = Append(below, f)
      BY <1>1, <1>4, <1>5, <2>2, AppendIsConcat
    <3> QED
      BY <1>2, <1>3, <1>4, <1>6, <1>7, <3>1, PushedStack
  <2> QED
    BY <2>1, <2>2
<1>9. /\ queryAge' \in [Request -> 0 .. LookupSeconds]
      /\ \A s \in Request : s # r => queryAge'[s] = queryAge[s]
  <2> DEFINE Q == 0 .. LookupSeconds
  <2>1. 0 \in Q /\ queryAge \in [Request -> Q]
    BY SecondsAssumption
  <2> HIDE DEF Q
  <2>2. queryAge' \in [Request -> Q] /\ \A s \in Request : s # r => queryAge'[s] = queryAge[s]
    BY <1>1, <2>1
  <2> QED
    BY <2>2 DEF Q
<1> QED
  BY <1>8, <1>9

\* A walk that opens a box: it is at the row whose handler has the box open.
LEMMA SuspendedOutcome ==
  ASSUME NEW wait, StackOK(frames, wait), frames # <<>>,
         NEW d \in Device, Upload(d) \notin wait,
         NEW todo \in SUBSET Top.todo, Top.todo \cap wait \subseteq todo,
         frames' = Append(Below, [Top EXCEPT !.todo = todo, !.at = {Upload(d)}])
  PROVE  /\ StackOK(frames', wait)
         /\ \A e \in Device : UnderWay(frames, e) /\ Upload(e) \in wait => UnderWay(frames', e)
<1> DEFINE f == [Top EXCEPT !.todo = todo, !.at = {Upload(d)}]
<1>1. /\ StackOK(Below, wait)
      /\ Top \in Frame
      /\ FrameOK(Top, wait)
      /\ \A e \in Device : UnderWay(frames, e) <=> UnderWay(Below, e) \/ WillServe(Top, e)
  BY SplitStack DEF Below, Top
<1>2. f \in Frame /\ f.walk = Top.walk /\ f.todo = todo /\ f.at = {Upload(d)}
  BY <1>1 DEF Frame
<1>3. frames' = Append(Below, f)
  OBVIOUS
<1> HIDE DEF f
<1>4. FrameOK(f, wait)
  <2>1. f.at \cap wait = {}
    BY <1>2
  <2>2. f.walk = "answer" =>
          \A e \in Device : Status(e) \in f.todo /\ Upload(e) \in wait => Upload(e) \in f.todo
    BY <1>1, <1>2 DEF FrameOK
  <2> QED
    BY <2>1, <2>2 DEF FrameOK
<1>5. \A e \in Device : WillServe(Top, e) /\ Upload(e) \in wait => WillServe(f, e)
  BY <1>2 DEF WillServe
<1> QED
  BY <1>1, <1>2, <1>3, <1>4, <1>5, PushedStack

\* A visit serves an upload that waits by starting its POST, and no other was
\* running; an address it brings leaves no waiting upload behind.
LEMMA VisitKeeps ==
  ASSUME IInv, NEW r \in Request, Visit(r)
  PROVE  IInv'
<1> DEFINE d == r[2]
           todo == Top.todo \ {r}
           waits == r \in pending
<1>1. /\ defined = TRUE /\ frames # <<>> /\ r \in Top.todo
      /\ pending' = pending \ {r}
      /\ cached' = IF waits /\ Top.walk = "answer" THEN cached \cup {d} ELSE cached
      /\ statusAge' = IF waits /\ r = Status(d) THEN [statusAge EXCEPT ![d] = 1] ELSE statusAge
      /\ UNCHANGED <<active, listed, defined>>
  BY DEF Visit, Walking, tab, IInv, TypeOK
<1>2. PICK opens \in BOOLEAN :
        /\ IF waits /\ r = Upload(d) /\ FallsBack(r)
           THEN SendUpload(d, opens, posts, current, uploading)
           ELSE opens /\ UNCHANGED <<posts, current, uploading>>
        /\ IF r = Upload(d) /\ waits /\ Complains(d, opens)
           THEN /\ frames' = Append(Below, [Top EXCEPT !.todo = todo, !.at = {r}])
                /\ queryAge' = queryAge
           ELSE Erased(r, todo)
  BY DEF Visit
<1>3. d \in Device /\ (r = Upload(d) \/ r = Status(d))
  BY RequestCases
<1>4. StackOK(frames, pending')
  BY <1>1, WaitingLess DEF IInv
<1>5. todo \in SUBSET Top.todo /\ Top.todo \cap pending' \subseteq todo /\ r \notin pending'
  BY <1>1
<1> HIDE DEF d, todo
<1>6. /\ StackOK(frames', pending')
      /\ \A e \in Device : UnderWay(frames, e) /\ Upload(e) \in pending' => UnderWay(frames', e)
      /\ queryAge' \in [Request -> 0 .. LookupSeconds]
      /\ \A s \in Request : s # r => queryAge'[s] = queryAge[s]
  <2>1. queryAge \in [Request -> 0 .. LookupSeconds]
    BY DEF IInv, TypeOK
  <2>2. CASE r = Upload(d) /\ waits /\ Complains(d, opens)
    <3>1. /\ frames' = Append(Below, [Top EXCEPT !.todo = todo, !.at = {Upload(d)}])
          /\ queryAge' = queryAge
      BY <1>2, <2>2
    <3>2. Upload(d) \notin pending'
      BY <1>5, <2>2
    <3> QED
      BY <1>1, <1>3, <1>4, <1>5, <2>1, <3>1, <3>2, SuspendedOutcome
  <2>3. CASE ~(r = Upload(d) /\ waits /\ Complains(d, opens))
    <3>1. Erased(r, todo)
      BY <1>2, <2>3
    <3> QED
      BY <1>1, <1>4, <1>5, <2>1, <3>1, ErasedOutcome
  <2> QED
    BY <2>2, <2>3
<1>7. /\ posts' \in SUBSET Post
      /\ current' \in [Device -> 0 .. 2]
      /\ uploading' \in SUBSET uploading
      /\ \A p \in posts' : p \in posts \/ (p[1] = d /\ p[2] = current'[d] /\ r = Upload(d))
      /\ posts \subseteq posts'
      /\ \A e \in Device : e # d \/ r # Upload(d) \/ ~waits => current'[e] = current[e]
      /\ r = Upload(d) /\ waits => (d \in uploading' => <<d, current'[d]>> \in posts')
  <2>1. posts \in SUBSET Post /\ current \in [Device -> 0 .. 2] /\ uploading \in SUBSET Device
    BY DEF IInv, TypeOK
  <2>2. CASE waits /\ r = Upload(d)
    <3>1. SendUpload(d, opens, posts, current, uploading)
      BY <1>2, <2>2 DEF FallsBack
    <3>2. \A p \in posts : p[1] # d
      BY <2>2 DEF IInv, PostIsCurrent
    <3>3. /\ posts' \in SUBSET Post
          /\ current' \in [Device -> 0 .. 2]
          /\ uploading' \in SUBSET uploading
          /\ \A p \in posts' : p \in posts \/ (p[1] = d /\ p[2] = current'[d])
          /\ posts \subseteq posts'
          /\ \A e \in Device : e # d => current'[e] = current[e]
          /\ d \in uploading' => <<d, current'[d]>> \in posts'
      BY <1>3, <2>1, <3>1, <3>2, SendUploadOutcome
    <3> HIDE DEF waits
    <3> QED
      BY <2>2, <3>3
  <2>3. CASE ~(waits /\ r = Upload(d))
    <3>1. UNCHANGED <<posts, current, uploading>>
      BY <1>2, <2>3
    <3> QED
      BY <2>1, <2>3, <3>1
  <2> QED
    BY <2>2, <2>3
<1>8. TypeOK'
  <2>1. statusAge' \in [Device -> 0 .. StatusSeconds]
    <3> DEFINE Q == 0 .. StatusSeconds
    <3>1. 1 \in Q /\ statusAge \in [Device -> Q]
      BY SecondsAssumption DEF IInv, TypeOK
    <3> HIDE DEF Q
    <3>2. statusAge' \in [Device -> Q]
      BY <1>1, <3>1
    <3> QED
      BY <3>2 DEF Q
  <2>2. cached' \subseteq Device /\ pending' \subseteq Request
    BY <1>1, <1>3 DEF IInv, TypeOK
  <2>3. frames' \in Seq(Frame)
    BY <1>6 DEF StackOK
  <2>4. uploading' \subseteq Device
    BY <1>7 DEF IInv, TypeOK
  <2> QED
    BY <1>1, <1>6, <1>7, <2>1, <2>2, <2>3, <2>4 DEF IInv, TypeOK
<1>9. WaitingIsAsked'
  BY <1>1, <1>6 DEF IInv, TypeOK, WaitingIsAsked
<1>10. PostIsCurrent'
  <2>1. ASSUME NEW p \in posts'
        PROVE  p[2] = current'[p[1]] /\ Upload(p[1]) \notin pending'
    <3>1. p[1] \in Device
      BY <1>7 DEF Post
    <3>2. CASE p[1] = d /\ p[2] = current'[d] /\ r = Upload(d)
      BY <1>5, <3>2
    <3>3. CASE p \in posts
      <4>1. p[2] = current[p[1]] /\ Upload(p[1]) \notin pending
        BY <3>3 DEF IInv, PostIsCurrent
      <4>2. p[1] # d \/ r # Upload(d) \/ ~waits
        BY <4>1
      <4> QED
        BY <1>1, <1>7, <3>1, <4>1, <4>2
    <3> QED
      BY <1>7, <3>2, <3>3
  <2> QED
    BY <2>1 DEF PostIsCurrent
<1>11. OnlyNamesWait'
  BY <1>1 DEF IInv, OnlyNamesWait
<1>12. CachedIsUnderWay'
  <2>1. ASSUME NEW e \in cached', Upload(e) \in pending'
        PROVE  UnderWay(frames', e)
    <3>1. e \in Device /\ Upload(e) \in pending
      BY <1>1, <1>8, <2>1 DEF TypeOK
    <3>2. CASE e \in cached
      <4>1. UnderWay(frames, e)
        BY <1>1, <3>1, <3>2 DEF IInv, CachedIsUnderWay
      <4> QED
        BY <1>6, <2>1, <3>1, <4>1
    <3>3. CASE e \notin cached
      <4>1. e = d /\ waits /\ Top.walk = "answer"
        BY <1>1, <2>1, <3>3
      <4>2. r = Status(d)
        BY <1>1, <1>3, <2>1, <4>1
      \* The walk over the answer has the upload still before it.
      <4>3. /\ FrameOK(Top, pending)
            /\ UnderWay(frames, e) <=> UnderWay(Below, e) \/ WillServe(Top, e)
        BY <1>1, <3>1, SplitStack DEF Below, Top, IInv
      <4>4. Upload(e) \in Top.todo
        BY <1>1, <3>1, <4>1, <4>2, <4>3 DEF FrameOK
      <4>5. UnderWay(frames, e)
        BY <4>1, <4>3, <4>4 DEF WillServe
      <4> QED
        BY <1>6, <2>1, <3>1, <4>5
    <3> QED
      BY <3>2, <3>3
  <2> QED
    BY <2>1 DEF CachedIsUnderWay
<1>13. LockedRowIsServed'
  <2>1. ASSUME NEW e \in uploading'
        PROVE  <<e, current'[e]>> \in posts' \/ Upload(e) \in pending'
    <3>1. e \in uploading /\ e \in Device
      BY <1>7, <2>1 DEF IInv, TypeOK
    <3>2. <<e, current[e]>> \in posts \/ Upload(e) \in pending
      BY <3>1 DEF IInv, LockedRowIsServed
    <3>3. CASE e = d /\ r = Upload(d) /\ waits
      BY <1>7, <2>1, <3>3
    <3>4. CASE ~(e = d /\ r = Upload(d) /\ waits)
      <4>1. current'[e] = current[e]
        BY <1>7, <3>1, <3>4
      <4>2. Upload(e) \in pending => Upload(e) \in pending'
        <5>1. Upload(e) = r => e = d
          BY <1>3, <3>1, RequestsDiffer
        <5> QED
          BY <1>1, <3>4, <5>1
      <4> QED
        BY <1>7, <3>2, <4>1, <4>2
    <3> QED
      BY <3>3, <3>4
  <2> QED
    BY <1>9, <2>1 DEF LockedRowIsServed, WaitingIsAsked
<1> QED
  BY <1>6, <1>8, <1>9, <1>10, <1>11, <1>12, <1>13 DEF IInv

\* Closing a box pops it, or lets the walk go on past a row that was served.
LEMMA CloseBoxKeeps == IInv /\ CloseBox => IInv'
<1> SUFFICES ASSUME IInv, CloseBox PROVE IInv'
  OBVIOUS
<1>1. /\ frames # <<>>
      /\ defined' = (Top.walk = "none" \/ Top.sound)
      /\ UNCHANGED <<active, listed, uploading, statusAge, posts, current, pending, cached>>
  BY DEF CloseBox, tab
<1>2. /\ StackOK(Below, pending)
      /\ Top \in Frame
      /\ FrameOK(Top, pending)
      /\ \A d \in Device : UnderWay(frames, d) <=> UnderWay(Below, d) \/ WillServe(Top, d)
  BY <1>1, SplitStack DEF Below, Top, IInv
<1>3. defined' \in BOOLEAN
  BY <1>1
<1>4. CASE Top.walk # "none" /\ Top.sound
  <2>1. PICK r \in Top.at : Erased(r, Top.todo)
    BY <1>4 DEF CloseBox
  \* The row it is at has been served.
  <2>2. r \in Request /\ r \notin pending
    BY <1>2, <1>4, <2>1, RequestsDiffer DEF Frame, FrameOK
  <2>3. /\ StackOK(frames', pending)
        /\ \A d \in Device : UnderWay(frames, d) /\ Upload(d) \in pending => UnderWay(frames', d)
        /\ queryAge' \in [Request -> 0 .. LookupSeconds]
        /\ \A s \in Request : s # r => queryAge'[s] = queryAge[s]
    <3>1. /\ queryAge \in [Request -> 0 .. LookupSeconds]
          /\ StackOK(frames, pending)
      BY DEF IInv, TypeOK
    <3> QED
      BY <1>1, <2>1, <2>2, <3>1, ErasedOutcome
  <2>4. TypeOK'
    BY <1>1, <1>3, <2>3 DEF IInv, TypeOK, StackOK
  <2>5. WaitingIsAsked'
    BY <1>1, <2>2, <2>3 DEF IInv, TypeOK, WaitingIsAsked
  <2>6. CachedIsUnderWay'
    <3>1. defined = TRUE
      BY DEF CloseBox, IInv, TypeOK
    <3> QED
      BY <1>1, <2>3, <3>1 DEF IInv, TypeOK, CachedIsUnderWay
  <2>7. LockedRowIsServed'
    BY <1>1, <2>5 DEF IInv, LockedRowIsServed, WaitingIsAsked
  <2> QED
    BY <1>1, <2>3, <2>4, <2>5, <2>6, <2>7 DEF IInv, PostIsCurrent, OnlyNamesWait
<1>5. CASE ~(Top.walk # "none" /\ Top.sound)
  <2>1. frames' = Below /\ queryAge' = queryAge
    BY <1>5 DEF CloseBox
  <2>2. TypeOK'
    BY <1>1, <1>2, <1>3, <2>1 DEF IInv, TypeOK, StackOK
  <2>3. CachedIsUnderWay'
    <3>1. CASE Top.walk = "none"
      <4>1. \A d \in Device : UnderWay(frames, d) => UnderWay(Below, d)
        BY <1>2, <3>1 DEF WillServe
      <4>2. defined = TRUE
        BY DEF CloseBox, IInv, TypeOK
      <4> QED
        BY <1>1, <2>1, <4>1, <4>2 DEF IInv, TypeOK, CachedIsUnderWay
    \* The stale iterator is used: nothing is promised from here on.
    <3>2. CASE Top.walk # "none"
      BY <1>1, <1>5, <3>2 DEF CachedIsUnderWay
    <3> QED
      BY <3>1, <3>2
  <2> QED
    BY <1>1, <1>2, <2>1, <2>2, <2>3 DEF IInv, WaitingIsAsked, PostIsCurrent, OnlyNamesWait,
                                        LockedRowIsServed
<1> QED
  BY <1>4, <1>5

-----------------------------------------------------------------------------
\* The theorems.

\* The first state satisfies it.
LEMMA InitIsGood == Init => IInv
<1> SUFFICES ASSUME Init PROVE IInv
  OBVIOUS
<1>1. TypeOK
  <2>1. 0 \in 0 .. StatusSeconds /\ 0 \in 0 .. LookupSeconds /\ 0 \in 0 .. 2
    BY SecondsAssumption
  <2>2. /\ statusAge \in [Device -> 0 .. StatusSeconds]
        /\ current \in [Device -> 0 .. 2]
        /\ queryAge \in [Request -> 0 .. LookupSeconds]
    BY <2>1 DEF Init
  <2>3. frames \in Seq(Frame)
    BY EmptySeq DEF Init
  <2> QED
    BY <2>2, <2>3 DEF Init, TypeOK
<1>2. StackOK(frames, pending)
  BY <1>1, EmptySeq DEF Init, StackOK, TypeOK
<1> QED
  BY <1>1, <1>2 DEF Init, IInv, WaitingIsAsked, PostIsCurrent, OnlyNamesWait,
                    CachedIsUnderWay, LockedRowIsServed

\* Every step keeps it.
LEMMA NextKeeps == IInv /\ [Next]_vars => IInv'
<1> SUFFICES ASSUME IInv, [Next]_vars PROVE IInv'
  OBVIOUS
<1>1. CASE Next
  <2>1. CASE Second
    BY <2>1, SecondKeeps
  <2>2. CASE LookupTick
    BY <2>2, LookupTickKeeps
  <2>3. CASE CloseBox
    BY <2>3, CloseBoxKeeps
  <2>4. CASE \E front \in BOOLEAN : SetActive(front)
    BY <2>4, SetActiveKeeps
  <2>5. CASE \E r \in Request : Visit(r)
    BY <2>5, VisitKeeps
  <2>6. ASSUME NEW d \in Device,
               \/ StatusEnds(d) \/ StartUpload(d) \/ AnswerArrives(d) \/ CacheExpires(d)
               \/ RemoveDevice(d) \/ RestoreDevice(d)
               \/ \E ok \in BOOLEAN : PostEnds(d, ok)
        PROVE  IInv'
    BY <2>6, StatusEndsKeeps, StartUploadKeeps, AnswerArrivesKeeps, CacheExpiresKeeps,
       RemoveDeviceKeeps, RestoreDeviceKeeps, PostEndsKeeps
  <2> QED
    BY <1>1, <2>1, <2>2, <2>3, <2>4, <2>5, <2>6 DEF Next
<1>2. CASE UNCHANGED vars
  BY <1>2 DEF vars, IInv, TypeOK, WaitingIsAsked, PostIsCurrent, OnlyNamesWait,
              CachedIsUnderWay, LockedRowIsServed
<1> QED
  BY <1>1, <1>2

\* What the steps keep: IInv holds in every state.
THEOREM Invariant == Spec => []IInv
<1>1. Init => IInv
  BY InitIsGood
<1>2. IInv /\ [Next]_vars => IInv'
  BY NextKeeps
<1> QED
  BY <1>1, <1>2, PTL DEF Spec

\* A row is never locked for good by an upload that nobody carries on: the POST
\* the client takes for its own runs, or a lookup is under way that the client
\* and the resolver both know of.
THEOREM LockedRowIsServedHolds == Spec => []LockedRowIsServed
<1>1. IInv => LockedRowIsServed
  BY DEF IInv
<1> QED
  BY <1>1, Invariant, PTL

\* Two images are never written to one device at the same time.
THEOREM OnePostPerDeviceHolds == Spec => []OnePostPerDevice
<1>1. ASSUME IInv PROVE OnePostPerDevice
  <2>1. ASSUME NEW d \in Device
        PROVE  Cardinality({p \in posts : p[1] = d}) <= 1
    <3> DEFINE running == {p \in posts : p[1] = d}
    <3>1. \A p \in running : p = <<d, current[d]>>
      BY <1>1 DEF IInv, TypeOK, Post, PostIsCurrent
    <3>2. running \subseteq {<<d, current[d]>>}
      BY <3>1
    <3>3. IsFiniteSet({<<d, current[d]>>}) /\ Cardinality({<<d, current[d]>>}) = 1
      BY FS_Singleton
    <3> HIDE DEF running
    <3>4. Cardinality(running) <= 1
      BY <3>2, <3>3, FS_Subset
    <3> QED
      BY <3>4 DEF running
  <2> QED
    BY <2>1 DEF OnePostPerDevice
<1> QED
  BY <1>1, Invariant, PTL

\* Every variable keeps its type, every frame of the stack included.
THEOREM TypeCorrect == Spec => []TypeOK
<1>1. IInv => TypeOK
  BY DEF IInv
<1> QED
  BY <1>1, Invariant, PTL

=============================================================================
