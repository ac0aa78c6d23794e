------------------------- MODULE HubChildrenProofs -------------------------
(***************************************************************************)
(* What holds of a hub and its children for every set of children and      *)
(* robots, every capacity of the dongle's table and every number of edits  *)
(* and faults.                                                             *)
(*                                                                         *)
(* The properties speak of the moments when no call is under way.  The     *)
(* invariant speaks of every moment: whatever disagrees has a call on the  *)
(* stack that will put it right, and no call on the stack can put it wrong *)
(* again.  The second half rests on one fact about the hub: while calls    *)
(* run, what the hub offers its children does not change, but by the last  *)
(* call of an answered HELLO, when nothing else is left to run.            *)
(***************************************************************************)
EXTENDS HubChildren, SequenceTheorems, TLAPS

ChildOps == {"attach", "close", "sync", "upDone", "settle", "reportDown", "connectVia", "bind"}

Frame == [op : ChildOps, about : Child]
         \cup [op : {"updated", "downDone"}, about : Child \cup {Hub}]
         \cup [op : {"dial", "open", "hubUpDone", "ready"}, about : {Hub}]
         \cup [op : {"edge"}, about : Child, value : BOOLEAN]
         \cup [op : {"report"}, about : Child \cup {Hub}, value : BOOLEAN]
         \cup [op : {"signal", "resendAll", "reattach"}, rest : SUBSET Child]

News == {"edge", "report"}

\* The calls of s are calls; news is told at once, so it is only found on top,
\* and the end of an answered HELLO is at the bottom.
Stacked(s) ==
  /\ s \in Seq(Frame)
  /\ \A i \in 1 .. Len(s) : /\ s[i].op \in News => i = 1
                            /\ s[i].op = "ready" => i = Len(s)

\* The calls under way, and the one that runs next.
On == Range(calls)

Top == IF calls = <<>> THEN {} ELSE {Head(calls)}

Pending(op, d) == [op |-> op, about |-> d] \in On

Atop(op, d) == [op |-> op, about |-> d] \in Top

Listening(c) == \E f \in On : f.op = "signal" /\ c \in f.rest

Resending(c) == \E f \in On : f.op = "resendAll" /\ c \in f.rest

Up == hub.link /\ hub.phase = "Ready"

\* The dongle routes c to r, or the user hears that it does not.
Routed(c, r) == table[c] = r \/ <<c, r>> \in refusals \cup told

-----------------------------------------------------------------------------
(* The invariant. *)

Typed ==
  /\ conf \in [Child -> Peer]
  /\ hub \in HubConnection
  /\ child \in [Child -> ChildLink]
  /\ shown \in [Child \cup {Hub} -> BOOLEAN]
  /\ bindings \in [Child -> Peer]
  /\ table \in [Child -> Peer]
  /\ refusals \subseteq Child \X Robot
  /\ told \subseteq Child \X Robot
  /\ unheard \in BOOLEAN
  /\ spent \in [edit : 0 .. MaxEdit, fault : 0 .. MaxFault]

HubOK ==
  /\ hub.link => hub.reported
  /\ Up => hub.session = "up"

\* The calls that will set something find the reason for it.
ChildCallOK(f) ==
  /\ f.op = "attach" => conf[f.about] # NoPeer
  /\ f.op \in {"close", "reportDown"} => conf[f.about] = NoPeer
  /\ f.op = "edge" => /\ f.value = child[f.about].open
                      /\ f.value = IsConnected(child[f.about])
  /\ f.op = "report" /\ f.about \in Child => f.value = child[f.about].reported
  /\ f.op = "upDone" => Carried(f.about) /\ child[f.about].reported
  /\ f.op = "settle" => ~Carried(f.about) /\ ~child[f.about].reported
  /\ f.op = "downDone" /\ f.about \in Child =>
       conf[f.about] = NoPeer /\ ~child[f.about].reported

HubCallOK(f) ==
  /\ f.op = "open" => hub.phase # "Ready"
  /\ f.op = "ready" => /\ hub.link /\ hub.session = "up"
                       /\ \A g \in On : g.op # "open"
  /\ f.op = "resendAll" => hub.phase # "Ready" /\ f.rest \subseteq Bound
  /\ f.op \in {"dial", "open", "hubUpDone", "ready", "report", "updated", "downDone"}
       /\ f.about = Hub => ~unheard

CallsOK == \A f \in On : ChildCallOK(f) /\ HubCallOK(f)

\* What was configured has been applied, or is about to be.
Applied(c) ==
  \/ child[c].wanted = (conf[c] # NoPeer) /\ child[c].peer = conf[c]
  \/ Atop("updated", c) \/ Atop("connectVia", c)

\* A child listens to its hub as long as it is wanted.
AttachedAsWanted(c) ==
  /\ ~child[c].attached => ~child[c].open
  /\ child[c].wanted /\ ~child[c].attached => Atop("attach", c)
  /\ child[c].attached /\ ~child[c].wanted => Pending("close", c)

\* The transport knows what its hub offers, or will hear of it.
OpenFollows(c) ==
  child[c].open # IsConnected(child[c]) => Listening(c) \/ (unheard /\ ~hub.link)

\* The backend knows what the transport knows.
UpFollows(c) ==
  child[c].up # child[c].open => [op |-> "edge", about |-> c, value |-> child[c].open] \in Top

\* The connection does, and so does the devices grid.
ReportedFollows(c) ==
  child[c].reported # (child[c].wanted /\ IsConnected(child[c])) =>
    \/ child[c].open # IsConnected(child[c])
    \/ Pending("sync", c) \/ Pending("reportDown", c)
    \/ [op |-> "edge", about |-> c, value |-> child[c].open] \in Top

ShownFollows(c) ==
  shown[c] # child[c].reported =>
    [op |-> "report", about |-> c, value |-> child[c].reported] \in Top

PhaseFollows(c) ==
  child[c].phase # (IF child[c].reported THEN "Ready"
                    ELSE IF child[c].wanted THEN "Connecting" ELSE "Disconnected") =>
    \E op \in {"sync", "upDone", "settle", "reportDown", "downDone"} : Pending(op, c)

\* The binder holds what the user picked, and the dongle what the binder holds.
BoundAsPicked(c) ==
  conf[c] # NoPeer /\ bindings[c] # conf[c] => Pending("bind", c) \/ Atop("updated", c)

RoutedAsBound(c) ==
  hub.session = "up" /\ ~unheard /\ bindings[c] # NoPeer =>
    Routed(c, bindings[c]) \/ Resending(c)

ChildOK(c) ==
  /\ Applied(c) /\ AttachedAsWanted(c) /\ OpenFollows(c) /\ UpFollows(c)
  /\ ReportedFollows(c) /\ ShownFollows(c) /\ PhaseFollows(c)
  /\ BoundAsPicked(c) /\ RoutedAsBound(c)

IInv ==
  /\ Typed
  /\ Stacked(calls)
  /\ HubOK
  /\ CallsOK
  /\ \A c \in Child : ChildOK(c)

-----------------------------------------------------------------------------
(* The stack. *)

\* The calls that are made are calls.
LEMMA CallsAreFrames ==
  /\ \A op \in ChildOps, c \in Child : [op |-> op, about |-> c] \in Frame
  /\ \A op \in {"updated", "downDone"}, d \in Child \cup {Hub} : [op |-> op, about |-> d] \in Frame
  /\ \A op \in {"dial", "open", "hubUpDone", "ready"} : [op |-> op, about |-> Hub] \in Frame
  /\ \A c \in Child, v \in BOOLEAN : [op |-> "edge", about |-> c, value |-> v] \in Frame
  /\ \A d \in Child \cup {Hub}, v \in BOOLEAN :
       [op |-> "report", about |-> d, value |-> v] \in Frame
  /\ \A op \in {"signal", "resendAll", "reattach"}, S \in SUBSET Child :
       [op |-> op, rest |-> S] \in Frame
BY DEF Frame

\* What a call is, by its name.
LEMMA FrameKinds ==
  ASSUME NEW f \in Frame
  PROVE  /\ f.op \in ChildOps \cup {"updated", "downDone", "dial", "open", "hubUpDone", "ready",
                                    "edge", "report", "signal", "resendAll", "reattach"}
         /\ f.op \in ChildOps => f.about \in Child
         /\ f.op \in {"updated", "downDone"} => f.about \in Child \cup {Hub}
         /\ f.op \in {"dial", "open", "hubUpDone", "ready"} => f.about = Hub
         /\ f.op \in ChildOps \cup {"updated", "downDone", "dial", "open", "hubUpDone", "ready"} =>
              f = [op |-> f.op, about |-> f.about]
         /\ f.op = "edge" => f.about \in Child
         /\ f.op = "report" => f.about \in Child \cup {Hub}
         /\ f.op \in News => /\ f.value \in BOOLEAN
                             /\ f = [op |-> f.op, about |-> f.about, value |-> f.value]
         /\ f.op \in {"signal", "resendAll", "reattach"} =>
              f.rest \subseteq Child /\ f = [op |-> f.op, rest |-> f.rest]
BY DEF Frame, ChildOps, News

\* What may be put on a stack: news first, if any, and no end of a HELLO.
Made(s) ==
  /\ s \in Seq(Frame)
  /\ \A i \in 1 .. Len(s) : (s[i].op \in News => i = 1) /\ s[i].op # "ready"

Plain(f) == f \in Frame /\ f.op \notin News /\ f.op # "ready"

\* Nothing, or one call.
LEMMA MadeOne ==
  /\ Made(<<>>) /\ Range(<<>>) = {}
  /\ \A f \in Frame : /\ Range(<<f>>) = {f} /\ <<f>> # <<>> /\ Head(<<f>>) = f
                      /\ f.op # "ready" => Made(<<f>>)
<1>1. Made(<<>>) /\ Range(<<>>) = {}
  BY EmptySeq DEF Made, Range
<1>2. ASSUME NEW f \in Frame
      PROVE  /\ Range(<<f>>) = {f} /\ <<f>> # <<>> /\ Head(<<f>>) = f
             /\ f.op # "ready" => Made(<<f>>)
  <2>1. <<f>> \in Seq(Frame) /\ Len(<<f>>) = 1 /\ DOMAIN <<f>> = {1} /\ <<f>>[1] = f
    OBVIOUS
  <2>2. \A i \in 1 .. Len(<<f>>) : i = 1
    BY <2>1
  <2> QED
    BY <2>1, <2>2 DEF Made, Range
<1> QED
  BY <1>1, <1>2

\* One more call after those, which is not news.
LEMMA MadeMore ==
  ASSUME NEW s, Made(s), NEW f, Plain(f)
  PROVE  /\ Made(s \o <<f>>) /\ Range(s \o <<f>>) = Range(s) \cup {f}
         /\ s \o <<f>> # <<>>
         /\ Head(s \o <<f>>) = IF s = <<>> THEN f ELSE Head(s)
<1> DEFINE t == <<f>>
           r == s \o t
<1>1. /\ s \in Seq(Frame) /\ t \in Seq(Frame) /\ Len(t) = 1 /\ t[1] = f
      /\ Len(s) \in Nat /\ DOMAIN s = 1 .. Len(s)
  BY LenProperties DEF Made, Plain
<1>2. /\ r \in Seq(Frame) /\ Len(r) = Len(s) + 1
      /\ \A i \in 1 .. Len(s) + 1 : r[i] = IF i <= Len(s) THEN s[i] ELSE t[i - Len(s)]
  <2>1. t \in Seq(Frame) /\ Len(t) = 1
    BY <1>1
  <2> HIDE DEF t
  <2>2. /\ s \o t \in Seq(Frame) /\ Len(s \o t) = Len(s) + Len(t)
        /\ \A i \in 1 .. Len(s) + Len(t) : (s \o t)[i] = IF i <= Len(s) THEN s[i] ELSE t[i - Len(s)]
    BY <1>1, <2>1, ConcatProperties
  <2> QED
    BY <2>1, <2>2
<1>3. DOMAIN r = 1 .. Len(r)
  BY <1>2, LenProperties
<1> HIDE DEF r, t
<1>4. /\ \A i \in 1 .. Len(s) : r[i] = s[i] /\ i \in 1 .. Len(r)
      /\ r[Len(s) + 1] = f /\ Len(s) + 1 \in 1 .. Len(r)
      /\ \A i \in 1 .. Len(r) : i \in 1 .. Len(s) \/ i = Len(s) + 1
  BY <1>1, <1>2
<1>5. Made(r)
  BY <1>1, <1>2, <1>4 DEF Made, Plain
<1>6. Range(r) = Range(s) \cup {f}
  BY <1>1, <1>3, <1>4 DEF Range
<1>7. r # <<>> /\ Head(r) = r[1]
  BY <1>1, <1>2, EmptySeq, HeadTailProperties
<1>8. r[1] = IF s = <<>> THEN f ELSE Head(s)
  <2>1. CASE s = <<>>
    BY <1>4, <2>1, EmptySeq
  <2>2. CASE s # <<>>
    <3>1. Head(s) = s[1] /\ 1 \in 1 .. Len(s)
      BY <1>1, <2>2, EmptySeq, HeadTailProperties
    <3> QED
      BY <1>4, <2>2, <3>1
  <2> QED
    BY <2>1, <2>2
<1> QED
  BY <1>5, <1>6, <1>7, <1>8 DEF r, t

\* Indices of a sequence and of its tail.
LEMMA TailIndices ==
  ASSUME NEW n \in Nat, n # 0, NEW k, k = n - 1
  PROVE  /\ k \in Nat /\ 1 \in 1 .. n
         /\ \A i \in 1 .. k : /\ i \in Nat /\ i + 1 \in 1 .. n /\ i + 1 # 1
                             /\ (i + 1 = n) => i = k
         /\ \A i \in 1 .. n : i # 1 => (i - 1 \in 1 .. k /\ (i - 1) + 1 = i)
         /\ 1 = n => k = 0
OBVIOUS

\* Indices of two sequences and of one put before the other.
LEMMA JoinedIndices ==
  ASSUME NEW n \in Nat, NEW k \in Nat
  PROVE  /\ \A i \in 1 .. n : i \in 1 .. (n + k) /\ i <= n
         /\ \A i \in 1 .. k : /\ n + i \in 1 .. (n + k) /\ ~(n + i <= n) /\ (n + i) - n = i
         /\ \A i \in 1 .. (n + k) : ~(i <= n) => /\ i - n \in 1 .. k
                                                 /\ (i - n = k) => i = n + k
         /\ \A i \in 1 .. (n + k) : i <= n => i \in 1 .. n
OBVIOUS

\* The call on top, and what is below it.
LEMMA Called ==
  ASSUME NEW s, Stacked(s), s # <<>>
  PROVE  LET below == Tail(s)
         IN /\ Head(s) \in Frame
            /\ below \in Seq(Frame)
            /\ Range(s) = {Head(s)} \cup Range(below)
            /\ \A i \in 1 .. Len(below) : /\ below[i].op \notin News
                                          /\ below[i].op = "ready" => i = Len(below)
            /\ Head(s).op = "ready" => below = <<>>
<1> DEFINE below == Tail(s)
<1>1. s \in Seq(Frame) /\ Len(s) \in Nat \ {0} /\ DOMAIN s = 1 .. Len(s)
  BY LenProperties, EmptySeq DEF Stacked
<1>2. /\ Head(s) \in Frame /\ Head(s) = s[1]
      /\ below \in Seq(Frame) /\ Len(below) = Len(s) - 1
      /\ \A i \in 1 .. Len(below) : below[i] = s[i + 1]
  BY <1>1, HeadTailProperties
<1>3. DOMAIN below = 1 .. Len(below)
  BY <1>2, LenProperties
<1> HIDE DEF below
<1> DEFINE n == Len(s)
           k == Len(below)
<1>3a. n \in Nat /\ n # 0 /\ k = n - 1
  BY <1>1, <1>2
<1> HIDE DEF n, k
<1>4. /\ k \in Nat /\ 1 \in 1 .. n
      /\ \A i \in 1 .. k : /\ i \in Nat /\ i + 1 \in 1 .. n /\ i + 1 # 1
                          /\ (i + 1 = n) => i = k
      /\ \A i \in 1 .. n : i # 1 => (i - 1 \in 1 .. k /\ (i - 1) + 1 = i)
      /\ 1 = n => k = 0
  BY <1>3a, TailIndices
<1>4a. /\ DOMAIN s = 1 .. n /\ DOMAIN below = 1 .. k
       /\ \A i \in 1 .. k : below[i] = s[i + 1]
       /\ k = Len(below) /\ n = Len(s)
  BY <1>1, <1>2, <1>3 DEF n, k
<1>5. Range(s) = {Head(s)} \cup Range(below)
  <2>1. ASSUME NEW x \in Range(s) PROVE x \in {Head(s)} \cup Range(below)
    <3>1. PICK i \in 1 .. n : x = s[i]
      BY <1>4a, <2>1 DEF Range
    <3>2. i # 1 => i - 1 \in DOMAIN below /\ below[i - 1] = s[i]
      BY <1>4, <1>4a
    <3> QED
      BY <1>2, <3>1, <3>2 DEF Range
  <2>2. ASSUME NEW x \in {Head(s)} \cup Range(below) PROVE x \in Range(s)
    BY <1>2, <1>4, <1>4a, <2>2 DEF Range
  <2> QED
    BY <2>1, <2>2
<1>6. \A i \in 1 .. k : /\ below[i].op \notin News
                        /\ below[i].op = "ready" => i = k
  <2>1. ASSUME NEW i \in 1 .. k
        PROVE  /\ below[i].op \notin News
               /\ below[i].op = "ready" => i = k
    <3> DEFINE j == i + 1
    <3>1. j \in 1 .. n /\ j # 1 /\ (j = n => i = k)
      BY <1>3a
    <3>2. below[i] = s[j]
      BY <1>4a
    <3> HIDE DEF j
    <3> QED
      BY <1>4a, <3>1, <3>2 DEF Stacked
  <2> QED
    BY <2>1
<1>7. Head(s).op = "ready" => below = <<>>
  BY <1>2, <1>4, <1>4a, EmptySeq DEF Stacked
<1> QED
  BY <1>2, <1>4a, <1>5, <1>6, <1>7 DEF below

\* Calls put before others that are not news.
LEMMA Joined ==
  ASSUME NEW m, Made(m), NEW b \in Seq(Frame),
         \A i \in 1 .. Len(b) : b[i].op \notin News /\ (b[i].op = "ready" => i = Len(b))
  PROVE  /\ Stacked(m \o b) /\ Range(m \o b) = Range(m) \cup Range(b)
         /\ m # <<>> => m \o b # <<>> /\ Head(m \o b) = Head(m)
         /\ m = <<>> => m \o b = b
<1> DEFINE r == m \o b
<1>1. /\ m \in Seq(Frame) /\ Len(m) \in Nat /\ Len(b) \in Nat
      /\ DOMAIN m = 1 .. Len(m) /\ DOMAIN b = 1 .. Len(b)
  BY LenProperties DEF Made
<1>2. /\ r \in Seq(Frame) /\ Len(r) = Len(m) + Len(b)
      /\ \A i \in 1 .. Len(m) + Len(b) : r[i] = IF i <= Len(m) THEN m[i] ELSE b[i - Len(m)]
  BY <1>1, ConcatProperties
<1>3. DOMAIN r = 1 .. Len(r)
  BY <1>2, LenProperties
<1>9. m = <<>> => r = b
  BY ConcatEmptySeq
<1> HIDE DEF r
<1> DEFINE n == Len(m)
           k == Len(b)
<1> HIDE DEF n, k
<1>3a. /\ n = Len(m) /\ k = Len(b) /\ n \in Nat /\ k \in Nat /\ Len(r) = n + k
       /\ DOMAIN m = 1 .. n /\ DOMAIN b = 1 .. k /\ DOMAIN r = 1 .. (n + k)
  BY <1>1, <1>2, <1>3 DEF n, k
<1>3b. \A i \in 1 .. (n + k) : r[i] = IF i <= n THEN m[i] ELSE b[i - n]
  BY <1>2 DEF n, k
<1>4. /\ \A i \in 1 .. n : i \in 1 .. (n + k) /\ r[i] = m[i]
      /\ \A i \in 1 .. k : n + i \in 1 .. (n + k) /\ r[n + i] = b[i]
      /\ \A i \in 1 .. (n + k) :
           \/ i \in 1 .. n /\ r[i] = m[i]
           \/ i - n \in 1 .. k /\ r[i] = b[i - n] /\ ((i - n = k) => i = n + k)
  <2>1. /\ \A i \in 1 .. n : i \in 1 .. (n + k) /\ i <= n
        /\ \A i \in 1 .. k : /\ n + i \in 1 .. (n + k) /\ ~(n + i <= n) /\ (n + i) - n = i
        /\ \A i \in 1 .. (n + k) : ~(i <= n) => /\ i - n \in 1 .. k
                                                /\ (i - n = k) => i = n + k
        /\ \A i \in 1 .. (n + k) : i <= n => i \in 1 .. n
    BY <1>3a, JoinedIndices
  <2>2. \A i \in 1 .. n : i \in 1 .. (n + k) /\ r[i] = m[i]
    BY <1>3b, <2>1
  <2>3. ASSUME NEW i \in 1 .. k PROVE n + i \in 1 .. (n + k) /\ r[n + i] = b[i]
    <3>1. n + i \in 1 .. (n + k) /\ ~(n + i <= n) /\ (n + i) - n = i
      BY <2>1
    <3>2. r[n + i] = b[(n + i) - n]
      BY <1>3b, <3>1
    <3> QED
      BY <3>1, <3>2
  <2>4. ASSUME NEW i \in 1 .. (n + k)
        PROVE  \/ i \in 1 .. n /\ r[i] = m[i]
               \/ i - n \in 1 .. k /\ r[i] = b[i - n] /\ ((i - n = k) => i = n + k)
    <3>1. CASE i <= n
      BY <1>3b, <2>1, <3>1
    <3>2. CASE ~(i <= n)
      <4>1. i - n \in 1 .. k /\ ((i - n = k) => i = n + k)
        BY <1>3a, <3>2
      <4>2. r[i] = b[i - n]
        BY <1>3b, <3>2
      <4> QED
        BY <4>1, <4>2
    <3> QED
      BY <3>1, <3>2
  <2> QED
    BY <2>2, <2>3, <2>4
<1>5. Stacked(r)
  <2>1. ASSUME NEW i \in 1 .. Len(r)
        PROVE  /\ r[i].op \in News => i = 1
               /\ r[i].op = "ready" => i = Len(r)
    <3>1. CASE i \in 1 .. n /\ r[i] = m[i]
      BY <1>3a, <3>1 DEF Made
    <3>2. CASE i - n \in 1 .. k /\ r[i] = b[i - n] /\ ((i - n = k) => i = n + k)
      <4> DEFINE j == i - n
      <4>1. j \in 1 .. Len(b) /\ r[i] = b[j] /\ (j = Len(b) => i = Len(r))
        BY <1>3a, <3>2
      <4> HIDE DEF j
      <4> QED
        BY <4>1
    <3> QED
      BY <1>3a, <1>4, <3>1, <3>2
  <2> QED
    BY <1>2, <2>1 DEF Stacked
<1>6. Range(r) = Range(m) \cup Range(b)
  <2>1. ASSUME NEW x \in Range(r) PROVE x \in Range(m) \cup Range(b)
    <3>1. PICK i \in 1 .. (n + k) : x = r[i]
      BY <1>3a, <2>1 DEF Range
    <3>2. CASE i \in 1 .. n /\ r[i] = m[i]
      BY <1>3a, <3>1, <3>2 DEF Range
    <3>3. CASE i - n \in 1 .. k /\ r[i] = b[i - n]
      BY <1>3a, <3>1, <3>3 DEF Range
    <3> QED
      BY <1>4, <3>2, <3>3
  <2>2. ASSUME NEW x \in Range(m) PROVE x \in Range(r)
    BY <1>3a, <1>4, <2>2 DEF Range
  <2>3. ASSUME NEW x \in Range(b) PROVE x \in Range(r)
    BY <1>3a, <1>4, <2>3 DEF Range
  <2> QED
    BY <2>1, <2>2, <2>3
<1>7. m # <<>> => r # <<>> /\ Head(r) = Head(m)
  <2> SUFFICES ASSUME m # <<>> PROVE r # <<>> /\ Head(r) = Head(m)
    OBVIOUS
  <2>1. n # 0 /\ Head(m) = m[1]
    <3>1. m \in Seq(Frame) /\ m # <<>>
      BY <1>1
    <3>2. Len(m) \in Nat \ {0}
      BY <3>1, EmptySeq
    <3>3. Head(m) = m[1]
      BY <3>1, HeadTailProperties
    <3> QED
      BY <1>3a, <3>2, <3>3
  <2>2. 1 \in 1 .. n /\ Len(r) # 0
    BY <1>3a, <2>1
  <2>3. r # <<>> /\ Head(r) = r[1]
    BY <1>2, <2>2, EmptySeq, HeadTailProperties
  <2> QED
    BY <1>4, <2>1, <2>2, <2>3
<1> QED
  BY <1>5, <1>6, <1>7, <1>9 DEF r

-----------------------------------------------------------------------------
(* A step of the stack. *)

\* What is below the call that runs.
Below == Range(Tail(calls))

\* The stack after a step: the calls made, and what has become of those below.
Replaced(made, below) ==
  /\ Stacked(calls')
  /\ On' = Range(made) \cup below
  /\ Top' \subseteq On'
  /\ made # <<>> => Top' = {Head(made)}

\* The stack before a step.
Runs(h) ==
  /\ calls # <<>> /\ Head(calls) = h /\ h \in Frame
  /\ Top = {h}
  /\ On = {h} \cup Below
  /\ \A f \in Below : f \in Frame /\ f.op \notin News
  /\ h.op = "ready" => Below = {}

\* Elements of a sequence without news are no news.
LEMMA BelowIsPlain ==
  ASSUME Stacked(calls), calls # <<>>
  PROVE  Runs(Head(calls))
<1>1. /\ Head(calls) \in Frame /\ Tail(calls) \in Seq(Frame)
      /\ Range(calls) = {Head(calls)} \cup Range(Tail(calls))
      /\ \A i \in 1 .. Len(Tail(calls)) : Tail(calls)[i].op \notin News
      /\ Head(calls).op = "ready" => Tail(calls) = <<>>
  BY Called
<1>2. ASSUME NEW f \in Below PROVE f \in Frame /\ f.op \notin News
  <2>1. PICK i \in 1 .. Len(Tail(calls)) : f = Tail(calls)[i]
    BY <1>1, LenProperties DEF Below, Range
  <2> QED
    BY <1>1, <2>1, ElementOfSeq
<1>3. Head(calls).op = "ready" => Below = {}
  BY <1>1, MadeOne DEF Below
<1> QED
  BY <1>1, <1>2, <1>3 DEF Runs, Top, On, Below

\* The head of a stack is on it.
LEMMA TopIsOn ==
  ASSUME NEW s, Stacked(s)
  PROVE  s # <<>> => Head(s) \in Range(s)
BY Called

\* A call returns.
LEMMA Returned ==
  ASSUME Stacked(calls), calls # <<>>, NEW made, Made(made), Return(made)
  PROVE  Replaced(made, Below)
<1> DEFINE below == Tail(calls)
<1>1. /\ below \in Seq(Frame)
      /\ \A i \in 1 .. Len(below) : /\ below[i].op \notin News
                                    /\ below[i].op = "ready" => i = Len(below)
  BY Called
<1>2. calls' = made \o below
  BY DEF Return
<1> HIDE DEF below
<1>3. /\ Stacked(calls') /\ Range(calls') = Range(made) \cup Range(below)
      /\ made # <<>> => calls' # <<>> /\ Head(calls') = Head(made)
  BY <1>1, <1>2, Joined
<1>4. calls' # <<>> => Head(calls') \in Range(calls')
  BY <1>3, TopIsOn
<1> QED
  BY <1>3, <1>4 DEF Replaced, On, Top, Below, below

\* What disconnect() leaves of a call.
Deaf(c, f) == IF f.op = "signal" THEN [f EXCEPT !.rest = @ \ {c}] ELSE f

\* A child that stops listening is taken out of every emission under way.
LEMMA UnlistenProperties ==
  ASSUME NEW c \in Child, NEW b \in Seq(Frame),
         \A i \in 1 .. Len(b) : b[i].op \notin News /\ (b[i].op = "ready" => i = Len(b))
  PROVE  /\ Unlisten(c, b) \in Seq(Frame)
         /\ Range(Unlisten(c, b)) = {Deaf(c, f) : f \in Range(b)}
         /\ \A i \in 1 .. Len(Unlisten(c, b)) :
              /\ Unlisten(c, b)[i].op \notin News
              /\ Unlisten(c, b)[i].op = "ready" => i = Len(Unlisten(c, b))
<1> DEFINE r == Unlisten(c, b)
<1>1. Len(b) \in Nat /\ DOMAIN b = 1 .. Len(b) /\ \A i \in 1 .. Len(b) : b[i] \in Frame
  BY LenProperties, ElementOfSeq
<1>2. r = [i \in 1 .. Len(b) |-> Deaf(c, b[i])]
  BY <1>1 DEF Unlisten, Deaf
<1>3. ASSUME NEW f \in Frame PROVE Deaf(c, f) \in Frame /\ Deaf(c, f).op = f.op
  <2>1. CASE f.op = "signal"
    <3>1. f.rest \subseteq Child /\ f = [op |-> "signal", rest |-> f.rest]
      BY <2>1, FrameKinds
    <3>2. Deaf(c, f) = [op |-> "signal", rest |-> f.rest \ {c}]
      BY <2>1, <3>1 DEF Deaf
    <3>3. f.rest \ {c} \in SUBSET Child
      BY <3>1
    <3> QED
      BY <2>1, <3>2, <3>3, CallsAreFrames
  <2>2. CASE f.op # "signal"
    BY <2>2 DEF Deaf
  <2> QED
    BY <2>1, <2>2
<1> HIDE DEF r
<1>4. /\ r \in [1 .. Len(b) -> Frame]
      /\ \A i \in 1 .. Len(b) : r[i] = Deaf(c, b[i]) /\ r[i].op = b[i].op
  BY <1>1, <1>2, <1>3
<1>5. r \in Seq(Frame)
  BY <1>1, <1>4, SeqDef
<1>6. Len(r) = Len(b)
  <2>1. Len(r) \in Nat /\ DOMAIN r = 1 .. Len(r) /\ DOMAIN r = 1 .. Len(b)
    BY <1>4, <1>5, LenProperties
  <2>2. ASSUME NEW m \in Nat, NEW n \in Nat, 1 .. m = 1 .. n PROVE m = n
    <3>1. m # 0 => m \in 1 .. n
      BY <2>2
    <3>2. n # 0 => n \in 1 .. m
      BY <2>2
    <3> QED
      BY <3>1, <3>2
  <2> QED
    BY <1>1, <2>1, <2>2
<1>7. Range(r) = {Deaf(c, f) : f \in Range(b)}
  <2> DEFINE n == Len(b)
  <2>1. /\ DOMAIN r = 1 .. n /\ DOMAIN b = 1 .. n
        /\ \A i \in 1 .. n : r[i] = Deaf(c, b[i])
    BY <1>1, <1>4
  <2> HIDE DEF n
  <2>2. ASSUME NEW x \in Range(r) PROVE x \in {Deaf(c, f) : f \in Range(b)}
    <3>1. PICK i \in 1 .. n : x = r[i]
      BY <2>1, <2>2 DEF Range
    <3>2. b[i] \in Range(b)
      BY <2>1 DEF Range
    <3> QED
      BY <2>1, <3>1, <3>2
  <2>3. ASSUME NEW f \in Range(b) PROVE Deaf(c, f) \in Range(r)
    <3>1. PICK i \in 1 .. n : f = b[i]
      BY <2>1, <2>3 DEF Range
    <3>2. r[i] \in Range(r)
      BY <2>1 DEF Range
    <3> QED
      BY <2>1, <3>1, <3>2
  <2> QED
    BY <2>2, <2>3
<1> QED
  BY <1>4, <1>5, <1>6, <1>7 DEF r

\* A call returns that disconnects its child first.
LEMMA ReturnedDeaf ==
  ASSUME Stacked(calls), calls # <<>>, NEW made, Made(made), NEW c \in Child,
         calls' = made \o Unlisten(c, Tail(calls))
  PROVE  Replaced(made, {Deaf(c, f) : f \in Below})
<1> DEFINE below == Unlisten(c, Tail(calls))
<1>1. /\ below \in Seq(Frame)
      /\ Range(below) = {Deaf(c, f) : f \in Below}
      /\ \A i \in 1 .. Len(below) : /\ below[i].op \notin News
                                    /\ below[i].op = "ready" => i = Len(below)
  <2> DEFINE t == Tail(calls)
  <2>1. /\ t \in Seq(Frame)
        /\ \A i \in 1 .. Len(t) : t[i].op \notin News /\ (t[i].op = "ready" => i = Len(t))
    BY Called
  <2> HIDE DEF t
  <2>2. /\ Unlisten(c, t) \in Seq(Frame)
        /\ Range(Unlisten(c, t)) = {Deaf(c, f) : f \in Range(t)}
        /\ \A i \in 1 .. Len(Unlisten(c, t)) :
             /\ Unlisten(c, t)[i].op \notin News
             /\ Unlisten(c, t)[i].op = "ready" => i = Len(Unlisten(c, t))
    BY <2>1, UnlistenProperties
  <2> QED
    BY <2>2 DEF t, Below
<1> HIDE DEF below
<1>2. calls' = made \o below
  BY DEF below
<1> DEFINE s == made \o below
<1>3a. \A i \in 1 .. Len(below) :
         below[i].op \notin News /\ (below[i].op = "ready" => i = Len(below))
  BY <1>1
<1>3b. /\ Stacked(s) /\ Range(s) = Range(made) \cup Range(below)
       /\ made # <<>> => s # <<>> /\ Head(s) = Head(made)
  BY <1>1, <1>3a, Joined
<1> HIDE DEF s
<1>3. /\ Stacked(calls') /\ Range(calls') = Range(made) \cup Range(below)
      /\ made # <<>> => calls' # <<>> /\ Head(calls') = Head(made)
  BY <1>2, <1>3b DEF s
<1>4. calls' # <<>> => Head(calls') \in Range(calls')
  BY <1>3, TopIsOn
<1> QED
  BY <1>1, <1>3, <1>4 DEF Replaced, On, Top

-----------------------------------------------------------------------------
(* What a step leaves alone. *)

Loops == {"signal", "resendAll", "reattach"}

\* Call h has nothing to do with d.
Elsewhere(h, d) == h.op \in Loops \/ h.about # d

\* The parts of the state that an invariant of child d reads.
Same(d) ==
  /\ child'[d] = child[d] /\ shown'[d] = shown[d] /\ bindings'[d] = bindings[d]
  /\ conf'[d] = conf[d] /\ hub' = hub /\ unheard' = unheard
  /\ \A r \in Peer : Routed(d, r) => Routed(d, r)'

\* The calls that wait still wait, but for h.
Waiting(h, d) ==
  /\ \A f \in On : f = h \/ f.op \in {"signal", "resendAll"} \/ f \in On'
  /\ Listening(d) => Listening(d)'
  /\ Resending(d) => Resending(d)'

\* A call about one child leaves the others as they were.
LEMMA OtherChild ==
  ASSUME NEW d \in Child, ChildOK(d), bindings[d] \in Peer, NEW h, Top = {h}, h \in On,
         Elsewhere(h, d), Same(d), Waiting(h, d)
  PROVE  ChildOK(d)'
<1>1. /\ \A op : Pending(op, d) /\ op \notin Loops => Pending(op, d)'
      /\ \A op : op \notin Loops => ~Atop(op, d)
      /\ \A v : [op |-> "edge", about |-> d, value |-> v] \notin Top
      /\ \A v : [op |-> "report", about |-> d, value |-> v] \notin Top
  <2>1. ASSUME NEW op, op \notin Loops PROVE [op |-> op, about |-> d] # h
    BY <2>1 DEF Elsewhere
  <2>2. \A v : /\ [op |-> "edge", about |-> d, value |-> v] # h
               /\ [op |-> "report", about |-> d, value |-> v] # h
    BY DEF Elsewhere, Loops
  <2>3. ASSUME NEW op, Pending(op, d), op \notin Loops PROVE Pending(op, d)'
    BY <2>1, <2>3 DEF Pending, Waiting, Loops
  <2> QED
    BY <2>1, <2>2, <2>3 DEF Atop
<1>2. IsConnected(child[d])' = IsConnected(child[d])
  BY DEF Same, IsConnected
<1>3. Applied(d)'
  BY <1>1 DEF ChildOK, Applied, Same, Loops
<1>4. AttachedAsWanted(d)'
  BY <1>1 DEF ChildOK, AttachedAsWanted, Same, Loops
<1>5. OpenFollows(d)'
  BY <1>2 DEF ChildOK, OpenFollows, Same, Waiting
<1>6. UpFollows(d)' /\ ShownFollows(d)'
  BY <1>1 DEF ChildOK, UpFollows, ShownFollows, Same
<1>7. ReportedFollows(d)'
  BY <1>1, <1>2 DEF ChildOK, ReportedFollows, Same, Loops
<1>8. PhaseFollows(d)'
  <2>1. \A op \in {"sync", "upDone", "settle", "reportDown", "downDone"} :
          Pending(op, d) => Pending(op, d)'
    BY <1>1 DEF Loops
  <2> QED
    BY <2>1 DEF ChildOK, PhaseFollows, Same
<1>9. BoundAsPicked(d)'
  BY <1>1 DEF ChildOK, BoundAsPicked, Same, Loops
<1>10. RoutedAsBound(d)'
  BY DEF ChildOK, RoutedAsBound, Same, Waiting
<1> QED
  BY <1>3, <1>4, <1>5, <1>6, <1>7, <1>8, <1>9, <1>10 DEF ChildOK

\* Calls that a handler of a child makes.
ForChild(f) ==
  \/ f.op \in ChildOps \cup {"downDone"} \cup News /\ f.about \in Child
  \/ f.op = "signal"

\* What is below after a handler of child c: the same, but for the emissions,
\* which still reach every other child.
Left(c, below) ==
  /\ \A f \in below : f \in Below \/ (f.op = "signal" /\ f \in Frame)
  /\ \A f \in Below : f \in below \/ f.op = "signal"

\* A step that changes child c, and no variable but calls besides.
ChildBecomes(c, k) ==
  /\ child' = [child EXCEPT ![c] = k]
  /\ UNCHANGED <<conf, hub, shown, bindings, table, refusals, told, unheard, spent>>

\* A handler of child c keeps the invariant when it keeps that of c, does not
\* disturb the end of a handler of c that is suspended, and makes sound calls.
LEMMA ChildActs ==
  ASSUME IInv, NEW h, Runs(h), NEW c \in Child, NEW k \in ChildLink,
         ChildBecomes(c, k),
         h.op \in Loops \/ h.about = c,
         h.op # "resendAll",
         NEW made, NEW below, Replaced(made, below), Left(c, below),
         \A d \in Child \ {c} : Listening(d) => Listening(d)',
         \A f \in Range(made) : ForChild(f) /\ ChildCallOK(f)',
         \A f \in below : f.op \in {"upDone", "settle", "downDone"} /\ f.about = c =>
                            k.reported = child[c].reported,
         ChildOK(c)'
  PROVE  IInv'
<1>0. /\ child' = [child EXCEPT ![c] = k]
      /\ UNCHANGED <<conf, hub, shown, bindings, table, refusals, told, unheard, spent>>
  BY DEF ChildBecomes
<1>1. Typed'
  BY <1>0 DEF IInv, Typed
<1>2. Stacked(calls')
  BY DEF Replaced
<1>3. HubOK'
  BY <1>0 DEF IInv, HubOK, Up
<1>4. \A d \in Child : child'[d] = IF d = c THEN k ELSE child[d]
  BY <1>0 DEF IInv, Typed
<1>5. CallsOK'
  <2>1. \A f \in On' : f.op # "open" \/ f \in On
    BY DEF Replaced, Left, Runs, ForChild, ChildOps, News
  <2>2. ASSUME NEW f \in Range(made) PROVE ChildCallOK(f)' /\ HubCallOK(f)'
    <3>1. ForChild(f) /\ ChildCallOK(f)'
      OBVIOUS
    <3>2. HubCallOK(f)'
      BY <3>1, HubAssumption DEF ForChild, HubCallOK, ChildOps, News
    <3> QED
      BY <3>1, <3>2
  <2>3. ASSUME NEW f \in below PROVE ChildCallOK(f)' /\ HubCallOK(f)'
    <3>1. CASE f.op = "signal"
      BY <3>1 DEF ChildCallOK, HubCallOK
    <3>2. CASE f.op # "signal"
      <4>1. f \in Below /\ f \in Frame /\ f \in On /\ f.op \notin News
        BY <3>2 DEF Left, Runs
      <4>2. ChildCallOK(f) /\ HubCallOK(f)
        BY <4>1 DEF IInv, CallsOK
      <4>3. f.op \in ChildOps => f.about \in Child
        BY <4>1, FrameKinds
      <4>4. ASSUME f.op \in {"upDone", "settle", "downDone"}, f.about \in Child
            PROVE  child'[f.about].reported = child[f.about].reported
        BY <1>4, <4>4
      <4>5. ChildCallOK(f)'
        BY <1>0, <4>1, <4>2, <4>3, <4>4 DEF ChildCallOK, Carried, News, ChildOps
      <4>6. HubCallOK(f)'
        BY <1>0, <2>1, <4>2 DEF HubCallOK, Bound
      <4> QED
        BY <4>5, <4>6
    <3> QED
      BY <3>1, <3>2
  <2> QED
    BY <2>2, <2>3 DEF CallsOK, Replaced
<1>6. ASSUME NEW d \in Child, d # c PROVE ChildOK(d)'
  <2>1. ChildOK(d) /\ bindings[d] \in Peer /\ d \in Child \ {c}
    BY <1>6 DEF IInv, Typed
  <2>2. Same(d)
    BY <1>0, <1>4, <1>6 DEF Same, Routed
  <2>3. Elsewhere(h, d)
    BY <1>6 DEF Elsewhere
  <2>4. Waiting(h, d)
    <3>1. \A f \in On : f = h \/ f.op \in {"signal", "resendAll"} \/ f \in On'
      BY DEF Runs, Left, Replaced
    <3>2. Resending(d) => Resending(d)'
      BY DEF Resending, Runs, Left, Replaced
    <3> QED
      BY <2>1, <3>1, <3>2 DEF Waiting
  <2>5. Top = {h} /\ h \in On
    BY DEF Runs
  <2> QED
    BY <2>1, <2>2, <2>3, <2>4, <2>5, OtherChild
<1> QED
  BY <1>1, <1>2, <1>3, <1>5, <1>6 DEF IInv

-----------------------------------------------------------------------------
(* The DeviceConnection of a child. *)

Want(k) ==
  IF k.reported THEN "Ready" ELSE IF k.wanted THEN "Connecting" ELSE "Disconnected"

\* What a handler of a child finds.
Handles(h, c) ==
  /\ c \in Child /\ h.about = c /\ Runs(h) /\ h \in On
  /\ h.op \in ChildOps \cup {"downDone"} => h = [op |-> h.op, about |-> c]
  /\ h.op \in News => h = [op |-> h.op, about |-> c, value |-> h.value] /\ h.value \in BOOLEAN
  /\ ChildOK(c) /\ ChildCallOK(h)
  /\ child[c] \in ChildLink /\ conf[c] \in Peer /\ bindings[c] \in Peer
  /\ child \in [Child -> ChildLink] /\ hub \in HubConnection

\* It finds it whenever it runs.
LEMMA HandlerRuns ==
  ASSUME IInv, calls # <<>>,
         \/ Head(calls).op \in ChildOps \cup {"edge"}
         \/ Head(calls).op \in {"downDone", "report", "updated"} /\ Head(calls).about \in Child
  PROVE  Handles(Head(calls), Head(calls).about)
<1> DEFINE h == Head(calls)
<1>1. Runs(h) /\ h \in Frame
  BY BelowIsPlain DEF IInv, Runs
<1>2. h \in On
  BY <1>1 DEF Runs
<1>3. h.about \in Child
  BY <1>1, FrameKinds
<1>4. /\ h.op \in ChildOps \cup {"downDone"} => h = [op |-> h.op, about |-> h.about]
      /\ h.op \in News => /\ h = [op |-> h.op, about |-> h.about, value |-> h.value]
                          /\ h.value \in BOOLEAN
  BY <1>1, FrameKinds
<1> HIDE DEF h
<1>5. ChildOK(h.about) /\ ChildCallOK(h)
  BY <1>2, <1>3 DEF IInv, CallsOK
<1>6. /\ child[h.about] \in ChildLink /\ conf[h.about] \in Peer /\ bindings[h.about] \in Peer
      /\ child \in [Child -> ChildLink] /\ hub \in HubConnection
  BY <1>3 DEF IInv, Typed
<1> QED
  BY <1>1, <1>2, <1>3, <1>4, <1>5, <1>6 DEF Handles, h

\* What waits for child c besides the call that runs.
StillWaits(h, c) ==
  /\ \A op : op \notin Loops /\ op # h.op /\ Pending(op, c) => Pending(op, c)'
  /\ \A op : op \notin Loops /\ op # h.op => ~Atop(op, c)
  /\ h.op # "edge" => \A v : [op |-> "edge", about |-> c, value |-> v] \notin Top
  /\ h.op # "report" => \A v : [op |-> "report", about |-> c, value |-> v] \notin Top

\* Whatever is not the call that runs.
LEMMA HandlerLeaves ==
  ASSUME NEW h, NEW c, Handles(h, c), NEW made, NEW below, Replaced(made, below), Left(c, below)
  PROVE  StillWaits(h, c)
<1>1. Top = {h} /\ On = {h} \cup Below /\ \A f \in Below : f \in On' \/ f.op = "signal"
  BY DEF Handles, Runs, Replaced, Left
<1>2. ASSUME NEW op, op \notin Loops, op # h.op, Pending(op, c) PROVE Pending(op, c)'
  BY <1>1, <1>2 DEF Pending, Loops
<1>3. ASSUME NEW op, op # h.op PROVE ~Atop(op, c)
  BY <1>1, <1>3 DEF Atop
<1>4. h.op # "edge" => \A v : [op |-> "edge", about |-> c, value |-> v] \notin Top
  BY <1>1
<1>5. h.op # "report" => \A v : [op |-> "report", about |-> c, value |-> v] \notin Top
  BY <1>1
<1> QED
  BY <1>2, <1>3, <1>4, <1>5 DEF StillWaits

\* Below stays as it is.
LEMMA BelowIsLeft ==
  ASSUME NEW h, Runs(h), NEW c, NEW made, Replaced(made, Below), h.op # "signal"
  PROVE  /\ Left(c, Below)
         /\ \A d \in Child : Listening(d) => Listening(d)'
         /\ Listening(c) => Listening(c)'
BY DEF Runs, Left, Listening, Replaced

\* The end of a handler that was suspended sets the phase.
LEMMA PhaseSet ==
  ASSUME IInv, NEW h, NEW c, Handles(h, c), h.op \in {"upDone", "settle", "downDone"},
         NEW k, k = [child[c] EXCEPT !.phase = Want(child[c])],
         ChildBecomes(c, k),
         Replaced(<<>>, Below)
  PROVE  IInv'
<1>0. /\ child' = [child EXCEPT ![c] = k]
      /\ UNCHANGED <<conf, hub, shown, bindings, table, refusals, told, unheard, spent>>
  BY DEF ChildBecomes
<1>1. /\ k \in ChildLink /\ child'[c] = k /\ k.phase = Want(child[c])
      /\ k.wanted = child[c].wanted /\ k.peer = child[c].peer /\ k.attached = child[c].attached
      /\ k.open = child[c].open /\ k.up = child[c].up /\ k.reported = child[c].reported
  BY <1>0 DEF Handles, ChildLink, Want
<1>2. Left(c, Below) /\ StillWaits(h, c) /\ \A d \in Child : Listening(d) => Listening(d)'
  BY BelowIsLeft, HandlerLeaves DEF Handles
<1>3. IsConnected(child[c])' = IsConnected(child[c])
  BY <1>0, <1>1 DEF IsConnected
<1>4. ChildOK(c)'
  <2>1. Applied(c)' /\ AttachedAsWanted(c)'
    BY <1>0, <1>1, <1>2 DEF Handles, ChildOK, Applied, AttachedAsWanted, StillWaits, Loops
  <2>2. OpenFollows(c)'
    BY <1>0, <1>1, <1>2, <1>3 DEF Handles, ChildOK, OpenFollows
  <2>3. UpFollows(c)' /\ ShownFollows(c)'
    BY <1>0, <1>1, <1>2 DEF Handles, ChildOK, UpFollows, ShownFollows, StillWaits
  <2>4. ReportedFollows(c)'
    BY <1>0, <1>1, <1>2, <1>3 DEF Handles, ChildOK, ReportedFollows, StillWaits, Loops
  <2>5. PhaseFollows(c)'
    BY <1>0, <1>1 DEF PhaseFollows, Want
  <2>6. BoundAsPicked(c)'
    BY <1>0, <1>1, <1>2 DEF Handles, ChildOK, BoundAsPicked, StillWaits, Loops
  <2>7. RoutedAsBound(c)'
    <3>1. Resending(c) => Resending(c)'
      BY DEF Resending, Handles, Runs, Replaced
    <3> QED
      BY <1>0, <3>1 DEF Handles, ChildOK, RoutedAsBound, Routed
  <2> QED
    BY <2>1, <2>2, <2>3, <2>4, <2>5, <2>6, <2>7 DEF ChildOK
<1>5. /\ \A f \in Range(<<>>) : ForChild(f) /\ ChildCallOK(f)'
      /\ h.op \in Loops \/ h.about = c
      /\ h.op # "resendAll" /\ Runs(h) /\ c \in Child
  BY MadeOne DEF Handles
<1> QED
  BY <1>1, <1>2, <1>4, <1>5, ChildActs

\* A handler that leaves the transport and the binder alone keeps what is about
\* them.
LEMMA TransportUnmoved ==
  ASSUME NEW h, NEW c, Handles(h, c),
         h.op \in {"edge", "sync", "upDone", "settle", "reportDown", "downDone"},
         NEW made, Replaced(made, Below),
         child'[c].wanted = child[c].wanted, child'[c].peer = child[c].peer,
         child'[c].attached = child[c].attached, child'[c].open = child[c].open,
         UNCHANGED <<conf, hub, bindings, table, refusals, told, unheard>>
  PROVE  /\ Left(c, Below) /\ StillWaits(h, c)
         /\ \A d \in Child : Listening(d) => Listening(d)'
         /\ IsConnected(child[c])' = IsConnected(child[c])
         /\ Applied(c)' /\ AttachedAsWanted(c)' /\ OpenFollows(c)'
         /\ BoundAsPicked(c)' /\ RoutedAsBound(c)'
         /\ Applied(c) /\ ~Atop("updated", c) /\ ~Atop("connectVia", c) /\ ~Atop("attach", c)
<1>1. Left(c, Below) /\ StillWaits(h, c) /\ \A d \in Child : Listening(d) => Listening(d)'
  BY BelowIsLeft, HandlerLeaves DEF Handles
<1>2. IsConnected(child[c])' = IsConnected(child[c])
  BY DEF IsConnected
<1>3. Applied(c)' /\ AttachedAsWanted(c)'
  BY <1>1 DEF Handles, ChildOK, Applied, AttachedAsWanted, StillWaits, Loops
<1>4. OpenFollows(c)'
  BY <1>1, <1>2 DEF Handles, ChildOK, OpenFollows
<1>5. BoundAsPicked(c)'
  BY <1>1 DEF Handles, ChildOK, BoundAsPicked, StillWaits, Loops
<1>6. RoutedAsBound(c)'
  <2>1. Resending(c) => Resending(c)'
    BY DEF Resending, Handles, Runs, Replaced
  <2> QED
    BY <2>1 DEF Handles, ChildOK, RoutedAsBound, Routed
<1>7. Applied(c) /\ ~Atop("updated", c) /\ ~Atop("connectVia", c) /\ ~Atop("attach", c)
  BY <1>1 DEF Handles, ChildOK, StillWaits, Loops
<1> QED
  BY <1>1, <1>2, <1>3, <1>4, <1>5, <1>6, <1>7

\* What a child that is configured, and so attached, can be told: what its hub
\* offers.
LEMMA ConnectedIsCarried ==
  ASSUME NEW c \in Child, child[c] \in ChildLink, hub \in HubConnection, conf[c] \in Peer,
         Applied(c), AttachedAsWanted(c),
         ~Atop("updated", c), ~Atop("connectVia", c), ~Atop("attach", c)
  PROVE  /\ child[c].wanted = (conf[c] # NoPeer) /\ child[c].peer = conf[c]
         /\ (child[c].wanted /\ IsConnected(child[c])) = Carried(c)
BY DEF ChildLink, HubConnection, Applied, AttachedAsWanted, IsConnected, Carried

\* A handler that was suspended goes on.
LEMMA PhaseActs ==
  ASSUME IInv, UpDone \/ Settle \/ DownDone
  PROVE  IInv'
<1> DEFINE h == Head(calls)
           c == h.about
           k == child[c]
<1>1. Handles(h, c) /\ h.op \in {"upDone", "settle", "downDone"}
  BY HandlerRuns DEF UpDone, Settle, DownDone, Running, ChildOps
<1>2. Stacked(calls) /\ calls # <<>> /\ Return(<<>>)
  BY DEF IInv, UpDone, Settle, DownDone, Running
<1>3. Replaced(<<>>, Below)
  BY <1>2, Returned, MadeOne
<1>4. UNCHANGED <<conf, hub, shown, bindings, table, refusals, told, unheard, spent>>
  BY DEF UpDone, Settle, DownDone
<1>5. child' = [child EXCEPT ![c] = [k EXCEPT !.phase = Want(k)]]
  <2>1. CASE UpDone
    <3>1. k.reported /\ k \in ChildLink /\ c \in Child /\ child \in [Child -> ChildLink]
      BY <1>1, <2>1 DEF Handles, ChildCallOK, UpDone, Running
    <3>2. child' = [child EXCEPT ![c] = [k EXCEPT !.phase = "Ready"]]
      BY <2>1, <3>1 DEF UpDone
    <3> QED
      BY <3>1, <3>2 DEF Want
  <2>2. CASE Settle
    <3>1. ~k.reported /\ k \in ChildLink /\ c \in Child /\ child \in [Child -> ChildLink]
      BY <1>1, <2>2 DEF Handles, ChildCallOK, Settle, Running
    <3>2. child' = [child EXCEPT ![c] = [k EXCEPT !.phase =
                      IF k.wanted THEN "Connecting" ELSE "Disconnected"]]
      BY <2>2, <3>1 DEF Settle
    <3> QED
      BY <3>1, <3>2 DEF Want
  <2>3. CASE DownDone
    <3>1. /\ ~k.reported /\ conf[c] = NoPeer /\ k \in ChildLink /\ c \in Child
          /\ child \in [Child -> ChildLink]
      BY <1>1, <2>3 DEF Handles, ChildCallOK, DownDone, Running
    <3>2. ~k.wanted
      <4>1. Top = {h} /\ h.op = "downDone"
        BY <1>1, <2>3 DEF Handles, Runs, DownDone, Running
      <4>2. ~Atop("updated", c) /\ ~Atop("connectVia", c)
        BY <4>1 DEF Atop
      <4> QED
        BY <1>1, <3>1, <4>2 DEF Handles, ChildOK, Applied
    <3>3. child' = [child EXCEPT ![c] = [k EXCEPT !.phase = "Disconnected"]]
      BY <2>3, <3>1 DEF DownDone
    <3> QED
      BY <3>1, <3>2, <3>3 DEF Want
  <2> QED
    BY <2>1, <2>2, <2>3
<1>6. ChildBecomes(c, [k EXCEPT !.phase = Want(k)])
  BY <1>4, <1>5 DEF ChildBecomes
<1> HIDE DEF h
<1> QED
  BY <1>1, <1>3, <1>6, PhaseSet

\* syncHubState() tells what the hub offers.
LEMMA SyncActs ==
  ASSUME IInv, Sync
  PROVE  IInv'
<1> SUFFICES ASSUME NEW h, h = Head(calls), NEW c, c = h.about PROVE IInv'
  OBVIOUS
<1> DEFINE k == child[c]
           should == k.wanted /\ IsConnected(k)
           report == IF k.reported = should THEN <<>> ELSE CallWith("report", c, should)
           last == [op |-> IF should THEN "upDone" ELSE "settle", about |-> c]
           made == report \o <<last>>
           q == [k EXCEPT !.reported = should]
<1>1. Handles(h, c) /\ h.op = "sync" /\ c \in Child /\ k \in ChildLink /\ hub \in HubConnection
  BY HandlerRuns DEF Sync, Running, ChildOps, Handles
<1>2. Stacked(calls) /\ calls # <<>> /\ Return(made) /\ child' = [child EXCEPT ![c] = q]
  BY DEF IInv, Sync, Running, Call
<1>3. UNCHANGED <<conf, hub, shown, bindings, table, refusals, told, unheard, spent>>
  BY DEF Sync
<1>4. should = Carried(c) /\ should \in BOOLEAN
  <2>1. Top = {h} /\ h.op = "sync"
    BY <1>1 DEF Handles, Runs
  <2>2. ~Atop("updated", c) /\ ~Atop("connectVia", c) /\ ~Atop("attach", c)
    BY <2>1 DEF Atop
  <2>3. should = Carried(c)
    BY <1>1, <2>2, ConnectedIsCarried DEF Handles, ChildOK
  <2> QED
    BY <2>3 DEF Carried
<1>5. /\ q \in ChildLink /\ q.reported = should
      /\ q.wanted = k.wanted /\ q.peer = k.peer /\ q.attached = k.attached
      /\ q.open = k.open /\ q.up = k.up /\ q.phase = k.phase
  <2>1. k \in ChildLink /\ should \in BOOLEAN
    BY <1>1, <1>4
  <2> HIDE DEF should, k
  <2> QED
    BY <2>1 DEF ChildLink
<1>6. child'[c] = q
  BY <1>1, <1>2 DEF Handles
<1>7. /\ Made(report) /\ Plain(last)
      /\ \/ report = <<>>
         \/ report # <<>> /\ Head(report) = [op |-> "report", about |-> c, value |-> should]
      /\ Range(report) \subseteq {[op |-> "report", about |-> c, value |-> should]}
      /\ k.reported # should => report # <<>>
  <2>1. /\ [op |-> "report", about |-> c, value |-> should] \in Frame
        /\ [op |-> "upDone", about |-> c] \in Frame /\ [op |-> "settle", about |-> c] \in Frame
    BY <1>1, <1>4, CallsAreFrames DEF ChildOps
  <2>2. Plain(last)
    BY <2>1 DEF Plain, News
  <2> HIDE DEF should, k, last
  <2> QED
    BY <2>1, <2>2, MadeOne DEF CallWith
<1> HIDE DEF report, last
<1>8. /\ Made(made) /\ made # <<>> /\ Range(made) = Range(report) \cup {last}
      /\ report # <<>> => Head(made) = Head(report)
  BY <1>7, MadeMore
<1> HIDE DEF made
<1>9. Replaced(made, Below)
  BY <1>2, <1>8, Returned
<1> HIDE DEF k, should, q
<1>10. /\ Left(c, Below) /\ StillWaits(h, c) /\ \A d \in Child : Listening(d) => Listening(d)'
       /\ IsConnected(child[c])' = IsConnected(child[c])
       /\ Applied(c)' /\ AttachedAsWanted(c)' /\ OpenFollows(c)'
       /\ BoundAsPicked(c)' /\ RoutedAsBound(c)'
  BY <1>1, <1>3, <1>5, <1>6, <1>9, TransportUnmoved DEF k
<1>11. ReportedFollows(c)'
  BY <1>5, <1>6, <1>10 DEF ReportedFollows, should, k
<1>12. UpFollows(c)'
  BY <1>1, <1>5, <1>6, <1>10 DEF UpFollows, Handles, ChildOK, StillWaits, k
<1>13. ShownFollows(c)'
  <2>1. CASE k.reported = should
    BY <1>1, <1>3, <1>5, <1>6, <1>10, <2>1 DEF ShownFollows, Handles, ChildOK, StillWaits, k
  <2>2. CASE k.reported # should
    <3>1. Top' = {[op |-> "report", about |-> c, value |-> should]}
      BY <1>7, <1>8, <1>9, <2>2 DEF Replaced
    <3> QED
      BY <1>5, <1>6, <3>1 DEF ShownFollows
  <2> QED
    BY <2>1, <2>2
<1>14. PhaseFollows(c)'
  <2>1. Pending("upDone", c)' \/ Pending("settle", c)'
    <3>1. last \in On'
      BY <1>8, <1>9 DEF Replaced
    <3> QED
      BY <3>1 DEF last, Pending
  <2> QED
    BY <2>1 DEF PhaseFollows
<1>15. ASSUME NEW f \in Range(made) PROVE ForChild(f) /\ ChildCallOK(f)'
  <2>1. CASE f = last
    <3>1. Carried(c)' = should /\ child'[c].reported = should
      BY <1>3, <1>4, <1>5, <1>6 DEF Carried
    <3> QED
      BY <1>1, <1>4, <2>1, <3>1 DEF last, ForChild, ChildCallOK, ChildOps
  <2>2. CASE f \in Range(report)
    <3>1. f = [op |-> "report", about |-> c, value |-> should]
      BY <1>7, <2>2
    <3> QED
      BY <1>1, <1>5, <1>6, <3>1 DEF ForChild, ChildCallOK, News
  <2> QED
    BY <1>8, <2>1, <2>2
<1>16. ASSUME NEW f \in Below, f.op \in {"upDone", "settle", "downDone"}, f.about = c
       PROVE  q.reported = child[c].reported
  <2>1. ChildCallOK(f)
    BY <1>1, <1>16 DEF Handles, Runs, IInv, CallsOK
  <2> QED
    BY <1>1, <1>4, <1>5, <1>16, <2>1 DEF ChildCallOK, Carried, ChildLink, k
<1>17. ChildOK(c)'
  BY <1>10, <1>11, <1>12, <1>13, <1>14 DEF ChildOK
<1>18. /\ Runs(h) /\ (h.op \in Loops \/ h.about = c) /\ h.op # "resendAll"
       /\ \A d \in Child \ {c} : Listening(d) => Listening(d)'
       /\ \A f \in Range(made) : ForChild(f) /\ ChildCallOK(f)'
       /\ \A f \in Below : f.op \in {"upDone", "settle", "downDone"} /\ f.about = c =>
                            q.reported = child[c].reported
  BY <1>1, <1>10, <1>15, <1>16 DEF Handles
<1>19. /\ c \in Child /\ q \in ChildLink /\ ChildBecomes(c, q)
       /\ Replaced(made, Below) /\ Left(c, Below) /\ ChildOK(c)'
  BY <1>1, <1>2, <1>3, <1>5, <1>9, <1>10, <1>17 DEF ChildBecomes
<1> QED
  BY <1>18, <1>19, ChildActs

\* The backend hears that its link changed, and the connection is next.
LEMMA EdgeActs ==
  ASSUME IInv, Edge
  PROVE  IInv'
<1> SUFFICES ASSUME NEW h, h = Head(calls), NEW c, c = h.about PROVE IInv'
  OBVIOUS
<1> DEFINE k == child[c]
           v == h.value
           next == [op |-> "sync", about |-> c]
           q == [k EXCEPT !.up = v]
<1>1. Handles(h, c) /\ h.op = "edge" /\ c \in Child /\ k \in ChildLink /\ v \in BOOLEAN
  BY HandlerRuns DEF Edge, Running, ChildOps, Handles, News
<1>2. Stacked(calls) /\ calls # <<>> /\ Return(<<next>>) /\ ChildBecomes(c, q)
  BY DEF IInv, Edge, Running, Call, ChildBecomes
<1>3. /\ q \in ChildLink /\ q.reported = k.reported
      /\ q.wanted = k.wanted /\ q.peer = k.peer /\ q.attached = k.attached
      /\ q.open = k.open /\ q.up = v /\ q.phase = k.phase /\ v = k.open
  BY <1>1 DEF ChildLink, Handles, ChildCallOK
<1>4. child'[c] = q
  BY <1>1, <1>2 DEF Handles, ChildBecomes
<1>5. Made(<<next>>) /\ Range(<<next>>) = {next}
  BY <1>1, CallsAreFrames, MadeOne DEF ChildOps
<1> HIDE DEF next
<1>6. Replaced(<<next>>, Below)
  BY <1>2, <1>5, Returned
<1>7. next \in On'
  BY <1>5, <1>6 DEF Replaced
<1> HIDE DEF k, q, v
<1>8. UNCHANGED <<conf, hub, shown, bindings, table, refusals, told, unheard, spent>>
  BY <1>2 DEF ChildBecomes
<1>9. /\ Left(c, Below) /\ StillWaits(h, c) /\ \A d \in Child : Listening(d) => Listening(d)'
      /\ IsConnected(child[c])' = IsConnected(child[c])
      /\ Applied(c)' /\ AttachedAsWanted(c)' /\ OpenFollows(c)'
      /\ BoundAsPicked(c)' /\ RoutedAsBound(c)'
  BY <1>1, <1>3, <1>4, <1>6, <1>8, TransportUnmoved DEF k
<1>10. ReportedFollows(c)' /\ UpFollows(c)'
  BY <1>3, <1>4, <1>7 DEF ReportedFollows, UpFollows, Pending, next
<1>11. ShownFollows(c)'
  BY <1>1, <1>3, <1>4, <1>8, <1>9 DEF ShownFollows, Handles, ChildOK, StillWaits, k
<1>12. PhaseFollows(c)'
  <2>1. \A op \in {"sync", "upDone", "settle", "reportDown", "downDone"} :
          Pending(op, c) => Pending(op, c)'
    BY <1>1, <1>9 DEF StillWaits, Loops
  <2> QED
    BY <1>1, <1>3, <1>4, <2>1 DEF PhaseFollows, Handles, ChildOK, k
<1>13. ChildOK(c)'
  BY <1>9, <1>10, <1>11, <1>12 DEF ChildOK
<1>14. /\ Runs(h) /\ (h.op \in Loops \/ h.about = c) /\ h.op # "resendAll"
       /\ \A d \in Child \ {c} : Listening(d) => Listening(d)'
       /\ \A f \in Range(<<next>>) : ForChild(f) /\ ChildCallOK(f)'
       /\ \A f \in Below : f.op \in {"upDone", "settle", "downDone"} /\ f.about = c =>
                            q.reported = child[c].reported
  <2>1. \A f \in Range(<<next>>) : ForChild(f) /\ ChildCallOK(f)'
    BY <1>1, <1>5 DEF ForChild, ChildCallOK, ChildOps, next
  <2>2. Runs(h) /\ h.about = c /\ h.op # "resendAll"
    BY <1>1 DEF Handles
  <2> QED
    BY <1>3, <1>9, <2>1, <2>2 DEF k
<1> QED
  BY <1>1, <1>2, <1>3, <1>6, <1>9, <1>13, <1>14, ChildActs

\* A child whose robot was taken away is reported as down.
LEMMA ReportDownActs ==
  ASSUME IInv, ReportDown
  PROVE  IInv'
<1> SUFFICES ASSUME NEW h, h = Head(calls), NEW c, c = h.about PROVE IInv'
  OBVIOUS
<1> DEFINE k == child[c]
           report == IF k.reported THEN CallWith("report", c, FALSE) ELSE <<>>
           last == [op |-> "downDone", about |-> c]
           made == report \o <<last>>
           q == [k EXCEPT !.reported = FALSE]
<1>1. Handles(h, c) /\ h.op = "reportDown" /\ c \in Child /\ k \in ChildLink
  BY HandlerRuns DEF ReportDown, Running, ChildOps, Handles
<1>2. Stacked(calls) /\ calls # <<>> /\ Return(made) /\ ChildBecomes(c, q)
  BY DEF IInv, ReportDown, Running, Call, ChildBecomes
<1>3. /\ q \in ChildLink /\ q.reported = FALSE
      /\ q.wanted = k.wanted /\ q.peer = k.peer /\ q.attached = k.attached
      /\ q.open = k.open /\ q.up = k.up /\ q.phase = k.phase
  BY <1>1 DEF ChildLink
<1>4. child'[c] = q
  BY <1>1, <1>2 DEF Handles, ChildBecomes
<1>5. conf[c] = NoPeer /\ ~k.wanted
  <2>1. ~Atop("updated", c) /\ ~Atop("connectVia", c)
    BY <1>1 DEF Handles, Runs, Atop
  <2> QED
    BY <1>1, <2>1 DEF Handles, ChildCallOK, ChildOK, Applied
<1>6. /\ Made(report) /\ Plain(last)
      /\ \/ report = <<>>
         \/ report # <<>> /\ Head(report) = [op |-> "report", about |-> c, value |-> FALSE]
      /\ Range(report) \subseteq {[op |-> "report", about |-> c, value |-> FALSE]}
      /\ k.reported => report # <<>>
  <2>1. /\ [op |-> "report", about |-> c, value |-> FALSE] \in Frame
        /\ [op |-> "downDone", about |-> c] \in Frame
    BY <1>1, CallsAreFrames
  <2>2. Plain(last)
    BY <2>1 DEF Plain, News
  <2> HIDE DEF k, last
  <2> QED
    BY <2>1, <2>2, MadeOne DEF CallWith
<1> HIDE DEF report, last
<1>7. /\ Made(made) /\ made # <<>> /\ Range(made) = Range(report) \cup {last}
      /\ report # <<>> => Head(made) = Head(report)
  BY <1>6, MadeMore
<1> HIDE DEF made
<1>8. Replaced(made, Below)
  BY <1>2, <1>7, Returned
<1> HIDE DEF k, q
<1>9. UNCHANGED <<conf, hub, shown, bindings, table, refusals, told, unheard, spent>>
  BY <1>2 DEF ChildBecomes
<1>10. /\ Left(c, Below) /\ StillWaits(h, c) /\ \A d \in Child : Listening(d) => Listening(d)'
       /\ IsConnected(child[c])' = IsConnected(child[c])
       /\ Applied(c)' /\ AttachedAsWanted(c)' /\ OpenFollows(c)'
       /\ BoundAsPicked(c)' /\ RoutedAsBound(c)'
  BY <1>1, <1>3, <1>4, <1>8, <1>9, TransportUnmoved DEF k
<1>11. ReportedFollows(c)'
  BY <1>1, <1>3, <1>4, <1>5 DEF ReportedFollows, ChildLink, k
<1>12. UpFollows(c)'
  BY <1>1, <1>3, <1>4, <1>10 DEF UpFollows, Handles, ChildOK, StillWaits, k
<1>13. ShownFollows(c)'
  <2>1. CASE k.reported = FALSE
    BY <1>1, <1>3, <1>4, <1>9, <1>10, <2>1 DEF ShownFollows, Handles, ChildOK, StillWaits, k
  <2>2. CASE k.reported = TRUE
    <3>1. Top' = {[op |-> "report", about |-> c, value |-> FALSE]}
      BY <1>6, <1>7, <1>8, <2>2 DEF Replaced
    <3> QED
      BY <1>3, <1>4, <3>1 DEF ShownFollows
  <2> QED
    BY <1>1, <2>1, <2>2 DEF ChildLink
<1>14. PhaseFollows(c)'
  <2>1. last \in On'
    BY <1>7, <1>8 DEF Replaced
  <2>2. Pending("downDone", c)'
    BY <2>1 DEF last, Pending
  <2> QED
    BY <2>2 DEF PhaseFollows
<1>15. ASSUME NEW f \in Range(made) PROVE ForChild(f) /\ ChildCallOK(f)'
  <2>1. CASE f = last
    BY <1>1, <1>3, <1>4, <1>5, <1>9, <2>1 DEF last, ForChild, ChildCallOK, ChildOps
  <2>2. CASE f \in Range(report)
    <3>1. f = [op |-> "report", about |-> c, value |-> FALSE]
      BY <1>6, <2>2
    <3> QED
      BY <1>1, <1>3, <1>4, <3>1 DEF ForChild, ChildCallOK, News
  <2> QED
    BY <1>7, <2>1, <2>2
<1>16. ASSUME NEW f \in Below, f.op \in {"upDone", "settle", "downDone"}, f.about = c
       PROVE  q.reported = child[c].reported
  <2>1. ChildCallOK(f)
    BY <1>1, <1>16 DEF Handles, Runs, IInv, CallsOK
  <2> QED
    BY <1>1, <1>3, <1>5, <1>16, <2>1 DEF ChildCallOK, Carried, ChildLink, k
<1>17. ChildOK(c)'
  BY <1>10, <1>11, <1>12, <1>13, <1>14 DEF ChildOK
<1>18. /\ Runs(h) /\ (h.op \in Loops \/ h.about = c) /\ h.op # "resendAll"
       /\ \A d \in Child \ {c} : Listening(d) => Listening(d)'
       /\ \A f \in Range(made) : ForChild(f) /\ ChildCallOK(f)'
       /\ \A f \in Below : f.op \in {"upDone", "settle", "downDone"} /\ f.about = c =>
                            q.reported = child[c].reported
  BY <1>1, <1>10, <1>15, <1>16 DEF Handles
<1> QED
  BY <1>1, <1>2, <1>3, <1>8, <1>10, <1>17, <1>18, ChildActs

-----------------------------------------------------------------------------
(* HubTransport. *)

EdgeOf(c, v) == [op |-> "edge", about |-> c, value |-> v]

\* A change of m_open is signalled before anything else happens.
LEMMA EdgeCall ==
  ASSUME NEW c \in Child, NEW k \in ChildLink, NEW v \in BOOLEAN
  PROVE  /\ Made(EdgeIfChanged(c, k, v))
         /\ Range(EdgeIfChanged(c, k, v)) \subseteq {EdgeOf(c, v)}
         /\ v # k.open => /\ EdgeIfChanged(c, k, v) # <<>>
                          /\ Head(EdgeIfChanged(c, k, v)) = EdgeOf(c, v)
         /\ v = k.open => EdgeIfChanged(c, k, v) = <<>>
<1>1. EdgeOf(c, v) \in Frame /\ EdgeOf(c, v).op = "edge"
  BY CallsAreFrames DEF EdgeOf
<1>2. EdgeIfChanged(c, k, v) = IF v # k.open THEN <<EdgeOf(c, v)>> ELSE <<>>
  BY DEF EdgeIfChanged, CallWith, EdgeOf
<1> HIDE DEF EdgeOf
<1> QED
  BY <1>1, <1>2, MadeOne

\* A handler sets m_open of child c, and signals the change.
LEMMA LinkSet ==
  ASSUME IInv, NEW h, Runs(h), NEW c \in Child,
         h.op \in {"connectVia", "attach", "close", "signal"}, h.op = "signal" \/ h.about = c,
         NEW q \in ChildLink, ChildBecomes(c, q),
         q.up = child[c].up, q.reported = child[c].reported,
         NEW made, NEW below, Replaced(made, below), Left(c, below),
         \A d \in Child \ {c} : Listening(d) => Listening(d)',
         \A f \in Range(made) : ForChild(f) /\ ChildCallOK(f)',
         q.open # child[c].open => Top' = {EdgeOf(c, q.open)},
         Applied(c)', AttachedAsWanted(c)', OpenFollows(c)', ReportedFollows(c)', PhaseFollows(c)'
  PROVE  IInv'
<1>1. /\ child' = [child EXCEPT ![c] = q] /\ child'[c] = q /\ child[c] \in ChildLink
      /\ UNCHANGED <<conf, hub, shown, bindings, table, refusals, told, unheard, spent>>
  BY DEF ChildBecomes, IInv, Typed
<1>2. ChildOK(c) /\ Top = {h} /\ On = {h} \cup Below
  BY DEF IInv, Runs
<1>3. /\ ~Atop("updated", c)
      /\ \A v : [op |-> "edge", about |-> c, value |-> v] \notin Top
      /\ \A v : [op |-> "report", about |-> c, value |-> v] \notin Top
  BY <1>2 DEF Atop
<1>4. UpFollows(c)'
  <2>1. child[c].up = child[c].open
    BY <1>2, <1>3 DEF ChildOK, UpFollows
  <2>2. CASE q.open = child[c].open
    BY <1>1, <2>1, <2>2 DEF UpFollows
  <2>3. CASE q.open # child[c].open
    BY <1>1, <2>3 DEF UpFollows, EdgeOf
  <2> QED
    BY <2>2, <2>3
<1>5. ShownFollows(c)'
  BY <1>1, <1>2, <1>3 DEF ChildOK, ShownFollows
<1>6. BoundAsPicked(c)'
  <2>1. Pending("bind", c) => Pending("bind", c)'
    BY <1>2 DEF Pending, Left, Replaced
  <2> QED
    BY <1>1, <1>2, <1>3, <2>1 DEF ChildOK, BoundAsPicked
<1>7. RoutedAsBound(c)'
  <2>1. Resending(c) => Resending(c)'
    BY <1>2 DEF Resending, Left, Replaced
  <2> QED
    BY <1>1, <1>2, <2>1 DEF ChildOK, RoutedAsBound, Routed
<1>8. ChildOK(c)'
  BY <1>4, <1>5, <1>6, <1>7 DEF ChildOK
<1>9. (h.op \in Loops \/ h.about = c) /\ h.op # "resendAll"
  BY DEF Loops
<1> QED
  BY <1>8, <1>9, ChildActs

\* What waited for child c still does, when its emissions are cut.
LEMMA CutIsLeft ==
  ASSUME NEW h, Runs(h), h.op # "signal", NEW c \in Child,
         NEW made, Replaced(made, {Deaf(c, f) : f \in Below})
  PROVE  /\ Left(c, {Deaf(c, f) : f \in Below})
         /\ \A d \in Child \ {c} : Listening(d) => Listening(d)'
         /\ \A f \in Below : f.op # "signal" => f \in On'
<1>1. \A f \in Below : f.op # "signal" => Deaf(c, f) = f
  BY DEF Deaf
<1>2. ASSUME NEW f \in Below, f.op = "signal"
      PROVE  /\ Deaf(c, f) \in Frame /\ Deaf(c, f).op = "signal"
             /\ Deaf(c, f).rest = f.rest \ {c}
  <2>1. f.rest \subseteq Child /\ f = [op |-> "signal", rest |-> f.rest]
    BY <1>2, FrameKinds DEF Runs
  <2>2. Deaf(c, f) = [op |-> "signal", rest |-> f.rest \ {c}]
    BY <1>2, <2>1 DEF Deaf
  <2>3. f.rest \ {c} \in SUBSET Child
    BY <2>1
  <2> QED
    BY <2>2, <2>3, CallsAreFrames
<1>3. Left(c, {Deaf(c, f) : f \in Below})
  BY <1>1, <1>2 DEF Left
<1>4. ASSUME NEW d \in Child \ {c}, Listening(d) PROVE Listening(d)'
  <2>1. PICK f \in On : f.op = "signal" /\ d \in f.rest
    BY <1>4 DEF Listening
  <2>2. f \in Below
    BY <2>1 DEF Runs
  <2>3. Deaf(c, f) \in On' /\ Deaf(c, f).op = "signal" /\ d \in Deaf(c, f).rest
    BY <1>2, <2>1, <2>2 DEF Replaced
  <2> QED
    BY <2>3 DEF Listening
<1>5. \A f \in Below : f.op # "signal" => f \in On'
  BY <1>1 DEF Replaced
<1> QED
  BY <1>3, <1>4, <1>5

\* A child attaches to its hub.
LEMMA AttachActs ==
  ASSUME IInv, Attach
  PROVE  IInv'
<1> SUFFICES ASSUME NEW h, h = Head(calls), NEW c, c = h.about PROVE IInv'
  OBVIOUS
<1> DEFINE k == [child[c] EXCEPT !.attached = TRUE]
           now == IsConnected(k)
           q == [k EXCEPT !.open = now]
           made == EdgeIfChanged(c, k, now)
           below == {Deaf(c, f) : f \in Below}
<1>1. /\ Handles(h, c) /\ h.op = "attach" /\ c \in Child /\ child[c] \in ChildLink /\ Runs(h)
      /\ hub \in HubConnection
  BY HandlerRuns DEF Attach, Running, ChildOps, Handles
<1>2. /\ Stacked(calls) /\ calls # <<>> /\ ChildBecomes(c, q)
      /\ calls' = made \o Unlisten(c, Tail(calls))
  BY DEF IInv, Attach, Running, SetOpen, ChildBecomes
<1>3. now \in BOOLEAN
  BY <1>1 DEF IsConnected, HubConnection
<1>4. /\ k \in ChildLink /\ q \in ChildLink /\ q.open = now /\ q.attached = TRUE
      /\ k.open = child[c].open /\ IsConnected(q) = now
      /\ q.wanted = child[c].wanted /\ q.peer = child[c].peer
      /\ q.up = child[c].up /\ q.reported = child[c].reported /\ q.phase = child[c].phase
  <2>1. /\ k \in ChildLink /\ k.attached = TRUE
        /\ k.open = child[c].open /\ k.wanted = child[c].wanted /\ k.peer = child[c].peer
        /\ k.up = child[c].up /\ k.reported = child[c].reported /\ k.phase = child[c].phase
    BY <1>1 DEF ChildLink
  <2> DEFINE v == now
  <2>2. v \in BOOLEAN /\ q = [k EXCEPT !.open = v]
    BY <1>3
  <2> HIDE DEF v, k
  <2>3. /\ q \in ChildLink /\ q.open = v /\ q.attached = k.attached /\ q.wanted = k.wanted
        /\ q.peer = k.peer /\ q.up = k.up /\ q.reported = k.reported /\ q.phase = k.phase
    BY <2>1, <2>2 DEF ChildLink
  <2>4. IsConnected(q) = IsConnected(k)
    BY <2>3 DEF IsConnected
  <2> QED
    BY <2>1, <2>3, <2>4 DEF v
<1>5. child'[c] = q
  BY <1>1, <1>2 DEF Handles, ChildBecomes
<1> HIDE DEF k, now, q
<1>6. /\ Made(made) /\ Range(made) \subseteq {EdgeOf(c, now)}
      /\ now # child[c].open => made # <<>> /\ Head(made) = EdgeOf(c, now)
  BY <1>1, <1>3, <1>4, EdgeCall
<1> HIDE DEF made, below
<1>7. Replaced(made, below)
  BY <1>1, <1>2, <1>6, ReturnedDeaf DEF below
<1>8. /\ Left(c, below) /\ \A d \in Child \ {c} : Listening(d) => Listening(d)'
      /\ StillWaits(h, c)
  BY <1>1, <1>7, CutIsLeft, HandlerLeaves DEF below
<1>9. now # child[c].open => Top' = {EdgeOf(c, now)}
  BY <1>6, <1>7 DEF Replaced
<1>10. UNCHANGED <<conf, hub, shown, bindings, table, refusals, told, unheard, spent>>
  BY <1>2 DEF ChildBecomes
<1>11. IsConnected(child[c])' = now
  BY <1>4, <1>5, <1>10 DEF IsConnected
<1>12. Applied(c) /\ conf[c] # NoPeer /\ ~Atop("updated", c) /\ ~Atop("connectVia", c)
  BY <1>1, <1>8 DEF Handles, ChildOK, ChildCallOK, StillWaits, Loops
<1>13. Applied(c)' /\ AttachedAsWanted(c)'
  BY <1>4, <1>5, <1>10, <1>12 DEF Applied, AttachedAsWanted
<1>14. OpenFollows(c)'
  BY <1>4, <1>5, <1>11 DEF OpenFollows
<1>15. ReportedFollows(c)'
  <2>1. CASE now # child[c].open
    BY <1>4, <1>5, <1>9, <2>1 DEF ReportedFollows, EdgeOf
  <2>2. CASE now = child[c].open
    <3>1. IsConnected(child[c]) = now \/ IsConnected(child[c]) # child[c].open
      BY <2>2
    <3>2. IsConnected(child[c]) = now
      <4>1. CASE child[c].attached
        BY <1>1, <1>4, <4>1 DEF k, now, IsConnected, ChildLink
      <4>2. CASE ~child[c].attached
        <5>1. ~child[c].open /\ ~IsConnected(child[c])
          BY <1>1, <4>2 DEF Handles, ChildOK, AttachedAsWanted, IsConnected
        <5> QED
          BY <1>1, <1>3, <2>2, <5>1 DEF ChildLink, IsConnected, HubConnection
      <4> QED
        BY <4>1, <4>2
    <3>3. Pending("sync", c) => Pending("sync", c)'
      BY <1>1, <1>8 DEF StillWaits, Loops
    <3>4. Pending("reportDown", c) => Pending("reportDown", c)'
      BY <1>1, <1>8 DEF StillWaits, Loops
    <3>5. EdgeOf(c, child[c].open) \notin Top
      BY <1>1, <1>8 DEF StillWaits, EdgeOf
    <3> QED
      BY <1>1, <1>4, <1>5, <1>11, <2>2, <3>2, <3>3, <3>4, <3>5
         DEF ReportedFollows, Handles, ChildOK, EdgeOf
  <2> QED
    BY <2>1, <2>2
<1>16. PhaseFollows(c)'
  <2>1. \A op \in {"sync", "upDone", "settle", "reportDown", "downDone"} :
          Pending(op, c) => Pending(op, c)'
    BY <1>1, <1>8 DEF StillWaits, Loops
  <2> QED
    BY <1>1, <1>4, <1>5, <2>1 DEF PhaseFollows, Handles, ChildOK
<1>17. ASSUME NEW f \in Range(made) PROVE ForChild(f) /\ ChildCallOK(f)'
  <2>1. f = EdgeOf(c, now)
    BY <1>6, <1>17
  <2> QED
    BY <1>1, <1>4, <1>5, <1>11, <2>1 DEF EdgeOf, ForChild, News, ChildCallOK
<1> QED
  BY <1>1, <1>2, <1>4, <1>7, <1>8, <1>9, <1>13, <1>14, <1>15, <1>16, <1>17, LinkSet

\* A child lets go of its hub.
LEMMA CloseActs ==
  ASSUME IInv, Close
  PROVE  IInv'
<1> SUFFICES ASSUME NEW h, h = Head(calls), NEW c, c = h.about PROVE IInv'
  OBVIOUS
<1> DEFINE k == [child[c] EXCEPT !.attached = FALSE]
           q == [k EXCEPT !.open = FALSE]
           made == EdgeIfChanged(c, k, FALSE)
           below == {Deaf(c, f) : f \in Below}
<1>1. /\ Handles(h, c) /\ h.op = "close" /\ c \in Child /\ child[c] \in ChildLink /\ Runs(h)
      /\ hub \in HubConnection
  BY HandlerRuns DEF Close, Running, ChildOps, Handles
<1>2. /\ Stacked(calls) /\ calls # <<>> /\ ChildBecomes(c, q)
      /\ calls' = made \o Unlisten(c, Tail(calls))
  BY DEF IInv, Close, Running, SetOpen, ChildBecomes
<1>4. /\ k \in ChildLink /\ q \in ChildLink /\ q.open = FALSE /\ q.attached = FALSE
      /\ k.open = child[c].open
      /\ q.wanted = child[c].wanted /\ q.peer = child[c].peer
      /\ q.up = child[c].up /\ q.reported = child[c].reported /\ q.phase = child[c].phase
  BY <1>1 DEF ChildLink
<1>5. child'[c] = q
  BY <1>1, <1>2 DEF Handles, ChildBecomes
<1> HIDE DEF k, q
<1>6. /\ Made(made) /\ Range(made) \subseteq {EdgeOf(c, FALSE)}
      /\ FALSE # child[c].open => made # <<>> /\ Head(made) = EdgeOf(c, FALSE)
  BY <1>1, <1>4, EdgeCall
<1> HIDE DEF made, below
<1>7. Replaced(made, below)
  BY <1>1, <1>2, <1>6, ReturnedDeaf DEF below
<1>8. /\ Left(c, below) /\ \A d \in Child \ {c} : Listening(d) => Listening(d)'
      /\ StillWaits(h, c)
  BY <1>1, <1>7, CutIsLeft, HandlerLeaves DEF below
<1>9. FALSE # child[c].open => Top' = {EdgeOf(c, FALSE)}
  BY <1>6, <1>7 DEF Replaced
<1>10. UNCHANGED <<conf, hub, shown, bindings, table, refusals, told, unheard, spent>>
  BY <1>2 DEF ChildBecomes
<1>11. IsConnected(child[c])' = FALSE
  BY <1>4, <1>5, <1>10 DEF IsConnected
<1>12. /\ Applied(c) /\ conf[c] = NoPeer /\ ~Atop("updated", c) /\ ~Atop("connectVia", c)
       /\ child[c].wanted = FALSE /\ child[c].peer = NoPeer
  BY <1>1, <1>8 DEF Handles, ChildOK, ChildCallOK, StillWaits, Loops, Applied
<1>13. Applied(c)' /\ AttachedAsWanted(c)'
  BY <1>4, <1>5, <1>10, <1>12 DEF Applied, AttachedAsWanted
<1>14. OpenFollows(c)'
  BY <1>4, <1>5, <1>11 DEF OpenFollows
<1>15. ReportedFollows(c)'
  <2>1. CASE FALSE # child[c].open
    BY <1>4, <1>5, <1>9, <2>1 DEF ReportedFollows, EdgeOf
  <2>2. CASE FALSE = child[c].open
    <3>2. IsConnected(child[c]) = FALSE
      BY <1>12 DEF IsConnected
    <3>3. Pending("sync", c) => Pending("sync", c)'
      BY <1>1, <1>8 DEF StillWaits, Loops
    <3>4. Pending("reportDown", c) => Pending("reportDown", c)'
      BY <1>1, <1>8 DEF StillWaits, Loops
    <3>5. EdgeOf(c, child[c].open) \notin Top
      BY <1>1, <1>8 DEF StillWaits, EdgeOf
    <3> QED
      BY <1>1, <1>4, <1>5, <1>11, <2>2, <3>2, <3>3, <3>4, <3>5
         DEF ReportedFollows, Handles, ChildOK, EdgeOf
  <2> QED
    BY <2>1, <2>2
<1>16. PhaseFollows(c)'
  <2>1. \A op \in {"sync", "upDone", "settle", "reportDown", "downDone"} :
          Pending(op, c) => Pending(op, c)'
    BY <1>1, <1>8 DEF StillWaits, Loops
  <2> QED
    BY <1>1, <1>4, <1>5, <2>1 DEF PhaseFollows, Handles, ChildOK
<1>17. ASSUME NEW f \in Range(made) PROVE ForChild(f) /\ ChildCallOK(f)'
  <2>1. f = EdgeOf(c, FALSE)
    BY <1>6, <1>17
  <2> QED
    BY <1>1, <1>4, <1>5, <1>11, <2>1 DEF EdgeOf, ForChild, News, ChildCallOK
<1> QED
  BY <1>1, <1>2, <1>4, <1>7, <1>8, <1>9, <1>13, <1>14, <1>15, <1>16, <1>17, LinkSet

\* One listener of the hub's signal hears it.
LEMMA SignalToOne ==
  ASSUME IInv, Running("signal"), NEW c \in Head(calls).rest,
         LET now == IsConnected(child[c])
         IN /\ SetOpen(c, child[c], now)
            /\ Return(EdgeIfChanged(c, child[c], now) \o Loop("signal", Head(calls).rest \ {c})),
         UNCHANGED <<conf, hub, shown, bindings, table, refusals, told, unheard, spent>>
  PROVE  IInv'
<1> SUFFICES ASSUME NEW h, h = Head(calls), NEW S, S = h.rest PROVE IInv'
  OBVIOUS
<1> DEFINE k == child[c]
           now == IsConnected(k)
           q == [k EXCEPT !.open = now]
           edge == EdgeIfChanged(c, k, now)
           next == [op |-> "signal", rest |-> S \ {c}]
           made == edge \o Loop("signal", S \ {c})
<1>1. Runs(h) /\ h.op = "signal" /\ S \subseteq Child /\ c \in Child /\ calls # <<>>
      /\ Stacked(calls)
  BY BelowIsPlain, FrameKinds DEF IInv, Running, Runs
<1>2. /\ k \in ChildLink /\ hub \in HubConnection /\ child \in [Child -> ChildLink]
      /\ ChildOK(c) /\ c \in S
  BY <1>1 DEF IInv, Typed
<1>3. ChildBecomes(c, q) /\ Return(made)
  BY DEF SetOpen, ChildBecomes
<1>4. now \in BOOLEAN
  BY <1>2 DEF IsConnected, HubConnection
<1>5. /\ q \in ChildLink /\ q.open = now
      /\ q.wanted = k.wanted /\ q.peer = k.peer /\ q.attached = k.attached
      /\ q.up = k.up /\ q.reported = k.reported /\ q.phase = k.phase
  <2> HIDE DEF now, k
  <2> QED
    BY <1>2, <1>4 DEF ChildLink
<1>6. child'[c] = q
  BY <1>1, <1>2, <1>3 DEF ChildBecomes
<1> HIDE DEF q
<1>7. /\ Made(edge) /\ Range(edge) \subseteq {EdgeOf(c, now)}
      /\ now # k.open => edge # <<>> /\ Head(edge) = EdgeOf(c, now)
  <2> HIDE DEF now, k
  <2> QED
    BY <1>1, <1>2, <1>4, EdgeCall
<1>8. Plain(next)
  BY <1>1, CallsAreFrames DEF Plain, News
<1> HIDE DEF edge, next, k, now
<1>9. /\ Made(made)
      /\ Range(made) = Range(edge) \cup (IF S \ {c} = {} THEN {} ELSE {next})
      /\ edge # <<>> => made # <<>> /\ Head(made) = Head(edge)
  <2>1. CASE S \ {c} = {}
    <3>1. made = edge \o <<>> /\ edge \in Seq(Frame)
      BY <1>7, <2>1 DEF Loop, Made
    <3>2. made = edge
      BY <3>1, ConcatEmptySeq
    <3> QED
      BY <1>7, <2>1, <3>2
  <2>2. CASE S \ {c} # {}
    <3>1. made = edge \o <<next>>
      BY <2>2 DEF Loop, next
    <3> HIDE DEF made
    <3> QED
      BY <1>7, <1>8, <2>2, <3>1, MadeMore
  <2> QED
    BY <2>1, <2>2
<1> HIDE DEF made
<1>10. Replaced(made, Below)
  BY <1>1, <1>3, <1>9, Returned
<1>11. UNCHANGED <<conf, hub, shown, bindings, table, refusals, told, unheard, spent>>
  OBVIOUS
<1>12. Left(c, Below) /\ Top = {h} /\ On = {h} \cup Below
  BY <1>1 DEF Left, Runs
<1>13. ASSUME NEW d \in Child \ {c}, Listening(d) PROVE Listening(d)'
  <2>1. PICK f \in On : f.op = "signal" /\ d \in f.rest
    BY <1>13 DEF Listening
  <2>2. CASE f = h
    <3>1. d \in S \ {c}
      BY <2>1, <2>2
    <3>2. next \in On' /\ next.op = "signal" /\ d \in next.rest
      BY <1>9, <1>10, <3>1 DEF Replaced, next
    <3> QED
      BY <3>2 DEF Listening
  <2>3. CASE f \in Below
    BY <1>10, <2>1, <2>3 DEF Listening, Replaced
  <2> QED
    BY <1>12, <2>2, <2>3
<1>14. ASSUME NEW op, op # "signal", Pending(op, c) PROVE Pending(op, c)'
  BY <1>1, <1>10, <1>12, <1>14 DEF Pending, Replaced
<1>15. now # k.open => Top' = {EdgeOf(c, now)}
  BY <1>7, <1>9, <1>10 DEF Replaced
<1>16. IsConnected(child[c])' = now
  BY <1>5, <1>6, <1>11 DEF IsConnected, now
<1>17. /\ \A op : op # "signal" => ~Atop(op, c)
       /\ EdgeOf(c, k.open) \notin Top
  BY <1>1, <1>12 DEF Atop, EdgeOf
<1>18. Applied(c)' /\ AttachedAsWanted(c)'
  <2>1. ~k.attached => ~now
    BY DEF now, IsConnected
  <2> QED
    BY <1>2, <1>5, <1>6, <1>11, <1>14, <1>17, <2>1 DEF ChildOK, Applied, AttachedAsWanted, k
<1>19. OpenFollows(c)'
  BY <1>5, <1>6, <1>16 DEF OpenFollows
<1>20. ReportedFollows(c)'
  <2>1. CASE now # k.open
    BY <1>5, <1>6, <1>15, <2>1 DEF ReportedFollows, EdgeOf
  <2>2. CASE now = k.open
    BY <1>2, <1>5, <1>6, <1>14, <1>16, <1>17, <2>2 DEF ReportedFollows, ChildOK, EdgeOf, now, k
  <2> QED
    BY <2>1, <2>2
<1>21. PhaseFollows(c)'
  <2>1. \A op \in {"sync", "upDone", "settle", "reportDown", "downDone"} :
          Pending(op, c) => Pending(op, c)'
    BY <1>14
  <2> QED
    BY <1>2, <1>5, <1>6, <2>1 DEF PhaseFollows, ChildOK, k
<1>22. ASSUME NEW f \in Range(made) PROVE ForChild(f) /\ ChildCallOK(f)'
  <2>1. CASE f = EdgeOf(c, now)
    BY <1>1, <1>5, <1>6, <1>16, <2>1 DEF EdgeOf, ForChild, News, ChildCallOK
  <2>2. CASE f = next
    BY <2>2 DEF next, ForChild, ChildCallOK
  <2> QED
    BY <1>7, <1>9, <1>22, <2>1, <2>2
<1>23. q.up = child[c].up /\ q.reported = child[c].reported
       /\ (q.open # child[c].open => Top' = {EdgeOf(c, q.open)})
  BY <1>5, <1>15 DEF k
<1> QED
  BY <1>1, <1>3, <1>5, <1>10, <1>12, <1>13, <1>18, <1>19, <1>20, <1>21, <1>22, <1>23, LinkSet

\* connectVia() finds nothing to change, and looks after what was reported.
LEMMA ConnectViaUnchanged ==
  ASSUME IInv, Running("connectVia"), NEW c, c = Head(calls).about,
         child[c].peer = conf[c], child[c].wanted = (conf[c] # NoPeer),
         child[c].attached = (conf[c] # NoPeer),
         Return(Call("sync", c)), UNCHANGED child,
         UNCHANGED <<conf, hub, shown, bindings, table, refusals, told, unheard, spent>>
  PROVE  IInv'
<1> SUFFICES ASSUME NEW h, h = Head(calls) PROVE IInv'
  OBVIOUS
<1> DEFINE k == child[c]
           next == [op |-> "sync", about |-> c]
<1>1. /\ Handles(h, c) /\ h.op = "connectVia" /\ c \in Child /\ k \in ChildLink /\ Runs(h)
      /\ child \in [Child -> ChildLink]
  BY HandlerRuns DEF Running, ChildOps, Handles
<1>2. Stacked(calls) /\ calls # <<>> /\ Return(<<next>>)
  BY DEF IInv, Running, Call
<1>3. ChildBecomes(c, k) /\ child'[c] = k
  BY <1>1 DEF ChildBecomes
<1>4. Made(<<next>>) /\ Range(<<next>>) = {next}
  BY <1>1, CallsAreFrames, MadeOne DEF ChildOps
<1> HIDE DEF next
<1>5. Replaced(<<next>>, Below)
  BY <1>2, <1>4, Returned
<1>6. Left(c, Below) /\ StillWaits(h, c) /\ \A d \in Child : Listening(d) => Listening(d)'
  BY <1>1, <1>5, BelowIsLeft, HandlerLeaves
<1>7. Pending("sync", c)'
  BY <1>4, <1>5 DEF Replaced, Pending, next
<1>8. Applied(c)' /\ AttachedAsWanted(c)'
  BY <1>1, <1>6 DEF Applied, AttachedAsWanted, Handles, ChildOK
<1>9. IsConnected(child[c])' = IsConnected(child[c])
  BY DEF IsConnected
<1>10. OpenFollows(c)'
  BY <1>1, <1>6, <1>9 DEF OpenFollows, Handles, ChildOK
<1>11. ReportedFollows(c)' /\ PhaseFollows(c)'
  BY <1>7 DEF ReportedFollows, PhaseFollows
<1>12. /\ \A f \in Range(<<next>>) : ForChild(f) /\ ChildCallOK(f)'
       /\ \A d \in Child \ {c} : Listening(d) => Listening(d)'
       /\ k.open = child[c].open /\ k.up = child[c].up /\ k.reported = child[c].reported
       /\ h.about = c
  BY <1>1, <1>4, <1>6 DEF next, ForChild, ChildCallOK, ChildOps, Handles
<1> QED
  BY <1>1, <1>3, <1>5, <1>6, <1>8, <1>10, <1>11, <1>12, LinkSet

\* Calls may be joined in either order.
LEMMA JoinedTwice ==
  ASSUME NEW s \in Seq(Frame), NEW t \in Seq(Frame), NEW u \in Seq(Frame)
  PROVE  s \o (t \o u) = (s \o t) \o u
BY ConcatAssociative

\* The step of connectVia() that has something to change.
ViaChanges(c) ==
  LET want == conf[c] # NoPeer
      k == [child[c] EXCEPT !.wanted = want, !.peer = conf[c]]
      now == IF conf[c] = child[c].peer THEN k.open ELSE IsConnected(k)
      rest == IF want THEN Call("attach", c) \o Call("sync", c)
              ELSE Call("close", c) \o Call("reportDown", c)
  IN SetOpen(c, k, now) /\ Return(EdgeIfChanged(c, k, now) \o rest)

\* connectVia() applies what was configured.
LEMMA ConnectViaChanged ==
  ASSUME IInv, Running("connectVia"), NEW c, c = Head(calls).about,
         ~ (/\ child[c].peer = conf[c] /\ child[c].wanted = (conf[c] # NoPeer)
            /\ child[c].attached = (conf[c] # NoPeer)),
         ViaChanges(c),
         UNCHANGED <<conf, hub, shown, bindings, table, refusals, told, unheard, spent>>
  PROVE  IInv'
<1> SUFFICES ASSUME NEW h, h = Head(calls) PROVE IInv'
  OBVIOUS
<1> DEFINE old == child[c]
           want == conf[c] # NoPeer
           k == [old EXCEPT !.wanted = want, !.peer = conf[c]]
           now == IF conf[c] = old.peer THEN k.open ELSE IsConnected(k)
           q == [k EXCEPT !.open = now]
           edge == EdgeIfChanged(c, k, now)
           first == [op |-> IF want THEN "attach" ELSE "close", about |-> c]
           second == [op |-> IF want THEN "sync" ELSE "reportDown", about |-> c]
           made == (edge \o <<first>>) \o <<second>>
<1>1. /\ Handles(h, c) /\ h.op = "connectVia" /\ c \in Child /\ old \in ChildLink /\ Runs(h)
      /\ hub \in HubConnection /\ conf[c] \in Peer
  BY HandlerRuns DEF Running, ChildOps, Handles
<1>2. want \in BOOLEAN
  OBVIOUS
<1>3. /\ k \in ChildLink /\ k.wanted = want /\ k.peer = conf[c]
      /\ k.attached = old.attached /\ k.open = old.open /\ k.up = old.up
      /\ k.reported = old.reported /\ k.phase = old.phase
  <2> HIDE DEF want, old
  <2> QED
    BY <1>1, <1>2 DEF ChildLink
<1> DEFINE v == now
<1>4. v \in BOOLEAN
  BY <1>1, <1>3 DEF IsConnected, HubConnection, ChildLink
<1>5. /\ q \in ChildLink /\ q.open = now
      /\ q.wanted = want /\ q.peer = conf[c] /\ q.attached = old.attached
      /\ q.up = old.up /\ q.reported = old.reported /\ q.phase = old.phase
  <2>1. q = [k EXCEPT !.open = v]
    OBVIOUS
  <2> HIDE DEF k, v
  <2>2. /\ q \in ChildLink /\ q.open = v
        /\ q.wanted = k.wanted /\ q.peer = k.peer /\ q.attached = k.attached
        /\ q.up = k.up /\ q.reported = k.reported /\ q.phase = k.phase
    BY <1>3, <1>4, <2>1 DEF ChildLink
  <2> QED
    BY <1>3, <2>2 DEF v
<1>6. ChildBecomes(c, q) /\ child'[c] = q /\ now \in BOOLEAN
  <2>1. child' = [child EXCEPT ![c] = q]
    BY DEF ViaChanges, SetOpen
  <2>2. c \in Child /\ child \in [Child -> ChildLink]
    BY <1>1 DEF Handles
  <2>3. now \in BOOLEAN
    BY <1>4
  <2> HIDE DEF q, now, v
  <2>4. child'[c] = q
    BY <2>1, <2>2
  <2> QED
    BY <2>1, <2>3, <2>4 DEF ChildBecomes
<1>7. /\ Made(edge) /\ Range(edge) \subseteq {EdgeOf(c, now)}
      /\ now # old.open => edge # <<>> /\ Head(edge) = EdgeOf(c, now)
      /\ now = old.open => edge = <<>>
  <2> HIDE DEF now, k
  <2> QED
    BY <1>1, <1>3, <1>6, EdgeCall
<1>8. /\ Plain(first) /\ Plain(second)
      /\ \A x \in {"attach", "close", "sync", "reportDown"} : [op |-> x, about |-> c] \in Frame
  BY <1>1, CallsAreFrames DEF Plain, News, ChildOps
<1>9. Return(made)
  <2>1. Return(edge \o (<<first>> \o <<second>>))
    BY DEF ViaChanges, Call
  <2>2. edge \o (<<first>> \o <<second>>) = made
    <3> HIDE DEF edge, first, second
    <3>1. edge \in Seq(Frame)
      BY <1>7 DEF Made
    <3>2. <<first>> \in Seq(Frame) /\ <<second>> \in Seq(Frame)
      BY <1>8 DEF Plain
    <3> DEFINE x == <<first>>
               y == <<second>>
    <3>3. x \in Seq(Frame) /\ y \in Seq(Frame)
      BY <3>2
    <3> HIDE DEF x, y
    <3>4. edge \o (x \o y) = (edge \o x) \o y
      BY <3>1, <3>3, JoinedTwice
    <3> QED
      BY <3>4 DEF x, y
  <2> HIDE DEF edge, first, second, made
  <2> QED
    BY <2>1, <2>2
<1> HIDE DEF edge, first, second
<1>10. /\ Made(made) /\ made # <<>> /\ Range(made) = Range(edge) \cup {first, second}
       /\ edge # <<>> => Head(made) = Head(edge)
       /\ edge = <<>> => Head(made) = first
  <2>1. /\ Made(edge \o <<first>>) /\ Range(edge \o <<first>>) = Range(edge) \cup {first}
        /\ edge \o <<first>> # <<>>
        /\ Head(edge \o <<first>>) = IF edge = <<>> THEN first ELSE Head(edge)
    BY <1>7, <1>8, MadeMore
  <2> DEFINE s == edge \o <<first>>
  <2> HIDE DEF s
  <2>2. /\ Made(s \o <<second>>) /\ Range(s \o <<second>>) = Range(s) \cup {second}
        /\ s \o <<second>> # <<>>
        /\ Head(s \o <<second>>) = IF s = <<>> THEN second ELSE Head(s)
    BY <1>8, <2>1, MadeMore DEF s
  <2> QED
    BY <2>1, <2>2 DEF s
<1> HIDE DEF made
<1>11. Replaced(made, Below)
  BY <1>1, <1>9, <1>10, Returned DEF IInv, Running
<1>12. Left(c, Below) /\ StillWaits(h, c) /\ \A d \in Child : Listening(d) => Listening(d)'
  BY <1>1, <1>11, BelowIsLeft, HandlerLeaves
<1> HIDE DEF k, now, q, v
<1>13. Top' = {Head(made)} /\ (now # old.open => Top' = {EdgeOf(c, now)})
       /\ (now = old.open => Top' = {first})
  BY <1>7, <1>10, <1>11 DEF Replaced
<1>14. first \in On' /\ second \in On'
  BY <1>10, <1>11 DEF Replaced
<1>15. UNCHANGED <<conf, hub, shown, bindings, table, refusals, told, unheard, spent>>
  OBVIOUS
<1>16. /\ IsConnected(child[c])' = IsConnected(k)
       /\ conf[c] = old.peer => IsConnected(k) = IsConnected(old) /\ now = old.open
       /\ conf[c] # old.peer => now = IsConnected(k)
       /\ ~old.attached => ~IsConnected(k)
       /\ IsConnected(k) => conf[c] # NoPeer
  BY <1>3, <1>5, <1>6, <1>15 DEF IsConnected, now
<1>17. Applied(c)'
  BY <1>5, <1>6, <1>15 DEF Applied
<1>18. AttachedAsWanted(c)'
  <2>1. ~old.attached => ~old.open
    BY <1>1 DEF Handles, ChildOK, AttachedAsWanted
  <2>2. ~old.attached => ~now /\ now = old.open
    BY <1>1, <1>6, <1>16, <2>1 DEF ChildLink
  <2>3. want /\ ~old.attached => Atop("attach", c)'
    BY <1>13, <2>2 DEF first, Atop
  <2>4. ~want => Pending("close", c)'
    BY <1>14 DEF first, Pending
  <2> QED
    BY <1>5, <1>6, <2>2, <2>3, <2>4 DEF AttachedAsWanted
<1>19. OpenFollows(c)'
  <2>1. CASE conf[c] = old.peer
    <3>1. child'[c].open = child[c].open /\ IsConnected(child[c])' = IsConnected(child[c])
      BY <1>5, <1>6, <1>16, <2>1
    <3>2. Listening(c) => Listening(c)'
      BY <1>1, <1>12
    <3>3. OpenFollows(c)
      BY <1>1 DEF Handles, ChildOK
    <3>4. hub' = hub /\ unheard' = unheard
      BY <1>15
    <3> HIDE DEF old
    <3> QED
      BY <3>1, <3>2, <3>3, <3>4 DEF OpenFollows
  <2>2. CASE conf[c] # old.peer
    BY <1>5, <1>6, <1>16, <2>2 DEF OpenFollows
  <2> QED
    BY <2>1, <2>2
<1>20. ReportedFollows(c)' /\ PhaseFollows(c)'
  <2>1. Pending("sync", c)' \/ Pending("reportDown", c)'
    BY <1>14 DEF second, Pending
  <2> QED
    BY <2>1 DEF ReportedFollows, PhaseFollows
<1>21. ASSUME NEW f \in Range(made) PROVE ForChild(f) /\ ChildCallOK(f)'
  <2>1. CASE f = first
    BY <1>1, <1>15, <2>1 DEF first, ForChild, ChildCallOK, ChildOps
  <2>2. CASE f = second
    BY <1>1, <1>15, <2>2 DEF second, ForChild, ChildCallOK, ChildOps
  <2>3. CASE f \in Range(edge)
    <3>1. f = EdgeOf(c, now)
      BY <1>7, <2>3
    <3>2. now # old.open
      <4>1. now = old.open => Range(edge) = {}
        BY <1>7, MadeOne
      <4> QED
        BY <2>3, <4>1
    <3>3. now = IsConnected(k)
      BY <1>16, <3>2
    <3> QED
      BY <1>1, <1>5, <1>6, <1>16, <3>1, <3>3 DEF EdgeOf, ForChild, News, ChildCallOK
  <2> QED
    BY <1>10, <1>21, <2>1, <2>2, <2>3
<1>22. /\ q.up = child[c].up /\ q.reported = child[c].reported
       /\ (q.open # child[c].open => Top' = {EdgeOf(c, q.open)})
       /\ h.about = c /\ \A d \in Child \ {c} : Listening(d) => Listening(d)'
       /\ \A f \in Range(made) : ForChild(f) /\ ChildCallOK(f)'
  BY <1>1, <1>5, <1>12, <1>13, <1>21 DEF Handles
<1> QED
  BY <1>1, <1>5, <1>6, <1>11, <1>12, <1>17, <1>18, <1>19, <1>20, <1>22, LinkSet

\* connectVia()
LEMMA ConnectViaActs ==
  ASSUME IInv, ConnectVia
  PROVE  IInv'
<1> DEFINE c == Head(calls).about
<1>1. CASE /\ child[c].peer = conf[c] /\ child[c].wanted = (conf[c] # NoPeer)
           /\ child[c].attached = (conf[c] # NoPeer)
  BY <1>1, ConnectViaUnchanged DEF ConnectVia
<1>2. CASE ~ (/\ child[c].peer = conf[c] /\ child[c].wanted = (conf[c] # NoPeer)
              /\ child[c].attached = (conf[c] # NoPeer))
  <2> SUFFICES ASSUME NEW d, d = Head(calls).about PROVE IInv'
    OBVIOUS
  <2>1. Running("connectVia") /\ ConnectVia
        /\ UNCHANGED <<conf, hub, shown, bindings, table, refusals, told, unheard, spent>>
    BY DEF ConnectVia
  <2>2. ViaChanges(d)
    BY <1>2 DEF ConnectVia, ViaChanges
  <2> QED
    BY <1>2, <2>1, <2>2, ConnectViaChanged
<1> QED
  BY <1>1, <1>2

-----------------------------------------------------------------------------
(* MainWindow. *)

LoopOf(op, S) == [op |-> op, rest |-> S]

\* A loop after other calls.
LEMMA MadeLoop ==
  ASSUME NEW s, Made(s), NEW op \in Loops, NEW S \in SUBSET Child
  PROVE  /\ Made(s \o Loop(op, S))
         /\ Range(s \o Loop(op, S)) = Range(s) \cup (IF S = {} THEN {} ELSE {LoopOf(op, S)})
         /\ s # <<>> => s \o Loop(op, S) # <<>> /\ Head(s \o Loop(op, S)) = Head(s)
<1> DEFINE f == LoopOf(op, S)
<1>1. Plain(f)
  BY CallsAreFrames DEF Plain, News, Loops, LoopOf
<1>2. CASE S = {}
  <2>1. s \in Seq(Frame) /\ Loop(op, S) = <<>>
    BY <1>2 DEF Made, Loop
  <2>2. s \o Loop(op, S) = s
    BY <2>1, ConcatEmptySeq
  <2> QED
    BY <1>2, <2>2
<1>3. CASE S # {}
  <2>1. s \o Loop(op, S) = s \o <<f>>
    BY <1>3 DEF Loop, LoopOf
  <2> HIDE DEF f
  <2>2. /\ Made(s \o <<f>>) /\ Range(s \o <<f>>) = Range(s) \cup {f}
        /\ s \o <<f>> # <<>>
        /\ Head(s \o <<f>>) = IF s = <<>> THEN f ELSE Head(s)
    BY <1>1, MadeMore
  <2>3. Range(s \o Loop(op, S)) = Range(s) \cup (IF S = {} THEN {} ELSE {f})
    BY <1>3, <2>1, <2>2
  <2>4. s # <<>> => s \o Loop(op, S) # <<>> /\ Head(s \o Loop(op, S)) = Head(s)
    BY <2>1, <2>2
  <2>5. Made(s \o Loop(op, S))
    BY <2>1, <2>2
  <2> QED
    BY <2>3, <2>4, <2>5 DEF f
<1> QED
  BY <1>2, <1>3

\* A loop alone.
LEMMA MadeLoopOnly ==
  ASSUME NEW op \in Loops, NEW S \in SUBSET Child
  PROVE  /\ Made(Loop(op, S))
         /\ Range(Loop(op, S)) = IF S = {} THEN {} ELSE {LoopOf(op, S)}
<1>1. [op |-> op, rest |-> S] \in Frame /\ op # "ready"
  BY CallsAreFrames DEF Loops
<1> QED
  BY <1>1, MadeOne DEF Loop, LoopOf

\* A step that leaves the hub and every child alone keeps the invariant when it
\* keeps that of each child and makes sound calls.
LEMMA WindowActs ==
  ASSUME IInv, NEW h, Runs(h), NEW made, Replaced(made, Below),
         Typed', UNCHANGED <<conf, hub, child, unheard>>, Bound \subseteq Bound',
         \A f \in Range(made) : f.op \notin {"open", "ready"} /\ ChildCallOK(f)' /\ HubCallOK(f)',
         \A d \in Child : ChildOK(d)'
  PROVE  IInv'
<1>1. \A f \in On' : f.op # "open" \/ f \in On
  BY DEF Replaced, Runs
<1>2. ASSUME NEW f \in Below PROVE ChildCallOK(f)' /\ HubCallOK(f)'
  <2>1. ChildCallOK(f) /\ HubCallOK(f)
    BY DEF IInv, CallsOK, Runs
  <2>2. ChildCallOK(f)'
    BY <2>1 DEF ChildCallOK, Carried, IsConnected
  <2>3. HubCallOK(f)'
    BY <1>1, <2>1 DEF HubCallOK
  <2> QED
    BY <2>2, <2>3
<1>3. CallsOK'
  BY <1>2 DEF CallsOK, Replaced
<1>4. HubOK' /\ Stacked(calls')
  BY DEF IInv, HubOK, Up, Replaced
<1> QED
  BY <1>3, <1>4 DEF IInv

\* All that is below waits as before.
LEMMA BelowWaits ==
  ASSUME NEW h, Runs(h), NEW made, Replaced(made, Below), NEW d,
         h.op = "signal" => d \notin h.rest, h.op = "resendAll" => d \notin h.rest
  PROVE  Waiting(h, d)
BY DEF Runs, Waiting, Listening, Resending, Replaced

\* The same for a child of the call that runs.
LEMMA WindowLeaves ==
  ASSUME NEW h, Runs(h), h.op \in {"report", "updated", "bind", "resendAll"},
         NEW c \in Child, ChildOK(c), NEW made, Replaced(made, Below),
         UNCHANGED <<conf, hub, child, unheard>>
  PROVE  /\ StillWaits(h, c)
         /\ AttachedAsWanted(c)' /\ OpenFollows(c)' /\ UpFollows(c)'
         /\ ReportedFollows(c)' /\ PhaseFollows(c)'
         /\ h.op # "report" /\ shown'[c] = shown[c] => ShownFollows(c)'
         /\ h.op # "updated" => Applied(c)'
         /\ h.op \notin {"bind", "updated"} /\ bindings'[c] = bindings[c] => BoundAsPicked(c)'
         /\ h.op # "resendAll" /\ UNCHANGED <<bindings, table, refusals, told>>
              => RoutedAsBound(c)'
<1>1. Top = {h} /\ On = {h} \cup Below /\ Below \subseteq On'
  BY DEF Runs, Replaced
<1>2. ASSUME NEW op, op \notin Loops, op # h.op, Pending(op, c) PROVE Pending(op, c)'
  BY <1>1, <1>2 DEF Pending, Loops
<1>3. ASSUME NEW op, op # h.op PROVE ~Atop(op, c)
  BY <1>1, <1>3 DEF Atop
<1>4. /\ \A v : [op |-> "edge", about |-> c, value |-> v] \notin Top
      /\ h.op # "report" => \A v : [op |-> "report", about |-> c, value |-> v] \notin Top
  BY <1>1
<1>5. StillWaits(h, c)
  BY <1>2, <1>3, <1>4 DEF StillWaits
<1>6. /\ IsConnected(child[c])' = IsConnected(child[c])
      /\ (Listening(c) => Listening(c)')
      /\ h.op # "resendAll" => (Resending(c) => Resending(c)')
  BY <1>1 DEF IsConnected, Listening, Resending
<1>7. AttachedAsWanted(c)' /\ OpenFollows(c)' /\ UpFollows(c)' /\ ReportedFollows(c)'
  BY <1>2, <1>3, <1>4, <1>6
  DEF ChildOK, AttachedAsWanted, OpenFollows, UpFollows, ReportedFollows, Loops
<1>8. PhaseFollows(c)'
  <2>1. \A op \in {"sync", "upDone", "settle", "reportDown", "downDone"} :
          Pending(op, c) => Pending(op, c)'
    BY <1>2 DEF Loops
  <2> QED
    BY <2>1 DEF ChildOK, PhaseFollows
<1>9. h.op # "report" /\ shown'[c] = shown[c] => ShownFollows(c)'
  BY <1>4 DEF ChildOK, ShownFollows
<1>10. h.op # "updated" => Applied(c)'
  <2>1. h.op # "updated" => ~Atop("updated", c) /\ ~Atop("connectVia", c)
    BY <1>3
  <2> QED
    BY <2>1 DEF ChildOK, Applied
<1>11. h.op \notin {"bind", "updated"} /\ bindings'[c] = bindings[c] => BoundAsPicked(c)'
  <2>1. h.op # "updated" => ~Atop("updated", c)
    BY <1>3
  <2>2. h.op # "bind" => (Pending("bind", c) => Pending("bind", c)')
    BY <1>2 DEF Loops
  <2> QED
    BY <2>1, <2>2 DEF ChildOK, BoundAsPicked
<1>12. h.op # "resendAll" /\ UNCHANGED <<bindings, table, refusals, told>> => RoutedAsBound(c)'
  BY <1>6 DEF ChildOK, RoutedAsBound, Routed
<1> QED
  BY <1>5, <1>7, <1>8, <1>9, <1>10, <1>11, <1>12

\* The call that runs, and those below it.
LEMMA CallRuns ==
  ASSUME IInv, calls # <<>>
  PROVE  /\ Runs(Head(calls)) /\ Head(calls) \in On /\ Stacked(calls)
         /\ ChildCallOK(Head(calls)) /\ HubCallOK(Head(calls))
<1>1. Runs(Head(calls)) /\ Stacked(calls)
  BY BelowIsPlain DEF IInv
<1>2. Head(calls) \in On
  BY <1>1 DEF Runs
<1> QED
  BY <1>1, <1>2 DEF IInv, CallsOK

\* A loop that leaves every child alone.
LEMMA LoopActs ==
  ASSUME IInv, NEW h, Runs(h), h.op \in {"signal", "reattach"}, h.op = "signal" => h.rest = {},
         NEW made, Replaced(made, Below),
         UNCHANGED <<conf, hub, child, shown, bindings, table, refusals, told, unheard, spent>>,
         \A f \in Range(made) : f.op \in {"connectVia", "bind", "reattach"}
  PROVE  IInv'
<1>1. Top = {h} /\ h \in On
  BY DEF Runs
<1>2. ASSUME NEW d \in Child PROVE ChildOK(d)'
  <2>1. ChildOK(d) /\ bindings[d] \in Peer
    BY DEF IInv, Typed
  <2>2. Elsewhere(h, d) /\ Same(d)
    BY DEF Elsewhere, Loops, Same, Routed
  <2>3. Waiting(h, d)
    BY BelowWaits
  <2> QED
    BY <1>1, <2>1, <2>2, <2>3, OtherChild
<1>3. Typed' /\ Bound \subseteq Bound'
  BY DEF IInv, Typed, Bound
<1>4. \A f \in Range(made) : f.op \notin {"open", "ready"} /\ ChildCallOK(f)' /\ HubCallOK(f)'
  BY DEF ChildCallOK, HubCallOK
<1> QED
  BY <1>2, <1>3, <1>4, WindowActs

\* One child of the hub's signal hears it, or nobody is left.
LEMMA SignalActs ==
  ASSUME IInv, Signal
  PROVE  IInv'
<1> SUFFICES ASSUME NEW h, h = Head(calls) PROVE IInv'
  OBVIOUS
<1>1. /\ Running("signal") /\ h.op = "signal" /\ calls # <<>>
      /\ UNCHANGED <<conf, hub, shown, bindings, table, refusals, told, unheard, spent>>
  BY DEF Signal, Running
<1>2. CASE h.rest = {}
  <2>1. Return(<<>>) /\ UNCHANGED child
    BY <1>2 DEF Signal
  <2>2. Runs(h) /\ Stacked(calls)
    BY <1>1, CallRuns
  <2>3. Replaced(<<>>, Below)
    BY <1>1, <2>1, <2>2, MadeOne, Returned
  <2>4. \A f \in Range(<<>>) : f.op \in {"connectVia", "bind", "reattach"}
    BY MadeOne
  <2> QED
    BY <1>1, <1>2, <2>1, <2>2, <2>3, <2>4, LoopActs
<1>3. CASE h.rest # {}
  <2>1. PICK c \in Head(calls).rest :
          LET now == IsConnected(child[c])
          IN /\ SetOpen(c, child[c], now)
             /\ Return(EdgeIfChanged(c, child[c], now) \o Loop("signal", Head(calls).rest \ {c}))
    BY <1>3 DEF Signal
  <2> QED
    BY <1>1, <2>1, SignalToOne
<1> QED
  BY <1>2, <1>3

\* The target of one child after the other is applied again.
LEMMA TargetCalls ==
  ASSUME NEW c \in Child, NEW S \in SUBSET Child
  PROVE  LET made == ApplyTarget(c) \o Loop("reattach", S)
         IN /\ Made(made) /\ made # <<>> /\ Head(made) = [op |-> "connectVia", about |-> c]
            /\ Range(made) \subseteq {[op |-> "connectVia", about |-> c],
                                      [op |-> "bind", about |-> c], LoopOf("reattach", S)}
            /\ [op |-> "bind", about |-> c] \in Range(made)
<1> DEFINE f == [op |-> "connectVia", about |-> c]
           g == [op |-> "bind", about |-> c]
           s == <<f>> \o <<g>>
<1>1. /\ f \in Frame /\ f.op \notin {"ready"} /\ Plain(g)
      /\ ApplyTarget(c) = s
  BY CallsAreFrames DEF ChildOps, Plain, News, ApplyTarget, Call
<1> HIDE DEF f, g
<1>2. Made(<<f>>) /\ Range(<<f>>) = {f} /\ <<f>> # <<>> /\ Head(<<f>>) = f
  BY <1>1, MadeOne
<1>3. Made(s) /\ Range(s) = {f, g} /\ s # <<>> /\ Head(s) = f
  BY <1>1, <1>2, MadeMore
<1> HIDE DEF s
<1>4. "reattach" \in Loops
  BY DEF Loops
<1>5. /\ Made(s \o Loop("reattach", S))
      /\ Range(s \o Loop("reattach", S))
           = Range(s) \cup (IF S = {} THEN {} ELSE {LoopOf("reattach", S)})
      /\ s \o Loop("reattach", S) # <<>> /\ Head(s \o Loop("reattach", S)) = Head(s)
  BY <1>3, <1>4, MadeLoop
<1>6. /\ Range(s \o Loop("reattach", S)) \subseteq {f, g, LoopOf("reattach", S)}
      /\ g \in Range(s \o Loop("reattach", S))
  BY <1>3, <1>5
<1> QED
  BY <1>1, <1>3, <1>5, <1>6 DEF f, g

\* reattachHubChildren() goes on.
LEMMA ReattachActs ==
  ASSUME IInv, Reattach
  PROVE  IInv'
<1> SUFFICES ASSUME NEW h, h = Head(calls) PROVE IInv'
  OBVIOUS
<1>1. /\ h.op = "reattach" /\ calls # <<>>
      /\ UNCHANGED <<conf, hub, child, shown, bindings, table, refusals, told, unheard, spent>>
  BY DEF Reattach, Running
<1>2. Runs(h) /\ Stacked(calls) /\ h.rest \subseteq Child
  BY <1>1, CallRuns, FrameKinds DEF Runs
<1>3. PICK c \in h.rest : Return(ApplyTarget(c) \o Loop("reattach", h.rest \ {c}))
  BY DEF Reattach
<1> DEFINE S == h.rest \ {c}
           made == ApplyTarget(c) \o Loop("reattach", S)
<1>4. c \in Child /\ S \in SUBSET Child
  BY <1>2
<1> HIDE DEF S
<1>5. /\ Made(made) /\ made # <<>>
      /\ Range(made) \subseteq {[op |-> "connectVia", about |-> c],
                                [op |-> "bind", about |-> c], LoopOf("reattach", S)}
  BY <1>4, TargetCalls
<1>6. Return(made)
  BY <1>3 DEF S
<1> HIDE DEF made
<1>7. Replaced(made, Below)
  BY <1>1, <1>2, <1>5, <1>6, Returned
<1>8. \A f \in Range(made) : f.op \in {"connectVia", "bind", "reattach"}
  BY <1>5 DEF LoopOf
<1> QED
  BY <1>1, <1>2, <1>7, <1>8, LoopActs

\* onDeviceUpdated() of a child: its target is about to be applied.
LEMMA UpdatedChild ==
  ASSUME IInv, Updated, NEW c \in Child, c = Head(calls).about
  PROVE  IInv'
<1> SUFFICES ASSUME NEW h, h = Head(calls) PROVE IInv'
  OBVIOUS
<1>1. /\ h.op = "updated" /\ calls # <<>> /\ h.about = c
      /\ UNCHANGED <<conf, hub, child, shown, bindings, table, refusals, told, unheard, spent>>
  BY DEF Updated, Running
<1>2. Runs(h) /\ Stacked(calls) /\ Top = {h} /\ h \in On
  BY <1>1, CallRuns DEF Runs
<1> DEFINE made == ApplyTarget(c) \o Loop("reattach", Child)
<1>3. Return(made)
  BY HubAssumption DEF Updated
<1>4. /\ Made(made) /\ made # <<>> /\ Head(made) = [op |-> "connectVia", about |-> c]
      /\ Range(made) \subseteq {[op |-> "connectVia", about |-> c],
                                [op |-> "bind", about |-> c], LoopOf("reattach", Child)}
      /\ [op |-> "bind", about |-> c] \in Range(made)
  BY TargetCalls
<1> HIDE DEF made
<1>5. Replaced(made, Below)
  BY <1>1, <1>2, <1>3, <1>4, Returned
<1>6. Atop("connectVia", c)' /\ Pending("bind", c)'
  BY <1>4, <1>5 DEF Replaced, Atop, Pending
<1>7. ASSUME NEW d \in Child PROVE ChildOK(d)'
  <2>1. ChildOK(d) /\ bindings[d] \in Peer
    BY DEF IInv, Typed
  <2>2. CASE d # c
    <3>1. Elsewhere(h, d) /\ Same(d)
      BY <1>1, <2>2 DEF Elsewhere, Same, Routed
    <3>2. Waiting(h, d)
      BY <1>1, <1>2, <1>5, BelowWaits
    <3> QED
      BY <1>2, <2>1, <3>1, <3>2, OtherChild
  <2>3. CASE d = c
    <3>1. /\ AttachedAsWanted(c)' /\ OpenFollows(c)' /\ UpFollows(c)'
          /\ ReportedFollows(c)' /\ PhaseFollows(c)' /\ ShownFollows(c)' /\ RoutedAsBound(c)'
      BY <1>1, <1>2, <1>5, <2>1, <2>3, WindowLeaves
    <3>2. Applied(c)' /\ BoundAsPicked(c)'
      BY <1>6 DEF Applied, BoundAsPicked
    <3> QED
      BY <2>3, <3>1, <3>2 DEF ChildOK
  <2> QED
    BY <2>2, <2>3
<1>8. Typed' /\ Bound \subseteq Bound'
  BY <1>1 DEF IInv, Typed, Bound
<1>9. \A f \in Range(made) : f.op \notin {"open", "ready"} /\ ChildCallOK(f)' /\ HubCallOK(f)'
  BY <1>4 DEF ChildCallOK, HubCallOK, LoopOf
<1> QED
  BY <1>1, <1>2, <1>5, <1>7, <1>8, <1>9, WindowActs

\* onDeviceUpdated() of the hub: a dial, and the children after it.
LEMMA UpdatedHub ==
  ASSUME IInv, Updated, Head(calls).about = Hub
  PROVE  IInv'
<1> SUFFICES ASSUME NEW h, h = Head(calls) PROVE IInv'
  OBVIOUS
<1>1. /\ h.op = "updated" /\ calls # <<>> /\ h.about = Hub
      /\ UNCHANGED <<conf, hub, child, shown, bindings, table, refusals, told, unheard, spent>>
  BY DEF Updated, Running
<1>2. Runs(h) /\ Stacked(calls) /\ Top = {h} /\ h \in On /\ ~unheard
  BY <1>1, CallRuns DEF Runs, HubCallOK
<1> DEFINE f == [op |-> "dial", about |-> Hub]
           made == <<f>> \o Loop("reattach", Child)
<1>3. Return(made)
  BY <1>1 DEF Updated, Call
<1>4. Made(made) /\ Range(made) \subseteq {f, LoopOf("reattach", Child)}
  <2>1. f \in Frame /\ f.op # "ready"
    BY CallsAreFrames
  <2> HIDE DEF f
  <2>2. Made(<<f>>) /\ Range(<<f>>) = {f}
    BY <2>1, MadeOne
  <2>3. "reattach" \in Loops /\ Child \in SUBSET Child
    BY DEF Loops
  <2>4. /\ Made(made)
        /\ Range(made) = {f} \cup (IF Child = {} THEN {} ELSE {LoopOf("reattach", Child)})
    BY <2>2, <2>3, MadeLoop
  <2> QED
    BY <2>4
<1> HIDE DEF made
<1>5. Replaced(made, Below)
  BY <1>1, <1>2, <1>3, <1>4, Returned
<1>6. ASSUME NEW d \in Child PROVE ChildOK(d)'
  <2>1. ChildOK(d) /\ bindings[d] \in Peer
    BY DEF IInv, Typed
  <2>2. Elsewhere(h, d) /\ Same(d)
    BY <1>1, HubAssumption DEF Elsewhere, Same, Routed
  <2>3. Waiting(h, d)
    BY <1>1, <1>2, <1>5, BelowWaits
  <2> QED
    BY <1>2, <2>1, <2>2, <2>3, OtherChild
<1>7. Typed' /\ Bound \subseteq Bound'
  BY <1>1 DEF IInv, Typed, Bound
<1>8. \A g \in Range(made) : g.op \notin {"open", "ready"} /\ ChildCallOK(g)' /\ HubCallOK(g)'
  BY <1>1, <1>2, <1>4 DEF ChildCallOK, HubCallOK, LoopOf, f
<1> QED
  BY <1>1, <1>2, <1>5, <1>6, <1>7, <1>8, WindowActs

\* onDeviceUpdated()
LEMMA UpdatedActs ==
  ASSUME IInv, Updated
  PROVE  IInv'
<1>1. calls # <<>> /\ Head(calls).op = "updated"
  BY DEF Updated, Running
<1>2. Head(calls).about \in Child \cup {Hub}
  BY <1>1, CallRuns, FrameKinds DEF Runs
<1> QED
  BY <1>2, UpdatedChild, UpdatedHub

\* onDeviceConnectionStateChanged()
LEMMA ReportActs ==
  ASSUME IInv, Report
  PROVE  IInv'
<1> SUFFICES ASSUME NEW h, h = Head(calls), NEW d, d = h.about, NEW v, v = h.value PROVE IInv'
  OBVIOUS
<1> DEFINE f == [op |-> "updated", about |-> d]
<1>1. /\ h.op = "report" /\ calls # <<>> /\ shown' = [shown EXCEPT ![d] = v]
      /\ UNCHANGED <<conf, hub, child, bindings, table, refusals, told, unheard, spent>>
      /\ \/ Return(<<>>) \/ Return(<<f>>) \/ Return(<<f>> \o <<f>>)
  BY DEF Report, Running, Call
<1>2. /\ Runs(h) /\ Stacked(calls) /\ Top = {h} /\ h \in On
      /\ ChildCallOK(h) /\ HubCallOK(h)
      /\ d \in Child \cup {Hub} /\ v \in BOOLEAN /\ f \in Frame
  BY <1>1, CallRuns, FrameKinds, CallsAreFrames DEF Runs, News
<1>3. PICK made : Made(made) /\ Range(made) \subseteq {f} /\ Return(made)
  <2>1. Plain(f) /\ f.op # "ready"
    BY <1>2 DEF Plain, News
  <2> HIDE DEF f
  <2>2. Made(<<f>>) /\ Range(<<f>>) = {f} /\ Made(<<>>) /\ Range(<<>>) = {}
    BY <2>1, MadeOne DEF Plain
  <2>3. Made(<<f>> \o <<f>>) /\ Range(<<f>> \o <<f>>) = {f}
    <3> DEFINE s == <<f>>
    <3>1. Made(s) /\ Range(s) = {f}
      BY <2>2
    <3> HIDE DEF s
    <3>2. Made(s \o <<f>>) /\ Range(s \o <<f>>) = Range(s) \cup {f}
      BY <2>1, <3>1, MadeMore
    <3> QED
      BY <3>1, <3>2 DEF s
  <2> QED
    BY <1>1, <2>2, <2>3
<1>4. Replaced(made, Below)
  BY <1>1, <1>2, <1>3, Returned
<1>5. \A x \in Child : shown'[x] = IF x = d THEN v ELSE shown[x]
  BY <1>1 DEF IInv, Typed
<1>6. ASSUME NEW x \in Child PROVE ChildOK(x)'
  <2>1. ChildOK(x) /\ bindings[x] \in Peer
    BY DEF IInv, Typed
  <2>2. CASE x # d
    <3>1. Elsewhere(h, x) /\ Same(x)
      BY <1>1, <1>5, <2>2 DEF Elsewhere, Same, Routed
    <3>2. Waiting(h, x)
      BY <1>1, <1>2, <1>4, BelowWaits
    <3> QED
      BY <1>2, <2>1, <3>1, <3>2, OtherChild
  <2>3. CASE x = d
    <3>1. /\ AttachedAsWanted(x)' /\ OpenFollows(x)' /\ UpFollows(x)'
          /\ ReportedFollows(x)' /\ PhaseFollows(x)' /\ Applied(x)' /\ BoundAsPicked(x)'
          /\ RoutedAsBound(x)'
      BY <1>1, <1>2, <1>4, <2>1, WindowLeaves
    <3>2. shown'[x] = child'[x].reported
      BY <1>1, <1>2, <1>5, <2>3 DEF ChildCallOK
    <3>3. ShownFollows(x)'
      BY <3>2 DEF ShownFollows
    <3> QED
      BY <3>1, <3>3 DEF ChildOK
  <2> QED
    BY <2>2, <2>3
<1>7. Typed' /\ Bound \subseteq Bound'
  BY <1>1, <1>2 DEF IInv, Typed, Bound
<1>8. \A g \in Range(made) : g.op \notin {"open", "ready"} /\ ChildCallOK(g)' /\ HubCallOK(g)'
  BY <1>1, <1>2, <1>3 DEF ChildCallOK, HubCallOK
<1> QED
  BY <1>1, <1>2, <1>4, <1>6, <1>7, <1>8, WindowActs

-----------------------------------------------------------------------------
(* HubBinder. *)

\* What one bind command changes.
LEMMA SendBindProperties ==
  ASSUME Typed, NEW c \in Child, NEW r \in Robot, SendBind(c, r), told' = told
  PROVE  /\ table' \in [Child -> Peer] /\ refusals' \subseteq Child \X Robot
         /\ \A d \in Child \ {c} : \A x \in Peer : Routed(d, x) => Routed(d, x)'
         /\ hub.session = "up" /\ ~unheard => Routed(c, r)'
<1>1. /\ table \in [Child -> Peer] /\ refusals \subseteq Child \X Robot /\ r \in Peer
  BY DEF Typed, Peer
<1>2. CASE table' = table /\ refusals' = refusals /\ ~(hub.session = "up" /\ ~unheard)
  BY <1>1, <1>2 DEF Routed
<1>3. CASE table' = [table EXCEPT ![c] = r] /\ refusals' = refusals
  BY <1>1, <1>3 DEF Routed
<1>4. CASE refusals' = refusals \cup {<<c, r>>} /\ table' = table
  BY <1>1, <1>4 DEF Routed
<1>5. \/ table' = table /\ refusals' = refusals /\ ~(hub.session = "up" /\ ~unheard)
      \/ table' = [table EXCEPT ![c] = r] /\ refusals' = refusals
      \/ refusals' = refusals \cup {<<c, r>>} /\ table' = table
  BY DEF SendBind
<1> QED
  BY <1>2, <1>3, <1>4, <1>5

\* bindChild() of a child that has a robot.
LEMMA BindOf ==
  ASSUME IInv, Running("bind"), NEW c, c = Head(calls).about, conf[c] # NoPeer,
         Return(<<>>), bindings' = [bindings EXCEPT ![c] = conf[c]], SendBind(c, conf[c]),
         UNCHANGED <<conf, hub, child, shown, told, unheard, spent>>
  PROVE  IInv'
<1> SUFFICES ASSUME NEW h, h = Head(calls) PROVE IInv'
  OBVIOUS
<1>1. /\ h.op = "bind" /\ calls # <<>> /\ h.about = c
      /\ UNCHANGED <<conf, hub, child, shown, told, unheard, spent>>
  BY DEF Running
<1>2. /\ Runs(h) /\ Stacked(calls) /\ Top = {h} /\ h \in On /\ c \in Child
  BY <1>1, CallRuns, FrameKinds DEF Runs, ChildOps
<1>3. /\ conf[c] \in Robot /\ Typed /\ bindings \in [Child -> Peer]
  BY <1>2, PeerAssumption DEF IInv, Typed, Peer
<1>4. /\ table' \in [Child -> Peer] /\ refusals' \subseteq Child \X Robot
      /\ \A d \in Child \ {c} : \A x \in Peer : Routed(d, x) => Routed(d, x)'
      /\ hub.session = "up" /\ ~unheard => Routed(c, conf[c])'
  <2> SUFFICES ASSUME NEW r, r = conf[c]
               PROVE  /\ table' \in [Child -> Peer] /\ refusals' \subseteq Child \X Robot
                      /\ \A d \in Child \ {c} : \A x \in Peer : Routed(d, x) => Routed(d, x)'
                      /\ hub.session = "up" /\ ~unheard => Routed(c, conf[c])'
    OBVIOUS
  <2>1. r \in Robot /\ SendBind(c, r) /\ told' = told
    BY <1>3
  <2>2. /\ table' \in [Child -> Peer] /\ refusals' \subseteq Child \X Robot
        /\ \A d \in Child \ {c} : \A x \in Peer : Routed(d, x) => Routed(d, x)'
        /\ hub.session = "up" /\ ~unheard => Routed(c, r)'
    BY <1>2, <1>3, <2>1, SendBindProperties
  <2> QED
    BY <1>1, <2>2 DEF Routed
<1>5. Replaced(<<>>, Below)
  BY <1>1, <1>2, MadeOne, Returned
<1>6. \A d \in Child : bindings'[d] = IF d = c THEN conf[c] ELSE bindings[d]
  BY <1>3
<1>7. ASSUME NEW d \in Child PROVE ChildOK(d)'
  <2>1. ChildOK(d) /\ bindings[d] \in Peer
    BY DEF IInv, Typed
  <2>2. CASE d # c
    <3>1. Elsewhere(h, d) /\ Same(d)
      BY <1>1, <1>4, <1>6, <2>2 DEF Elsewhere, Same
    <3>2. Waiting(h, d)
      BY <1>1, <1>2, <1>5, BelowWaits
    <3> QED
      BY <1>2, <2>1, <3>1, <3>2, OtherChild
  <2>3. CASE d = c
    <3>1. /\ AttachedAsWanted(c)' /\ OpenFollows(c)' /\ UpFollows(c)'
          /\ ReportedFollows(c)' /\ PhaseFollows(c)' /\ Applied(c)' /\ ShownFollows(c)'
      BY <1>1, <1>2, <1>5, <2>1, <2>3, WindowLeaves
    <3>2. BoundAsPicked(c)' /\ RoutedAsBound(c)'
      BY <1>1, <1>2, <1>4, <1>6 DEF BoundAsPicked, RoutedAsBound, Routed
    <3> QED
      BY <2>3, <3>1, <3>2 DEF ChildOK
  <2> QED
    BY <2>2, <2>3
<1>8. Typed' /\ Bound \subseteq Bound'
  BY <1>1, <1>2, <1>3, <1>4, <1>6 DEF Typed, Bound
<1>9. \A f \in Range(<<>>) : f.op \notin {"open", "ready"} /\ ChildCallOK(f)' /\ HubCallOK(f)'
  BY MadeOne
<1>10. UNCHANGED <<conf, hub, child, unheard>>
  BY <1>1
<1> HIDE DEF Bound
<1> QED
  BY <1>2, <1>5, <1>7, <1>8, <1>9, <1>10, WindowActs

\* bindChild() of a child that has none does nothing.
LEMMA BindNothing ==
  ASSUME IInv, Running("bind"), NEW c, c = Head(calls).about, conf[c] = NoPeer,
         Return(<<>>), UNCHANGED <<bindings, table, refusals>>,
         UNCHANGED <<conf, hub, child, shown, told, unheard, spent>>
  PROVE  IInv'
<1> SUFFICES ASSUME NEW h, h = Head(calls) PROVE IInv'
  OBVIOUS
<1>1. /\ h.op = "bind" /\ calls # <<>> /\ h.about = c
      /\ UNCHANGED <<conf, hub, child, shown, bindings, table, refusals, told, unheard, spent>>
  BY DEF Running
<1>2. /\ Runs(h) /\ Stacked(calls) /\ Top = {h} /\ h \in On /\ c \in Child
  BY <1>1, CallRuns, FrameKinds DEF Runs, ChildOps
<1>3. Replaced(<<>>, Below)
  BY <1>1, <1>2, MadeOne, Returned
<1>4. ASSUME NEW d \in Child PROVE ChildOK(d)'
  <2>1. ChildOK(d) /\ bindings[d] \in Peer
    BY DEF IInv, Typed
  <2>2. CASE d # c
    <3>1. Elsewhere(h, d) /\ Same(d)
      BY <1>1, <2>2 DEF Elsewhere, Same, Routed
    <3>2. Waiting(h, d)
      BY <1>1, <1>2, <1>3, BelowWaits
    <3> QED
      BY <1>2, <2>1, <3>1, <3>2, OtherChild
  <2>3. CASE d = c
    <3>1. /\ AttachedAsWanted(c)' /\ OpenFollows(c)' /\ UpFollows(c)' /\ RoutedAsBound(c)'
          /\ ReportedFollows(c)' /\ PhaseFollows(c)' /\ Applied(c)' /\ ShownFollows(c)'
      BY <1>1, <1>2, <1>3, <2>1, <2>3, WindowLeaves
    <3>2. BoundAsPicked(c)'
      BY <1>1 DEF BoundAsPicked
    <3> QED
      BY <2>3, <3>1, <3>2 DEF ChildOK
  <2> QED
    BY <2>2, <2>3
<1>5. Typed' /\ Bound \subseteq Bound'
  BY <1>1 DEF IInv, Typed, Bound
<1>6. \A f \in Range(<<>>) : f.op \notin {"open", "ready"} /\ ChildCallOK(f)' /\ HubCallOK(f)'
  BY MadeOne
<1> QED
  BY <1>1, <1>2, <1>3, <1>4, <1>5, <1>6, WindowActs

\* bindChild()
LEMMA BindActs ==
  ASSUME IInv, Bind
  PROVE  IInv'
<1> SUFFICES ASSUME NEW c, c = Head(calls).about PROVE IInv'
  OBVIOUS
<1>1. Running("bind") /\ Return(<<>>) /\ UNCHANGED <<conf, hub, child, shown, told, unheard, spent>>
  BY DEF Bind
<1>2. CASE conf[c] = NoPeer
  <2>1. UNCHANGED <<bindings, table, refusals>>
    BY <1>2 DEF Bind
  <2> QED
    BY <1>1, <1>2, <2>1, BindNothing
<1>3. CASE conf[c] # NoPeer
  <2>1. bindings' = [bindings EXCEPT ![c] = conf[c]] /\ SendBind(c, conf[c])
    BY <1>3 DEF Bind
  <2> QED
    BY <1>1, <1>3, <2>1, BindOf
<1> QED
  BY <1>2, <1>3

\* resendAll() tells a new session about one child.
LEMMA ResendActs ==
  ASSUME IInv, ResendAll
  PROVE  IInv'
<1> SUFFICES ASSUME NEW h, h = Head(calls) PROVE IInv'
  OBVIOUS
<1>1. /\ h.op = "resendAll" /\ calls # <<>>
      /\ UNCHANGED <<conf, hub, child, shown, bindings, told, unheard, spent>>
  BY DEF ResendAll, Running
<1>2. /\ Runs(h) /\ Stacked(calls) /\ Top = {h} /\ h \in On /\ On = {h} \cup Below
      /\ h.rest \subseteq Bound /\ hub.phase # "Ready"
  BY <1>1, CallRuns DEF Runs, HubCallOK
<1>3. PICK c \in h.rest :
        SendBind(c, bindings[c]) /\ Return(Loop("resendAll", h.rest \ {c}))
  BY DEF ResendAll
<1> DEFINE r == bindings[c]
           S == h.rest \ {c}
           made == Loop("resendAll", S)
<1>4. c \in Child /\ r \in Robot /\ r \in Peer /\ S \in SUBSET Child /\ S \subseteq Bound
  BY <1>2 DEF Bound, IInv, Typed, Peer
<1>5. /\ table' \in [Child -> Peer] /\ refusals' \subseteq Child \X Robot
      /\ \A d \in Child \ {c} : \A x \in Peer : Routed(d, x) => Routed(d, x)'
      /\ hub.session = "up" /\ ~unheard => Routed(c, r)'
  <2> SUFFICES ASSUME NEW x, x = bindings[c]
               PROVE  /\ table' \in [Child -> Peer] /\ refusals' \subseteq Child \X Robot
                      /\ \A d \in Child \ {c} : \A y \in Peer : Routed(d, y) => Routed(d, y)'
                      /\ hub.session = "up" /\ ~unheard => Routed(c, r)'
    OBVIOUS
  <2>1. x \in Robot /\ SendBind(c, x) /\ told' = told /\ Typed
    BY <1>1, <1>3, <1>4 DEF IInv
  <2>2. /\ table' \in [Child -> Peer] /\ refusals' \subseteq Child \X Robot
        /\ \A d \in Child \ {c} : \A y \in Peer : Routed(d, y) => Routed(d, y)'
        /\ hub.session = "up" /\ ~unheard => Routed(c, x)'
    BY <1>4, <2>1, SendBindProperties
  <2> QED
    BY <1>1, <2>2 DEF Routed
<1> HIDE DEF r, S
<1>6. /\ Made(made) /\ Range(made) = IF S = {} THEN {} ELSE {LoopOf("resendAll", S)}
      /\ Return(made)
  <2>1. "resendAll" \in Loops
    BY DEF Loops
  <2> QED
    BY <1>3, <1>4, <2>1, MadeLoopOnly DEF S
<1> HIDE DEF made
<1>7. Replaced(made, Below)
  BY <1>1, <1>2, <1>6, Returned
<1>8. ASSUME NEW d \in Child PROVE ChildOK(d)'
  <2>1. ChildOK(d) /\ bindings[d] \in Peer
    BY DEF IInv, Typed
  <2>2. CASE d # c
    <3>1. Elsewhere(h, d) /\ Same(d)
      BY <1>1, <1>5, <2>2 DEF Elsewhere, Loops, Same
    <3>2. Waiting(h, d)
      <4>1. \A f \in On : f = h \/ f \in On'
        BY <1>2, <1>7 DEF Replaced
      <4>2. Listening(d) => Listening(d)'
        BY <1>1, <1>2, <1>7 DEF Listening, Replaced
      <4>3. ASSUME Resending(d) PROVE Resending(d)'
        <5>1. PICK f \in On : f.op = "resendAll" /\ d \in f.rest
          BY <4>3 DEF Resending
        <5>2. CASE f = h
          <6>1. d \in S
            BY <2>2, <5>1, <5>2 DEF S
          <6>2. LoopOf("resendAll", S) \in On'
            BY <1>6, <1>7, <6>1 DEF Replaced
          <6> QED
            BY <6>1, <6>2 DEF Resending, LoopOf
        <5>3. CASE f # h
          BY <4>1, <5>1, <5>3 DEF Resending
        <5> QED
          BY <5>2, <5>3
      <4> QED
        BY <4>1, <4>2, <4>3 DEF Waiting
    <3> QED
      BY <1>2, <2>1, <3>1, <3>2, OtherChild
  <2>3. CASE d = c
    <3>1. /\ AttachedAsWanted(c)' /\ OpenFollows(c)' /\ UpFollows(c)' /\ BoundAsPicked(c)'
          /\ ReportedFollows(c)' /\ PhaseFollows(c)' /\ Applied(c)' /\ ShownFollows(c)'
      BY <1>1, <1>2, <1>4, <1>7, <2>1, <2>3, WindowLeaves
    <3>2. RoutedAsBound(c)'
      BY <1>1, <1>5 DEF RoutedAsBound, Routed, r
    <3> QED
      BY <2>3, <3>1, <3>2 DEF ChildOK
  <2> QED
    BY <2>2, <2>3
<1>9. Typed' /\ Bound \subseteq Bound' /\ Bound' = Bound
  BY <1>1, <1>5 DEF IInv, Typed, Bound
<1>10. ASSUME NEW f \in Range(made)
       PROVE  f.op \notin {"open", "ready"} /\ ChildCallOK(f)' /\ HubCallOK(f)'
  <2>1. f = LoopOf("resendAll", S)
    BY <1>6
  <2>2. f.op = "resendAll" /\ f.rest = S
    BY <2>1 DEF LoopOf
  <2>3. HubCallOK(f)'
    BY <1>1, <1>2, <1>4, <1>9, <2>2 DEF HubCallOK
  <2> QED
    BY <2>2, <2>3 DEF ChildCallOK
<1> QED
  BY <1>1, <1>2, <1>7, <1>8, <1>9, <1>10, WindowActs

-----------------------------------------------------------------------------
(* The DeviceConnection of the hub. *)

\* What the step k of the hub's connection makes of Up.
UpOf(k) == k.link /\ k.phase = "Ready"

\* A hub that changes is heard of by the children who listen: a step of the
\* hub's own connection keeps the invariant, if what it offers stays the same
\* or nothing else is left to run.
LEMMA HubActs ==
  ASSUME IInv, NEW h, Runs(h), h.op \in {"dial", "open", "hubUpDone", "downDone", "ready"},
         h.about = Hub, ~unheard, NEW k, hub' = k, Typed',
         UNCHANGED <<conf, child, shown, bindings, table, refusals, told, unheard>>,
         NEW made, Replaced(made, Below),
         k.link => k.reported, UpOf(k) => k.session = "up",
         k.session = "up" => hub.session = "up",
         UpOf(k) # Up => Below = {} /\ \A c \in Listeners : Listening(c)',
         k.phase = "Ready" => hub.phase = "Ready" \/ Below = {},
         \A f \in Below : f.op = "ready" =>
           k.link /\ k.session = "up" /\ \A g \in Range(made) : g.op # "open",
         \A f \in Range(made) : f.op # "ready" /\ ChildCallOK(f)' /\ HubCallOK(f)'
  PROVE  IInv'
<1>1. Top = {h} /\ On = {h} \cup Below /\ Below \subseteq On' /\ On' = Range(made) \cup Below
      /\ \A f \in Below : f.op \notin News
  BY DEF Runs, Replaced
<1>2. Up' = UpOf(k) /\ hub' = k
      /\ UNCHANGED <<conf, child, shown, bindings, table, refusals, told, unheard>>
  BY DEF Up, UpOf
<1>3. HubOK' /\ Typed' /\ Stacked(calls')
  BY <1>2 DEF HubOK, Replaced
<1>4. ASSUME NEW f \in Below PROVE ChildCallOK(f)' /\ HubCallOK(f)'
  <2>1. ChildCallOK(f) /\ HubCallOK(f) /\ f.op \notin News /\ f \in On
    BY <1>1 DEF IInv, CallsOK
  <2>2. Up' = Up
    BY <1>2
  <2>3. ChildCallOK(f)'
    BY <1>2, <2>1, <2>2 DEF ChildCallOK, Carried, Up, News
  <2>4. f.op = "ready" => \A g \in On' : g.op # "open"
    BY <1>1, <2>1 DEF HubCallOK
  <2>5. HubCallOK(f)'
    BY <1>2, <2>1, <2>4 DEF HubCallOK, Bound
  <2> QED
    BY <2>3, <2>5
<1>5. CallsOK'
  BY <1>1, <1>4 DEF CallsOK
<1>6. ASSUME NEW c \in Child PROVE ChildOK(c)'
  <2>1. ChildOK(c) /\ child[c] \in ChildLink
    BY DEF IInv, Typed
  <2>2. ASSUME NEW op, Pending(op, c) PROVE Pending(op, c)'
    BY <1>1, <2>2, HubAssumption DEF Pending
  <2>3. /\ \A op : ~Atop(op, c)
        /\ \A v : [op |-> "edge", about |-> c, value |-> v] \notin Top
        /\ \A v : [op |-> "report", about |-> c, value |-> v] \notin Top
    BY <1>1, HubAssumption DEF Atop
  <2>4. Listening(c) => Listening(c)'
    BY <1>1 DEF Listening
  <2>5. Resending(c) => Resending(c)'
    BY <1>1 DEF Resending
  <2>6. /\ IsConnected(child[c]) = (child[c].attached /\ Up /\ child[c].peer # NoPeer)
        /\ IsConnected(child[c])' = (child[c].attached /\ Up' /\ child[c].peer # NoPeer)
    BY <1>2 DEF IsConnected, Up
  <2>7. CASE UpOf(k) = Up
    <3>1. IsConnected(child[c])' = IsConnected(child[c])
      BY <1>2, <2>6, <2>7
    <3>2. OpenFollows(c)'
      BY <1>2, <2>1, <2>4, <3>1 DEF ChildOK, OpenFollows
    <3>3. ReportedFollows(c)'
      BY <1>2, <2>1, <2>2, <2>3, <3>1 DEF ChildOK, ReportedFollows
    <3> QED
      BY <1>2, <2>1, <2>2, <2>3, <3>2, <3>3, <2>5
      DEF ChildOK, Applied, AttachedAsWanted, UpFollows, ShownFollows, PhaseFollows,
          BoundAsPicked, RoutedAsBound, Routed
  <2>8. CASE UpOf(k) # Up
    <3>1. On = {h} /\ h.op # "signal" /\ \A op : ~Pending(op, c)
      BY <1>1, <2>8, HubAssumption DEF Pending
    <3>2. child[c].open = IsConnected(child[c])
      BY <2>1, <3>1 DEF ChildOK, OpenFollows, Listening
    <3>3. child[c].reported = (child[c].wanted /\ IsConnected(child[c]))
      BY <2>1, <2>3, <3>1, <3>2 DEF ChildOK, ReportedFollows
    <3>4. OpenFollows(c)'
      <4>1. CASE child[c].attached
        BY <2>8, <4>1 DEF OpenFollows, Listeners
      <4>2. CASE ~child[c].attached
        BY <1>2, <2>6, <3>2, <4>2 DEF OpenFollows
      <4> QED
        BY <4>1, <4>2
    <3>5. ReportedFollows(c)'
      BY <1>2, <3>2, <3>3 DEF ReportedFollows
    <3> QED
      BY <1>2, <2>1, <2>2, <2>3, <3>4, <3>5, <2>5
      DEF ChildOK, Applied, AttachedAsWanted, UpFollows, ShownFollows, PhaseFollows,
          BoundAsPicked, RoutedAsBound, Routed
  <2> QED
    BY <2>7, <2>8
<1> QED
  BY <1>3, <1>5, <1>6 DEF IInv

\* What a call of the hub's connection finds.
LEMMA HubCallRuns ==
  ASSUME IInv, NEW h, calls # <<>>, h = Head(calls), h.about = Hub,
         h.op \in {"dial", "open", "hubUpDone", "ready", "downDone"}
  PROVE  /\ Runs(h) /\ Stacked(calls) /\ HubCallOK(h) /\ ~unheard
         /\ h.op = "ready" => Below = {}
         /\ \A f \in Below : f.op = "ready" => hub.link /\ hub.session = "up"
         /\ \A f \in Below : f.op = "ready" => h.op # "open"
<1>1. Runs(h) /\ Stacked(calls) /\ HubCallOK(h)
  BY CallRuns
<1>2. \A f \in Below : HubCallOK(f)
  BY <1>1 DEF IInv, CallsOK, Runs
<1> QED
  BY <1>1, <1>2 DEF HubCallOK, Runs

\* The calls that tell the children that the hub's phase has changed.
LEMMA PhaseSignal ==
  ASSUME NEW p, NEW q, NEW made, made = (IF p = q THEN <<>> ELSE Loop("signal", Listeners))
  PROVE  /\ Made(made)
         /\ Range(made) \subseteq {LoopOf("signal", Listeners)}
         /\ p # q /\ Listeners # {} => LoopOf("signal", Listeners) \in Range(made)
<1>1. "signal" \in Loops /\ Listeners \in SUBSET Child
  BY DEF Loops, Listeners
<1> QED
  BY <1>1, MadeLoopOnly, MadeOne

\* A call of the hub's connection that sets its phase.
LEMMA SetPhaseActs ==
  ASSUME IInv, NEW h, calls # <<>>, h = Head(calls), h.about = Hub,
         h.op \in {"open", "hubUpDone", "downDone", "ready"}, NEW p, SetPhase(p),
         p \in {"Disconnected", "Connecting", "NegotiatingBtp", "Ready"},
         UNCHANGED <<conf, child, shown, bindings, table, refusals, told, unheard>>,
         spent' \in [edit : 0 .. MaxEdit, fault : 0 .. MaxFault],
         p # hub.phase => hub.phase # "Ready" \/ ~hub.link,
         p = "Ready" => hub.phase = "Ready" \/ h.op = "ready"
  PROVE  IInv'
<1> DEFINE k == [hub EXCEPT !.phase = p]
           made == IF p = hub.phase THEN <<>> ELSE Loop("signal", Listeners)
<1>1. hub' = k /\ Return(made)
  BY DEF SetPhase
<1>2. /\ Runs(h) /\ Stacked(calls) /\ HubCallOK(h) /\ ~unheard
      /\ h.op = "ready" => Below = {}
      /\ \A f \in Below : f.op = "ready" => hub.link /\ hub.session = "up"
  BY HubCallRuns
<1>3. /\ k \in HubConnection /\ k.phase = p /\ k.link = hub.link
      /\ k.session = hub.session /\ k.reported = hub.reported
  BY DEF IInv, Typed, HubConnection
<1>4. Typed'
  BY <1>1, <1>3 DEF IInv, Typed
<1>5. /\ Made(made) /\ Range(made) \subseteq {LoopOf("signal", Listeners)}
      /\ p # hub.phase /\ Listeners # {} => LoopOf("signal", Listeners) \in Range(made)
  BY PhaseSignal
<1> HIDE DEF k, made
<1>6. Replaced(made, Below)
  BY <1>1, <1>2, <1>5, Returned
<1>7. HubOK
  BY DEF IInv
<1>8. UpOf(k) # Up => Below = {} /\ \A c \in Listeners : Listening(c)'
  <2> SUFFICES ASSUME UpOf(k) # Up PROVE Below = {} /\ \A c \in Listeners : Listening(c)'
    OBVIOUS
  <2>1. p # hub.phase /\ hub.link /\ p = "Ready"
    BY <1>3 DEF UpOf, Up
  <2>2. h.op = "ready"
    BY <2>1
  <2>3. ASSUME NEW c \in Listeners PROVE Listening(c)'
    <3>1. LoopOf("signal", Listeners) \in On'
      BY <1>5, <1>6, <2>1 DEF Replaced
    <3>2. /\ LoopOf("signal", Listeners).op = "signal"
          /\ c \in LoopOf("signal", Listeners).rest
      BY DEF LoopOf
    <3> QED
      BY <3>1, <3>2 DEF Listening
  <2> QED
    BY <1>2, <2>2, <2>3
<1>9. UpOf(k) => k.session = "up"
  <2>1. h.op = "ready" => hub.session = "up"
    BY <1>2 DEF HubCallOK
  <2> QED
    BY <1>3, <1>7, <2>1 DEF UpOf, HubOK, Up
<1>10. \A f \in Range(made) :
         f.op # "ready" /\ f.op # "open" /\ ChildCallOK(f)' /\ HubCallOK(f)'
  BY <1>5 DEF LoopOf, ChildCallOK, HubCallOK
<1>11. k.link => k.reported
  BY <1>3, <1>7 DEF HubOK
<1>12. \A f \in Below : f.op = "ready" =>
         k.link /\ k.session = "up" /\ \A g \in Range(made) : g.op # "open"
  BY <1>2, <1>3, <1>10
<1>13. k.phase = "Ready" => hub.phase = "Ready" \/ Below = {}
  BY <1>2, <1>3
<1> QED
  BY <1>1, <1>2, <1>3, <1>4, <1>6, <1>8, <1>9, <1>10, <1>11, <1>12, <1>13, HubActs

\* The ends of reportConnected() of the hub, a dial that fails, and the end of
\* an answered HELLO.
LEMMA HubPhaseActs ==
  ASSUME IInv, OpenFails \/ HubUpDone \/ HubDownDone \/ BecomeReady
  PROVE  IInv'
<1> SUFFICES ASSUME NEW h, h = Head(calls) PROVE IInv'
  OBVIOUS
<1>1. /\ calls # <<>> /\ h.op \in {"open", "hubUpDone", "downDone", "ready"}
      /\ UNCHANGED <<conf, child, shown, bindings, table, refusals, told, unheard>>
  BY DEF OpenFails, HubUpDone, HubDownDone, BecomeReady, Running
<1>2. h.about = Hub
  <2>1. h \in Frame
    BY <1>1, CallRuns DEF Runs
  <2> QED
    BY <1>1, <2>1, FrameKinds DEF HubDownDone, OpenFails, HubUpDone, BecomeReady, Running
<1>3. HubCallOK(h) /\ hub \in HubConnection /\ HubOK
      /\ spent \in [edit : 0 .. MaxEdit, fault : 0 .. MaxFault]
  BY <1>1, <1>2, HubCallRuns DEF IInv, Typed
<1>4. CASE OpenFails
  <2>1. SetPhase("Disconnected") /\ h.op = "open" /\ hub.phase # "Ready"
    BY <1>3, <1>4 DEF OpenFails, Running, HubCallOK
  <2>2. spent' \in [edit : 0 .. MaxEdit, fault : 0 .. MaxFault]
    BY <1>3, <1>4, BoundAssumption DEF OpenFails
  <2> QED
    BY <1>1, <1>2, <2>1, <2>2, SetPhaseActs
<1>5. CASE HubUpDone
  <2> DEFINE p == IF hub.reported /\ hub.phase # "Ready" THEN "NegotiatingBtp" ELSE hub.phase
  <2>1. SetPhase(p) /\ h.op = "hubUpDone" /\ spent' = spent
    BY <1>5 DEF HubUpDone, Running
  <2>2. p \in {"Disconnected", "Connecting", "NegotiatingBtp", "Ready"}
    BY <1>3 DEF HubConnection
  <2>3. /\ p # hub.phase => hub.phase # "Ready" \/ ~hub.link
        /\ p = "Ready" => hub.phase = "Ready"
    OBVIOUS
  <2> HIDE DEF p
  <2> QED
    BY <1>1, <1>2, <1>3, <2>1, <2>2, <2>3, SetPhaseActs
<1>6. CASE HubDownDone
  <2> DEFINE p == IF hub.reported THEN hub.phase ELSE "Disconnected"
  <2>1. SetPhase(p) /\ h.op = "downDone" /\ spent' = spent
    BY <1>6 DEF HubDownDone, Running
  <2>2. p \in {"Disconnected", "Connecting", "NegotiatingBtp", "Ready"}
    BY <1>3 DEF HubConnection
  <2>3. /\ p # hub.phase => hub.phase # "Ready" \/ ~hub.link
        /\ p = "Ready" => hub.phase = "Ready"
    BY <1>3 DEF HubOK
  <2> HIDE DEF p
  <2> QED
    BY <1>1, <1>2, <1>3, <2>1, <2>2, <2>3, SetPhaseActs
<1>7. CASE BecomeReady
  <2> DEFINE p == IF hub.phase = "NegotiatingBtp" THEN "Ready" ELSE hub.phase
  <2>1. SetPhase(p) /\ h.op = "ready" /\ spent' = spent
    BY <1>7 DEF BecomeReady, Running
  <2>2. p \in {"Disconnected", "Connecting", "NegotiatingBtp", "Ready"}
    BY <1>3 DEF HubConnection
  <2>3. p # hub.phase => hub.phase # "Ready" \/ ~hub.link
    OBVIOUS
  <2> HIDE DEF p
  <2> QED
    BY <1>1, <1>2, <1>3, <2>1, <2>2, <2>3, SetPhaseActs
<1> QED
  BY <1>4, <1>5, <1>6, <1>7

\* A dial, of a hub whose link is down.
LEMMA DialActs ==
  ASSUME IInv, Dial
  PROVE  IInv'
<1> SUFFICES ASSUME NEW h, h = Head(calls) PROVE IInv'
  OBVIOUS
<1>1. /\ calls # <<>> /\ h.op = "dial"
      /\ UNCHANGED <<conf, child, shown, bindings, table, refusals, told, unheard, spent>>
  BY DEF Dial, Running
<1>2. h.about = Hub
  <2>1. h \in Frame
    BY <1>1, CallRuns DEF Runs
  <2> QED
    BY <1>1, <2>1, FrameKinds
<1>3. /\ HubCallOK(h) /\ hub \in HubConnection /\ HubOK /\ Runs(h) /\ Stacked(calls) /\ ~unheard
      /\ \A f \in Below : f.op = "ready" => hub.link /\ hub.session = "up"
  BY <1>1, <1>2, HubCallRuns DEF IInv, Typed
<1>4. CASE hub.link
  <2>1. Return(<<>>) /\ hub' = hub
    BY <1>4 DEF Dial
  <2>2. Replaced(<<>>, Below) /\ Range(<<>>) = {}
    BY <1>1, <1>3, <2>1, MadeOne, Returned
  <2>3. Typed' /\ UpOf(hub) = Up
    BY <1>1, <2>1 DEF IInv, Typed, UpOf, Up
  <2> QED
    BY <1>1, <1>2, <1>3, <2>1, <2>2, <2>3, HubActs DEF HubOK
<1>5. CASE ~hub.link
  <2> DEFINE k == [hub EXCEPT !.phase = "Connecting"]
             s == IF hub.phase = "Connecting" THEN <<>> ELSE Loop("signal", Listeners)
             f == [op |-> "open", about |-> Hub]
             made == s \o <<f>>
  <2>1. hub' = k /\ Return(made)
    BY <1>5 DEF Dial, Call
  <2>2. Made(s) /\ Range(s) \subseteq {LoopOf("signal", Listeners)}
    BY PhaseSignal
  <2>3. Plain(f)
    BY CallsAreFrames DEF Plain, News
  <2> HIDE DEF s
  <2>4. Made(made) /\ Range(made) \subseteq {LoopOf("signal", Listeners), f}
    <3> HIDE DEF f
    <3> QED
      BY <2>2, <2>3, MadeMore
  <2>5. /\ k \in HubConnection /\ k.phase = "Connecting" /\ ~k.link
        /\ k.session = hub.session /\ k.reported = hub.reported
    BY <1>3, <1>5 DEF HubConnection
  <2> HIDE DEF made, k
  <2>6. Replaced(made, Below)
    BY <1>1, <1>3, <2>1, <2>4, Returned
  <2>7. Typed' /\ UpOf(k) = Up /\ ~UpOf(k)
    BY <1>1, <1>5, <2>1, <2>5 DEF IInv, Typed, UpOf, Up
  <2>8. \A g \in Range(made) : g.op # "ready" /\ ChildCallOK(g)' /\ HubCallOK(g)'
    BY <1>1, <1>3, <2>1, <2>4, <2>5 DEF LoopOf, f, ChildCallOK, HubCallOK
  <2> QED
    BY <1>1, <1>2, <1>3, <1>5, <2>1, <2>5, <2>6, <2>7, <2>8, HubActs
<1> QED
  BY <1>4, <1>5

\* A dial that succeeds.
LEMMA OpenActs ==
  ASSUME IInv, OpenSucceeds
  PROVE  IInv'
<1> SUFFICES ASSUME NEW h, h = Head(calls) PROVE IInv'
  OBVIOUS
<1>1. /\ calls # <<>> /\ h.op = "open"
      /\ UNCHANGED <<conf, child, shown, bindings, table, refusals, told, unheard, spent>>
  BY DEF OpenSucceeds, Running
<1>2. h.about = Hub
  <2>1. h \in Frame
    BY <1>1, CallRuns DEF Runs
  <2> QED
    BY <1>1, <2>1, FrameKinds
<1>3. /\ hub.phase # "Ready" /\ hub \in HubConnection /\ Runs(h) /\ Stacked(calls) /\ ~unheard
      /\ \A f \in Below : f.op # "ready"
  BY <1>1, <1>2, HubCallRuns DEF IInv, Typed, HubCallOK
<1> DEFINE k == [hub EXCEPT !.link = TRUE, !.session = "hello", !.reported = TRUE]
           first == [op |-> "report", about |-> Hub, value |-> TRUE]
           last == [op |-> "hubUpDone", about |-> Hub]
           s == <<first>> \o Loop("signal", Listeners)
           made == s \o <<last>>
<1>4. hub' = k /\ Return(made)
  BY DEF OpenSucceeds, Call, CallWith
<1>5. first \in Frame /\ first.op # "ready" /\ Plain(last)
  BY CallsAreFrames DEF Plain, News
<1>6. /\ k \in HubConnection /\ k.phase = hub.phase /\ k.link /\ k.reported
      /\ k.session = "hello"
  BY <1>3 DEF HubConnection
<1>7. Made(made) /\ Range(made) \subseteq {first, LoopOf("signal", Listeners), last}
  <2> HIDE DEF first, last
  <2>1. Made(<<first>>) /\ Range(<<first>>) = {first}
    BY <1>5, MadeOne
  <2>2. "signal" \in Loops /\ Listeners \in SUBSET Child
    BY DEF Loops, Listeners
  <2>3. Made(s) /\ Range(s) \subseteq {first, LoopOf("signal", Listeners)}
    BY <2>1, <2>2, MadeLoop
  <2> HIDE DEF s
  <2> QED
    BY <1>5, <2>3, MadeMore
<1> HIDE DEF made, k, s
<1>8. Replaced(made, Below)
  BY <1>1, <1>3, <1>4, <1>7, Returned
<1>9. Typed' /\ UpOf(k) = Up /\ ~UpOf(k)
  BY <1>1, <1>3, <1>4, <1>6 DEF IInv, Typed, UpOf, Up
<1>10. \A g \in Range(made) : g.op # "ready" /\ ChildCallOK(g)' /\ HubCallOK(g)'
  BY <1>1, <1>3, <1>7, HubAssumption DEF LoopOf, first, last, ChildCallOK, HubCallOK
<1> QED
  BY <1>1, <1>2, <1>3, <1>4, <1>6, <1>8, <1>9, <1>10, HubActs

-----------------------------------------------------------------------------
(* Events of the user and of the wire. *)

\* What holds of a child when no call is under way.
Settled(c) ==
  /\ child[c].wanted = (conf[c] # NoPeer) /\ child[c].peer = conf[c]
  /\ child[c].attached = child[c].wanted
  /\ ~child[c].attached => ~child[c].open
  /\ child[c].open # IsConnected(child[c]) => unheard /\ ~hub.link
  /\ child[c].up = child[c].open
  /\ child[c].reported # (child[c].wanted /\ IsConnected(child[c])) =>
       child[c].open # IsConnected(child[c])
  /\ shown[c] = child[c].reported
  /\ child[c].phase = Want(child[c])
  /\ conf[c] # NoPeer => bindings[c] = conf[c]
  /\ hub.session = "up" /\ ~unheard /\ bindings[c] # NoPeer => Routed(c, bindings[c])

\* Nothing is under way.
LEMMA NothingOn ==
  ASSUME calls = <<>>
  PROVE  On = {} /\ Top = {}
BY MadeOne DEF On, Top

\* The invariant leaves nothing else to a moment of rest.
LEMMA RestIsSettled ==
  ASSUME IInv, calls = <<>>, NEW c \in Child
  PROVE  Settled(c)
<1>1. On = {} /\ Top = {}
  BY NothingOn
<1>2. ChildOK(c) /\ child[c] \in ChildLink
  BY DEF IInv, Typed
<1>3. /\ \A op : ~Pending(op, c) /\ ~Atop(op, c)
      /\ ~Listening(c) /\ ~Resending(c)
  BY <1>1 DEF Pending, Atop, Listening, Resending
<1>4. /\ child[c].wanted = (conf[c] # NoPeer) /\ child[c].peer = conf[c]
      /\ child[c].attached = child[c].wanted
      /\ ~child[c].attached => ~child[c].open
  BY <1>2, <1>3 DEF ChildOK, Applied, AttachedAsWanted, ChildLink
<1>5. /\ child[c].open # IsConnected(child[c]) => unheard /\ ~hub.link
      /\ child[c].up = child[c].open
      /\ child[c].reported # (child[c].wanted /\ IsConnected(child[c])) =>
           child[c].open # IsConnected(child[c])
  BY <1>1, <1>2, <1>3 DEF ChildOK, OpenFollows, UpFollows, ReportedFollows
<1>6. shown[c] = child[c].reported /\ child[c].phase = Want(child[c])
  BY <1>1, <1>2, <1>3 DEF ChildOK, ShownFollows, PhaseFollows, Want
<1>7. /\ conf[c] # NoPeer => bindings[c] = conf[c]
      /\ hub.session = "up" /\ ~unheard /\ bindings[c] # NoPeer => Routed(c, bindings[c])
  BY <1>2, <1>3 DEF ChildOK, BoundAsPicked, RoutedAsBound
<1> QED
  BY <1>4, <1>5, <1>6, <1>7 DEF Settled

\* A child that is settled after a step keeps the invariant, whatever has begun.
LEMMA SettledIsOK ==
  ASSUME NEW c \in Child, Settled(c)'
  PROVE  ChildOK(c)'
BY DEF Settled, Want, ChildOK, Applied, AttachedAsWanted, OpenFollows, UpFollows,
       ReportedFollows, ShownFollows, PhaseFollows, BoundAsPicked, RoutedAsBound

\* The calls an event begins with.
Begun(s) ==
  /\ Stacked(calls') /\ On' = Range(s) /\ Top' \subseteq On'
  /\ s # <<>> => Top' = {Head(s)}

\* They make a stack when there was none.
LEMMA Begins ==
  ASSUME NEW s, Made(s), calls' = s
  PROVE  Begun(s)
<1>1. s \in Seq(Frame)
  BY DEF Made
<1>2. <<>> \in Seq(Frame) /\ \A i \in 1 .. Len(<<>>) : FALSE
  BY EmptySeq
<1>3. Stacked(s \o <<>>)
  BY <1>2, Joined, EmptySeq
<1>4. s \o <<>> = s
  BY <1>1, ConcatEmptySeq
<1>5. Stacked(s)
  BY <1>3, <1>4
<1>6. s # <<>> => Head(s) \in Range(s)
  BY <1>5, TopIsOn
<1> QED
  BY <1>5, <1>6 DEF Begun, On, Top

\* An event that changes nothing a child's invariant reads.
LEMMA QuietEvent ==
  ASSUME IInv, calls = <<>>, NEW s, Begun(s), Typed',
         UNCHANGED <<conf, hub, child, shown, bindings, unheard>>,
         \A d \in Child, r \in Peer : Routed(d, r) => Routed(d, r)',
         \A f \in Range(s) : ChildCallOK(f)' /\ HubCallOK(f)'
  PROVE  IInv'
<1>1. ASSUME NEW d \in Child PROVE ChildOK(d)'
  <2>1. Settled(d) /\ bindings[d] \in Peer
    BY RestIsSettled DEF IInv, Typed
  <2>2. Settled(d)'
    BY <2>1 DEF Settled, Want, IsConnected
  <2> QED
    BY <2>2, SettledIsOK
<1>2. HubOK' /\ CallsOK' /\ Stacked(calls')
  BY DEF IInv, HubOK, Up, CallsOK, Begun
<1> QED
  BY <1>1, <1>2 DEF IInv

\* The timers.
LEMMA TickActs ==
  ASSUME IInv, RetryTick \/ \E c \in Child : ChildTick(c)
  PROVE  IInv'
<1>1. /\ calls = <<>>
      /\ UNCHANGED <<conf, hub, child, shown, bindings, table, refusals, told, unheard, spent>>
  BY DEF RetryTick, ChildTick, AtRest
<1>2. Typed' /\ \A d \in Child, r \in Peer : Routed(d, r) => Routed(d, r)'
  BY <1>1 DEF IInv, Typed, Routed
<1>3. CASE RetryTick
  <2> DEFINE f == [op |-> "dial", about |-> Hub]
  <2>1. ~unheard /\ (calls' = <<>> \/ calls' = <<f>>)
    BY <1>3 DEF RetryTick, Call
  <2>2. f \in Frame /\ f.op # "ready"
    BY CallsAreFrames
  <2>3. ChildCallOK(f)' /\ HubCallOK(f)'
    BY <1>1, <2>1 DEF ChildCallOK, HubCallOK
  <2> HIDE DEF f
  <2>4. PICK s : Made(s) /\ Range(s) \subseteq {f} /\ calls' = s
    BY <2>1, <2>2, MadeOne
  <2>5. Begun(s)
    BY <2>4, Begins
  <2> QED
    BY <1>1, <1>2, <2>3, <2>4, <2>5, QuietEvent
<1>4. ASSUME NEW c \in Child, ChildTick(c) PROVE IInv'
  <2> DEFINE f == [op |-> "sync", about |-> c]
             s == <<f>>
  <2>1. calls' = s
    BY <1>4 DEF ChildTick, Call
  <2>2. f \in Frame /\ f.op # "ready"
    BY CallsAreFrames DEF ChildOps
  <2>3. ChildCallOK(f)' /\ HubCallOK(f)'
    BY DEF ChildCallOK, HubCallOK
  <2> HIDE DEF f
  <2>4. Made(s) /\ Range(s) = {f}
    BY <2>2, MadeOne
  <2> HIDE DEF s
  <2>5. Begun(s)
    BY <2>1, <2>4, Begins
  <2> QED
    BY <1>1, <1>2, <2>3, <2>4, <2>5, QuietEvent
<1> QED
  BY <1>3, <1>4

\* The user is told of a refusal.
LEMMA RefusalActs ==
  ASSUME IInv, NEW b \in refusals, RefusalArrives(b)
  PROVE  IInv'
<1>1. /\ calls = <<>> /\ calls' = <<>>
      /\ UNCHANGED <<conf, hub, child, shown, bindings, table, unheard, spent>>
      /\ refusals' = refusals \ {b} /\ told' = told \cup {b}
  BY DEF RefusalArrives, AtRest
<1>2. Typed' /\ \A d \in Child, r \in Peer : Routed(d, r) => Routed(d, r)'
  BY <1>1 DEF IInv, Typed, Routed
<1>3. Begun(<<>>) /\ Range(<<>>) = {}
  BY <1>1, Begins, MadeOne
<1> QED
  BY <1>1, <1>2, <1>3, QuietEvent

\* The user picks a robot.
LEMMA ConfigureActs ==
  ASSUME IInv, NEW c \in Child, NEW r \in Peer, Configure(c, r)
  PROVE  IInv'
<1> DEFINE f == [op |-> "updated", about |-> c]
           s == <<f>>
<1>1. /\ calls = <<>> /\ calls' = s /\ conf' = [conf EXCEPT ![c] = r]
      /\ UNCHANGED <<hub, child, shown, bindings, table, refusals, told, unheard>>
      /\ spent.edit < MaxEdit /\ spent' = [spent EXCEPT !.edit = @ + 1]
  BY DEF Configure, AtRest, Call
<1>2. Typed'
  <2>1. spent' \in [edit : 0 .. MaxEdit, fault : 0 .. MaxFault]
    BY <1>1, BoundAssumption DEF IInv, Typed
  <2> QED
    BY <1>1, <2>1 DEF IInv, Typed
<1>3. f \in Frame /\ f.op # "ready" /\ ChildCallOK(f)' /\ HubCallOK(f)'
  BY CallsAreFrames, HubAssumption DEF ChildCallOK, HubCallOK
<1>4. Made(s) /\ Range(s) = {f} /\ s # <<>> /\ Head(s) = f
  <2> HIDE DEF f
  <2> QED
    BY <1>3, MadeOne
<1> HIDE DEF s
<1>5. Begun(s) /\ Top' = {f}
  BY <1>1, <1>4, Begins DEF Begun
<1>6. ASSUME NEW d \in Child PROVE ChildOK(d)'
  <2>1. Settled(d)
    BY <1>1, RestIsSettled
  <2>2. conf'[d] = IF d = c THEN r ELSE conf[d]
    BY <1>1 DEF IInv, Typed
  <2>3. CASE d # c
    <3>1. Settled(d)'
      BY <1>1, <2>1, <2>2, <2>3 DEF Settled, Want, IsConnected, Routed
    <3> QED
      BY <3>1, SettledIsOK
  <2>4. CASE d = c
    <3>1. Atop("updated", d)'
      BY <1>5, <2>4 DEF Atop, f
    <3>2. Applied(d)' /\ BoundAsPicked(d)'
      BY <3>1 DEF Applied, BoundAsPicked
    <3>3. /\ AttachedAsWanted(d)' /\ OpenFollows(d)' /\ UpFollows(d)' /\ ReportedFollows(d)'
          /\ ShownFollows(d)' /\ PhaseFollows(d)' /\ RoutedAsBound(d)'
      BY <1>1, <2>1 DEF Settled, Want, IsConnected, Routed, AttachedAsWanted, OpenFollows,
         UpFollows, ReportedFollows, ShownFollows, PhaseFollows, RoutedAsBound
    <3> QED
      BY <3>2, <3>3 DEF ChildOK
  <2> QED
    BY <2>3, <2>4
<1>7. HubOK' /\ CallsOK' /\ Stacked(calls')
  BY <1>1, <1>3, <1>4, <1>5 DEF IInv, HubOK, Up, CallsOK, Begun
<1> QED
  BY <1>2, <1>6, <1>7 DEF IInv

\* The dongle reboots or goes.
LEMMA GoesActs ==
  ASSUME IInv, NEW link \in BOOLEAN, DongleGoes(link)
  PROVE  IInv'
<1>1. /\ calls = <<>> /\ calls' = <<>> /\ hub.link /\ ~unheard /\ unheard'
      /\ hub' = [hub EXCEPT !.link = link]
      /\ table' \in {table, [c \in Child |-> NoPeer]} /\ unheard' = TRUE
      /\ UNCHANGED <<conf, child, shown, bindings, refusals, told>>
      /\ spent.fault < MaxFault /\ spent' = [spent EXCEPT !.fault = @ + 1]
  BY DEF DongleGoes, AtRest
<1>2. /\ hub' \in HubConnection /\ hub'.link = link /\ hub'.phase = hub.phase
      /\ hub'.session = hub.session /\ hub'.reported = hub.reported
  BY <1>1 DEF IInv, Typed, HubConnection
<1>3. Typed'
  <2>1. spent' \in [edit : 0 .. MaxEdit, fault : 0 .. MaxFault]
    BY <1>1, BoundAssumption DEF IInv, Typed
  <2>2. table' \in [Child -> Peer]
    BY <1>1 DEF IInv, Typed, Peer
  <2> QED
    BY <1>1, <1>2, <2>1, <2>2 DEF IInv, Typed
<1>4. Begun(<<>>) /\ Range(<<>>) = {}
  BY <1>1, Begins, MadeOne
<1>5. ASSUME NEW d \in Child PROVE ChildOK(d)'
  <2>1. Settled(d)
    BY <1>1, RestIsSettled
  <2>2. child[d].open = IsConnected(child[d])
        /\ child[d].reported = (child[d].wanted /\ IsConnected(child[d]))
    BY <1>1, <2>1 DEF Settled
  <2>3. IsConnected(child[d])' = (link /\ IsConnected(child[d]))
    BY <1>1, <1>2 DEF IsConnected
  <2>4. child[d] \in ChildLink /\ hub \in HubConnection
    BY DEF IInv, Typed
  <2>5. /\ child[d].open # IsConnected(child[d])' => unheard' /\ ~hub'.link
        /\ child[d].reported # (child[d].wanted /\ IsConnected(child[d])') =>
             child[d].open # IsConnected(child[d])'
    BY <1>1, <1>2, <2>2, <2>3, <2>4 DEF ChildLink, HubConnection
  <2>6. Settled(d)'
    BY <1>1, <1>2, <2>1, <2>5 DEF Settled, Want
  <2> QED
    BY <2>6, SettledIsOK
<1>6. HubOK'
  BY <1>1, <1>2 DEF IInv, HubOK, Up
<1>7. CallsOK' /\ Stacked(calls')
  BY <1>4 DEF CallsOK, Begun
<1> QED
  BY <1>3, <1>5, <1>6, <1>7 DEF IInv

\* The hub hears that its dongle is gone.
LEMMA HearActs ==
  ASSUME IInv, HearOfIt
  PROVE  IInv'
<1> DEFINE first == [op |-> "report", about |-> Hub, value |-> FALSE]
           last == [op |-> "downDone", about |-> Hub]
           loop == LoopOf("signal", Listeners)
           b == <<first>> \o Loop("signal", Listeners)
           s == b \o <<last>>
<1>1. /\ calls = <<>> /\ calls' = s /\ unheard' = FALSE
      /\ hub' = [hub EXCEPT !.link = FALSE, !.session = "none", !.reported = FALSE]
      /\ refusals' = {} /\ told' = {}
      /\ UNCHANGED <<conf, child, shown, bindings, table, spent>>
  BY DEF HearOfIt, AtRest, Call, CallWith
<1>2. /\ hub' \in HubConnection /\ hub'.link = FALSE /\ hub'.session = "none"
  BY <1>1 DEF IInv, Typed, HubConnection
<1>3. Typed'
  BY <1>1, <1>2 DEF IInv, Typed
<1>4. first \in Frame /\ first.op # "ready" /\ Plain(last)
  BY CallsAreFrames DEF Plain, News
<1>5. /\ Made(s) /\ Range(s) \subseteq {first, loop, last}
      /\ Listeners # {} => loop \in Range(s)
  <2> HIDE DEF first, last
  <2>1. Made(<<first>>) /\ Range(<<first>>) = {first}
    BY <1>4, MadeOne
  <2>2. "signal" \in Loops /\ Listeners \in SUBSET Child
    BY DEF Loops, Listeners
  <2>3. Made(b) /\ Range(b) = {first} \cup (IF Listeners = {} THEN {} ELSE {loop})
    BY <2>1, <2>2, MadeLoop
  <2> HIDE DEF b, loop
  <2>4. Made(s) /\ Range(s) = Range(b) \cup {last}
    BY <1>4, <2>3, MadeMore
  <2> QED
    BY <2>3, <2>4
<1> HIDE DEF s, b
<1>6. Begun(s)
  BY <1>1, <1>5, Begins
<1>7. ASSUME NEW d \in Child PROVE ChildOK(d)'
  <2>1. Settled(d) /\ child[d] \in ChildLink
    BY <1>1, RestIsSettled DEF IInv, Typed
  <2>2. IsConnected(child[d])' = FALSE
    BY <1>1, <1>2 DEF IsConnected
  <2>3. child[d].open => Listening(d)'
    <3> SUFFICES ASSUME child[d].open PROVE Listening(d)'
      OBVIOUS
    <3>1. d \in Listeners
      BY <2>1 DEF Settled, Listeners
    <3>2. loop \in On' /\ loop.op = "signal" /\ d \in loop.rest
      BY <1>5, <1>6, <3>1 DEF Begun, LoopOf
    <3> QED
      BY <3>2 DEF Listening
  <2>4. child[d].reported => child[d].open
    BY <2>1 DEF Settled, IsConnected, ChildLink
  <2>5. OpenFollows(d)' /\ ReportedFollows(d)'
    BY <1>1, <2>1, <2>2, <2>3, <2>4 DEF OpenFollows, ReportedFollows, ChildLink
  <2>6. /\ Applied(d)' /\ AttachedAsWanted(d)' /\ UpFollows(d)' /\ ShownFollows(d)'
        /\ PhaseFollows(d)' /\ BoundAsPicked(d)' /\ RoutedAsBound(d)'
    BY <1>1, <1>2, <2>1 DEF Settled, Want, Applied, AttachedAsWanted, UpFollows, ShownFollows,
       PhaseFollows, BoundAsPicked, RoutedAsBound
  <2> QED
    BY <2>5, <2>6 DEF ChildOK
<1>8. HubOK'
  BY <1>1, <1>2 DEF HubOK, Up
<1>9. \A f \in Range(s) : ChildCallOK(f)' /\ HubCallOK(f)'
  BY <1>1, <1>5, HubAssumption DEF first, last, LoopOf, ChildCallOK, HubCallOK
<1>10. CallsOK' /\ Stacked(calls')
  BY <1>6, <1>9 DEF CallsOK, Begun
<1> QED
  BY <1>3, <1>7, <1>8, <1>10 DEF IInv

\* The dongle answers a HELLO: the bindings go out, and the phase is the last
\* thing that changes.
LEMMA AnsweredActs ==
  ASSUME IInv, HelloAnswered
  PROVE  IInv'
<1> DEFINE first == LoopOf("resendAll", Bound)
           next == [op |-> "updated", about |-> Hub]
           last == [op |-> "ready", about |-> Hub]
           b == Loop("resendAll", Bound)
           m == b \o <<next>>
           e == <<last>>
<1>1. /\ calls = <<>> /\ calls' = m \o e /\ hub.link /\ hub.session = "hello" /\ ~unheard
      /\ hub' = [hub EXCEPT !.session = "up"]
      /\ UNCHANGED <<conf, child, shown, bindings, table, refusals, told, unheard, spent>>
  BY DEF HelloAnswered, AtRest, Call
<1>2. /\ hub' \in HubConnection /\ hub'.link = hub.link /\ hub'.session = "up"
      /\ hub'.phase = hub.phase /\ hub'.reported = hub.reported
  BY <1>1 DEF IInv, Typed, HubConnection
<1>3. hub.phase # "Ready"
  BY <1>1 DEF IInv, HubOK, Up
<1>4. Typed'
  BY <1>1, <1>2 DEF IInv, Typed
<1>5. Plain(next) /\ last \in Frame /\ last.op = "ready"
  BY CallsAreFrames DEF Plain, News
<1>6. /\ Stacked(calls') /\ On' = Range(b) \cup {next, last}
      /\ Range(b) = IF Bound = {} THEN {} ELSE {first}
  <2> HIDE DEF first, next, last
  <2>1. "resendAll" \in Loops /\ Bound \in SUBSET Child
    BY DEF Loops, Bound
  <2>2. Made(b) /\ Range(b) = IF Bound = {} THEN {} ELSE {first}
    BY <2>1, MadeLoopOnly DEF first
  <2> HIDE DEF b
  <2>3. Made(m) /\ Range(m) = Range(b) \cup {next}
    BY <1>5, <2>2, MadeMore
  <2>4. e \in Seq(Frame) /\ Len(e) = 1 /\ e[1] = last /\ Range(e) = {last}
    BY <1>5, MadeOne
  <2> HIDE DEF m, e
  <2>5. \A i \in 1 .. Len(e) : e[i].op \notin News /\ (e[i].op = "ready" => i = Len(e))
    BY <1>5, <2>4 DEF News
  <2>6. Stacked(m \o e) /\ Range(m \o e) = Range(m) \cup Range(e)
    BY <2>3, <2>4, <2>5, Joined
  <2> QED
    BY <1>1, <2>2, <2>3, <2>4, <2>6 DEF On
<1> HIDE DEF b, m, e
<1>7. ASSUME NEW d \in Child PROVE ChildOK(d)'
  <2>1. Settled(d)
    BY <1>1, RestIsSettled
  <2>2. RoutedAsBound(d)'
    <3>1. bindings[d] # NoPeer => d \in Bound
      BY DEF Bound
    <3>2. d \in Bound => first \in On' /\ first.op = "resendAll" /\ d \in first.rest
      BY <1>6 DEF LoopOf
    <3>3. d \in Bound => Resending(d)'
      BY <3>2 DEF Resending
    <3> QED
      BY <1>1, <3>1, <3>3 DEF RoutedAsBound
  <2>3. IsConnected(child[d])' = IsConnected(child[d])
    BY <1>1, <1>2 DEF IsConnected
  <2>4. /\ Applied(d)' /\ AttachedAsWanted(d)' /\ OpenFollows(d)' /\ UpFollows(d)'
        /\ ReportedFollows(d)' /\ ShownFollows(d)' /\ PhaseFollows(d)' /\ BoundAsPicked(d)'
    BY <1>1, <1>2, <2>1, <2>3 DEF Settled, Want, Applied, AttachedAsWanted, OpenFollows,
       UpFollows, ReportedFollows, ShownFollows, PhaseFollows, BoundAsPicked
  <2> QED
    BY <2>2, <2>4 DEF ChildOK
<1>8. HubOK'
  BY <1>1, <1>2 DEF IInv, HubOK, Up
<1>9. ASSUME NEW f \in On' PROVE ChildCallOK(f)' /\ HubCallOK(f)'
  <2>1. f = first \/ f = next \/ f = last
    BY <1>6, <1>9
  <2>2. \A g \in On' : g.op # "open"
    BY <1>6 DEF LoopOf
  <2>3. CASE f = first
    BY <1>1, <1>2, <1>3, <2>3 DEF LoopOf, ChildCallOK, HubCallOK, Bound
  <2>4. CASE f = next
    BY <1>1, <2>4, HubAssumption DEF ChildCallOK, HubCallOK
  <2>5. CASE f = last
    BY <1>1, <1>2, <2>2, <2>5 DEF ChildCallOK, HubCallOK
  <2> QED
    BY <2>1, <2>3, <2>4, <2>5
<1>10. CallsOK'
  BY <1>9 DEF CallsOK
<1> QED
  BY <1>4, <1>6, <1>7, <1>8, <1>10 DEF IInv

-----------------------------------------------------------------------------
(* The invariant is inductive. *)

\* Nothing is connected and nobody wants to be.
LEMMA InitIInv ==
  ASSUME Init
  PROVE  IInv
<1>1. Typed
  <2> DEFINE k == [wanted |-> FALSE, peer |-> NoPeer, attached |-> FALSE, open |-> FALSE,
                   up |-> FALSE, reported |-> FALSE, phase |-> "Disconnected"]
  <2>1. k \in ChildLink
    BY DEF ChildLink, Peer
  <2>2. child = [c \in Child |-> k]
    BY DEF Init
  <2> HIDE DEF k
  <2>3. child \in [Child -> ChildLink]
    BY <2>1, <2>2
  <2>4. hub \in HubConnection
    BY DEF Init, HubConnection
  <2>5. spent \in [edit : 0 .. MaxEdit, fault : 0 .. MaxFault]
    BY BoundAssumption DEF Init
  <2>6. NoPeer \in Peer
    BY DEF Peer
  <2> QED
    BY <2>3, <2>4, <2>5, <2>6 DEF Init, Typed
<1>2. On = {} /\ Top = {}
  BY NothingOn DEF Init
<1>3. Stacked(calls)
  BY EmptySeq DEF Init, Stacked
<1>4. HubOK /\ CallsOK
  BY <1>2 DEF Init, HubOK, Up, CallsOK
<1>5. ASSUME NEW c \in Child PROVE ChildOK(c)
  BY DEF Init, ChildOK, Applied, AttachedAsWanted, OpenFollows, UpFollows, ReportedFollows,
         ShownFollows, PhaseFollows, BoundAsPicked, RoutedAsBound, IsConnected
<1> QED
  BY <1>1, <1>3, <1>4, <1>5 DEF IInv

\* A call of the stack keeps it.
LEMMA ContinueIInv ==
  ASSUME IInv, Continue
  PROVE  IInv'
<1>1. CASE Signal \/ Attach \/ Close \/ Edge
  BY <1>1, SignalActs, AttachActs, CloseActs, EdgeActs
<1>2. CASE Sync \/ UpDone \/ Settle \/ ReportDown \/ DownDone \/ ConnectVia
  BY <1>2, SyncActs, PhaseActs, ReportDownActs, ConnectViaActs
<1>3. CASE Bind \/ ResendAll
  BY <1>3, BindActs, ResendActs
<1>4. CASE Report \/ Updated \/ Reattach
  BY <1>4, ReportActs, UpdatedActs, ReattachActs
<1>5. CASE Dial \/ OpenSucceeds \/ OpenFails \/ HubUpDone \/ HubDownDone \/ BecomeReady
  BY <1>5, DialActs, OpenActs, HubPhaseActs
<1> QED
  BY <1>1, <1>2, <1>3, <1>4, <1>5 DEF Continue

\* Every step does.
LEMMA NextIInv ==
  ASSUME IInv, [Next]_vars
  PROVE  IInv'
<1>1. CASE Continue
  BY <1>1, ContinueIInv
<1>2. CASE RetryTick \/ \E c \in Child : ChildTick(c)
  BY <1>2, TickActs
<1>3. CASE \E c \in Child : \E r \in Peer : Configure(c, r)
  BY <1>3, ConfigureActs
<1>4. CASE \E b \in refusals : RefusalArrives(b)
  BY <1>4, RefusalActs
<1>5. CASE HelloAnswered
  BY <1>5, AnsweredActs
<1>6. CASE \E link \in BOOLEAN : DongleGoes(link)
  BY <1>6, GoesActs
<1>7. CASE HearOfIt
  BY <1>7, HearActs
<1>8. CASE UNCHANGED vars
  <2>1. UNCHANGED <<conf, hub, child, shown, bindings, table, refusals, told, unheard, calls,
                    spent>>
    BY <1>8 DEF vars
  <2>2. Typed' /\ Stacked(calls') /\ HubOK'
    BY <2>1 DEF IInv, Typed, HubOK, Up
  <2>3. /\ On' = On /\ Top' = Top
    BY <2>1 DEF On, Top
  <2>4. CallsOK'
    BY <2>1, <2>3 DEF IInv, CallsOK, ChildCallOK, HubCallOK, IsConnected, Carried, Bound
  <2>5. ASSUME NEW c \in Child PROVE ChildOK(c)'
    <3>1. ChildOK(c)
      BY DEF IInv
    <3> QED
      BY <2>1, <2>3, <3>1
      DEF ChildOK, Applied, AttachedAsWanted, OpenFollows, UpFollows, ReportedFollows,
          ShownFollows, PhaseFollows, BoundAsPicked, RoutedAsBound, IsConnected, Pending,
          Atop, Listening, Resending, Routed
  <2> QED
    BY <2>2, <2>4, <2>5 DEF IInv
<1> QED
  BY <1>1, <1>2, <1>3, <1>4, <1>5, <1>6, <1>7, <1>8 DEF Next

\* In every behaviour whatever disagrees has a call on the stack that puts it
\* right.
THEOREM Invariant == Spec => []IInv
<1>1. Init => IInv
  BY InitIInv
<1>2. IInv /\ [Next]_vars => IInv'
  BY NextIInv
<1> QED
  BY <1>1, <1>2, PTL DEF Spec

-----------------------------------------------------------------------------
(* What follows from it. *)

\* Every variable keeps its type, and every call has a name.
THEOREM TypeCorrect == Spec => []TypeOK
<1>1. ASSUME IInv PROVE TypeOK
  <2>1. ASSUME NEW i \in DOMAIN calls
        PROVE  calls[i].op \in {"signal", "attach", "close", "edge", "sync", "upDone", "settle",
                                "reportDown", "downDone", "connectVia", "bind", "resendAll",
                                "report", "updated", "reattach", "dial", "open", "hubUpDone",
                                "ready"}
    <3>1. calls \in Seq(Frame) /\ DOMAIN calls = 1 .. Len(calls)
      BY <1>1, LenProperties DEF IInv, Stacked
    <3>2. calls[i] \in Frame
      BY <3>1, ElementOfSeq
    <3>3. calls[i].op \in ChildOps \cup {"updated", "downDone", "dial", "open", "hubUpDone",
                                         "ready", "edge", "report", "signal", "resendAll",
                                         "reattach"}
      BY <3>2, FrameKinds
    <3> QED
      BY <3>3 DEF ChildOps
  <2> QED
    BY <1>1, <2>1 DEF IInv, Typed, TypeOK
<1>2. IInv => TypeOK
  BY <1>1
<1> QED
  BY <1>2, Invariant, PTL

\* A child at rest is what its hub and its configuration make of it.
LEMMA SettledFollows ==
  ASSUME IInv, calls = <<>>, ~unheard, NEW c \in Child
  PROVE  /\ child[c].open = Carried(c) /\ child[c].up = Carried(c)
         /\ child[c].reported = Carried(c) /\ shown[c] = Carried(c)
         /\ child[c].phase = IF Carried(c) THEN "Ready"
                             ELSE IF conf[c] # NoPeer THEN "Connecting" ELSE "Disconnected"
         /\ Carried(c) => Routed(c, conf[c])
<1>1. Settled(c) /\ child[c] \in ChildLink /\ hub \in HubConnection /\ HubOK
  BY RestIsSettled DEF IInv, Typed
<1>2. /\ IsConnected(child[c]) \in BOOLEAN /\ Carried(c) \in BOOLEAN
      /\ IsConnected(child[c]) = Carried(c)
      /\ (child[c].wanted /\ IsConnected(child[c])) = Carried(c)
  BY <1>1 DEF Settled, IsConnected, Carried, ChildLink, HubConnection
<1>3. child[c].open = Carried(c) /\ child[c].reported = Carried(c)
  BY <1>1, <1>2 DEF Settled
<1>4. child[c].up = Carried(c) /\ shown[c] = Carried(c)
  BY <1>1, <1>3 DEF Settled
<1>5. child[c].phase = IF Carried(c) THEN "Ready"
                       ELSE IF conf[c] # NoPeer THEN "Connecting" ELSE "Disconnected"
  BY <1>1, <1>3 DEF Settled, Want
<1>6. Carried(c) => Routed(c, conf[c])
  BY <1>1 DEF Settled, Carried, HubOK, Up
<1> QED
  BY <1>3, <1>4, <1>5, <1>6

\* Once an event is over, the transport, the backend, the connection, the phase
\* and the devices grid of every child agree with its hub.
THEOREM ChildrenFollowHolds == Spec => []ChildrenFollow
<1>1. IInv => ChildrenFollow
  BY SettledFollows DEF ChildrenFollow, AtRest
<1> QED
  BY <1>1, Invariant, PTL

\* A child that is shown as connected is routed to the robot its user picked,
\* or the user is told that it is not.
THEOREM RoutedToItsRobotHolds == Spec => []RoutedToItsRobot
<1>1. ASSUME IInv, AtRest, ~unheard, NEW c \in Child, child[c].reported
      PROVE  table[c] = conf[c] \/ <<c, conf[c]>> \in refusals \cup told
  <2>1. child[c].reported = Carried(c) /\ (Carried(c) => Routed(c, conf[c]))
    BY <1>1, SettledFollows DEF AtRest
  <2> QED
    BY <1>1, <2>1 DEF Routed
<1>2. IInv => RoutedToItsRobot
  BY <1>1 DEF RoutedToItsRobot
<1> QED
  BY <1>2, Invariant, PTL

\* Which calls change what of a child.
LEMMA ChildSteps ==
  ASSUME Typed, Next
  PROVE  /\ \A c \in Child : child'[c].up # child[c].up => Edge /\ Head(calls).about = c
         /\ \A c \in Child : child'[c].reported # child[c].reported =>
              (Sync \/ ReportDown) /\ Head(calls).about = c
         /\ child' # child => UNCHANGED <<conf, hub>>
<1> DEFINE Kept(c) == child'[c].up = child[c].up /\ child'[c].reported = child[c].reported
<1>1. child \in [Child -> ChildLink] /\ hub \in HubConnection
  BY DEF Typed
<1>2. ASSUME NEW x, NEW k \in ChildLink, NEW v, SetOpen(x, k, v),
             x \in Child => k.up = child[x].up /\ k.reported = child[x].reported
      PROVE  \A c \in Child : Kept(c)
  BY <1>1, <1>2 DEF SetOpen, ChildLink
<1>3. ASSUME NEW x, NEW v, child' = [child EXCEPT ![x].phase = v]
      PROVE  \A c \in Child : Kept(c)
  BY <1>1, <1>3 DEF ChildLink
<1>4. CASE UNCHANGED child
  BY <1>4
<1>5. CASE UNCHANGED <<conf, hub>> /\ \A c \in Child : Kept(c)
  BY <1>5
<1>6. CASE Signal
  <2>1. CASE UNCHANGED child
    BY <2>1
  <2>2. CASE \E c \in Head(calls).rest : SetOpen(c, child[c], IsConnected(child[c]))
    <3>1. \A c \in Child : child[c] \in ChildLink
      BY <1>1
    <3>2. PICK c \in Head(calls).rest : SetOpen(c, child[c], IsConnected(child[c]))
      BY <2>2
    <3>3. \A x \in Child : Kept(x)
      BY <1>1, <3>2 DEF SetOpen, ChildLink
    <3> QED
      BY <1>5, <1>6, <3>3 DEF Signal
  <2> QED
    BY <1>6, <2>1, <2>2 DEF Signal
<1>7. CASE Attach \/ Close \/ ConnectVia
  <2>1. UNCHANGED <<conf, hub>>
    BY <1>7 DEF Attach, Close, ConnectVia
  <2>2. ASSUME NEW c \in Child PROVE Kept(c)
    <3>1. child[c] \in ChildLink
      BY <1>1
    <3>2. CASE Attach
      BY <1>1, <3>1, <3>2 DEF Attach, SetOpen, ChildLink
    <3>3. CASE Close
      BY <1>1, <3>1, <3>3 DEF Close, SetOpen, ChildLink
    <3>4. CASE ConnectVia
      <4>1. CASE UNCHANGED child
        BY <4>1
      <4>2. CASE ~UNCHANGED child
        <5> DEFINE x == Head(calls).about
                   k == [child[x] EXCEPT !.wanted = conf[x] # NoPeer, !.peer = conf[x]]
                   now == IF conf[x] = child[x].peer THEN k.open ELSE IsConnected(k)
        <5>1. child' = [child EXCEPT ![x] = [k EXCEPT !.open = now]]
          BY <3>4, <4>2 DEF ConnectVia, SetOpen
        <5> HIDE DEF now
        <5> QED
          BY <1>1, <3>1, <5>1 DEF ChildLink
      <4> QED
        BY <4>1, <4>2
    <3> QED
      BY <1>7, <3>2, <3>3, <3>4
  <2> QED
    BY <1>5, <2>1, <2>2
<1>8. CASE UpDone \/ Settle \/ DownDone
  <2>1. UNCHANGED <<conf, hub>>
    BY <1>8 DEF UpDone, Settle, DownDone
  <2>2. \A c \in Child : Kept(c)
    BY <1>1, <1>3, <1>8 DEF UpDone, Settle, DownDone
  <2> QED
    BY <1>5, <2>1, <2>2
<1>9. CASE Edge
  BY <1>1, <1>9 DEF Edge, ChildLink
<1>10. CASE Sync \/ ReportDown
  <2> DEFINE x == Head(calls).about
  <2>1. UNCHANGED <<conf, hub>> /\ \E v : child' = [child EXCEPT ![x].reported = v]
    BY <1>10 DEF Sync, ReportDown
  <2>2. PICK v : child' = [child EXCEPT ![x].reported = v]
    BY <2>1
  <2>3. /\ \A c \in Child : child'[c].up = child[c].up
        /\ \A c \in Child \ {x} : child'[c] = child[c]
    BY <1>1, <2>2 DEF ChildLink
  <2> QED
    BY <1>10, <2>1, <2>3
<1>11. CASE Bind \/ ResendAll \/ Report \/ Updated \/ Reattach
  BY <1>4, <1>11 DEF Bind, ResendAll, Report, Updated, Reattach
<1>12. CASE Dial \/ OpenSucceeds \/ OpenFails \/ HubUpDone \/ HubDownDone \/ BecomeReady
  BY <1>4, <1>12 DEF Dial, OpenSucceeds, OpenFails, HubUpDone, HubDownDone, BecomeReady
<1>13. CASE ~Continue
  BY <1>4, <1>13
  DEF Next, ChildTick, Configure, RefusalArrives, RetryTick, HelloAnswered, DongleGoes, HearOfIt
<1> QED
  BY <1>6, <1>7, <1>8, <1>9, <1>10, <1>11, <1>12, <1>13 DEF Continue

\* When a child's link comes up, the dongle has been told where to send what it
\* asks for, if it was bound to this robot before.
LEMMA UpIsRouted ==
  ASSUME IInv, Next, NEW c \in Child, child'[c].up, ~child[c].up, ~unheard,
         bindings[c] = child[c].peer
  PROVE  Routed(c, child[c].peer)
<1> SUFFICES ASSUME NEW h, h = Head(calls) PROVE Routed(c, child[c].peer)
  OBVIOUS
<1>1. Edge /\ h.about = c
  BY ChildSteps DEF IInv
<1>2. Handles(h, c) /\ h.op = "edge"
  BY <1>1, HandlerRuns DEF Edge, Running
<1>3. h.value
  BY <1>1, <1>2 DEF Edge, Handles, ChildLink
<1>4. Up /\ child[c].peer # NoPeer
  BY <1>2, <1>3 DEF Handles, ChildCallOK, IsConnected, Up
<1>5. hub.session = "up" /\ \A f \in On : f.op # "resendAll"
  BY <1>4 DEF IInv, HubOK, CallsOK, HubCallOK, Up
<1> QED
  BY <1>2, <1>4, <1>5 DEF Handles, ChildOK, RoutedAsBound, Resending

\* The bindings of a new session go out ahead of the phase that brings the
\* children up.
THEOREM RoutedFromTheStartHolds == Spec => RoutedFromTheStart
<1> DEFINE Step ==
      \A c \in Child :
        child'[c].up /\ ~child[c].up /\ ~unheard /\ bindings[c] = child[c].peer =>
          table[c] = child[c].peer \/ <<c, child[c].peer>> \in refusals \cup told
<1>1. IInv /\ Next => Step
  BY UpIsRouted DEF Routed
<1>2. Step \/ UNCHANGED vars <=> [Step]_vars
  OBVIOUS
<1>3. IInv /\ [Next]_vars => [Step]_vars
  BY <1>1
<1>4. Spec => [][Step]_vars
  BY <1>3, Invariant, PTL DEF Spec
<1> QED
  BY <1>4 DEF RoutedFromTheStart

-----------------------------------------------------------------------------
(* The children implement what a hub promises. *)

\* A child's connection is only ever told what its hub offers.
LEMMA ReportedTruly ==
  ASSUME IInv, Next, NEW c \in Child, child'[c].reported # child[c].reported
  PROVE  /\ child'[c].reported = Carried(c) /\ child[c].reported \in BOOLEAN
         /\ Carried(c) \in BOOLEAN
         /\ \A d \in Child \ {c} : child'[d].reported = child[d].reported
<1> SUFFICES ASSUME NEW h, h = Head(calls)
             PROVE  /\ child'[c].reported = Carried(c) /\ child[c].reported \in BOOLEAN
                    /\ Carried(c) \in BOOLEAN
                    /\ \A d \in Child \ {c} : child'[d].reported = child[d].reported
  OBVIOUS
<1>1. (Sync \/ ReportDown) /\ h.about = c
  BY ChildSteps DEF IInv
<1>2. \A d \in Child \ {c} : child'[d].reported = child[d].reported
  BY <1>1, ChildSteps DEF IInv
<1>3. child[c].reported \in BOOLEAN /\ Carried(c) \in BOOLEAN
  BY DEF IInv, Typed, ChildLink, Carried
<1>4. /\ Handles(h, c) /\ h.op \in {"sync", "reportDown"} /\ Top = {h}
      /\ child \in [Child -> ChildLink]
  BY <1>1, HandlerRuns DEF Sync, ReportDown, Running, ChildOps, Handles, Runs
<1>5. ~Atop("updated", c) /\ ~Atop("connectVia", c) /\ ~Atop("attach", c)
  BY <1>4 DEF Atop
<1>6. CASE Sync
  <2> DEFINE should == child[c].wanted /\ IsConnected(child[c])
  <2>1. should = Carried(c)
    BY <1>4, <1>5, ConnectedIsCarried DEF Handles, ChildOK
  <2>2. child' = [child EXCEPT ![c].reported = should]
    BY <1>1, <1>6 DEF Sync
  <2> HIDE DEF should
  <2>3. child'[c].reported = should
    BY <1>4, <2>2 DEF ChildLink
  <2> QED
    BY <1>2, <1>3, <2>1, <2>3
<1>7. CASE ReportDown
  <2>1. conf[c] = NoPeer
    BY <1>4, <1>7 DEF Handles, ChildCallOK, ReportDown, Running
  <2>2. ~Carried(c)
    BY <2>1 DEF Carried
  <2>3. child'[c].reported = FALSE
    BY <1>1, <1>4, <1>7 DEF ReportDown, ChildLink
  <2> QED
    BY <1>2, <1>3, <2>2, <2>3
<1> QED
  BY <1>1, <1>6, <1>7

\* What the hub offers and who has a robot change one at a time, and no child
\* is told in the same step.
LEMMA PromiseStep ==
  ASSUME IInv, [Next]_vars
  PROVE  [Promise!Next]_(Promise!vars)
<1> DEFINE ready == hub.link /\ hub.phase = "Ready"
           given == [c \in Child |-> conf[c] # NoPeer]
           online == [c \in Child |-> child[c].reported]
<1>1. CASE UNCHANGED <<conf, hub, child>>
  BY <1>1 DEF Promise!vars
<1>2. CASE Next /\ ~UNCHANGED child
  <2>1. UNCHANGED <<conf, hub>>
    BY <1>2, ChildSteps DEF IInv
  <2>2. ready' = ready /\ given' = given
    BY <2>1
  <2>3. CASE \A c \in Child : child'[c].reported = child[c].reported
    <3>1. online' = online
      BY <2>3
    <3> QED
      BY <2>2, <3>1 DEF Promise!vars
  <2>4. ASSUME NEW c \in Child, child'[c].reported # child[c].reported
        PROVE  Promise!Next
    <3>1. /\ child'[c].reported = Carried(c) /\ child[c].reported \in BOOLEAN
          /\ Carried(c) \in BOOLEAN
          /\ \A d \in Child \ {c} : child'[d].reported = child[d].reported
      BY <1>2, <2>4, ReportedTruly
    <3>2. online' = [online EXCEPT ![c] = Carried(c)]
      BY <3>1
    <3>3. Promise!Served(c) <=> Carried(c)
      BY DEF Promise!Served, Carried
    <3>4. CASE Carried(c)
      <4>1. ~online[c] /\ online' = [online EXCEPT ![c] = TRUE]
        BY <2>4, <3>1, <3>2, <3>4
      <4>2. Promise!Serve(c)
        BY <2>2, <3>3, <3>4, <4>1 DEF Promise!Serve
      <4> QED
        BY <4>2 DEF Promise!Next
    <3>5. CASE ~Carried(c)
      <4>1. online[c] /\ online' = [online EXCEPT ![c] = FALSE]
        BY <2>4, <3>1, <3>2, <3>5
      <4>2. Promise!Withdraw(c)
        BY <2>2, <3>3, <3>5, <4>1 DEF Promise!Withdraw
      <4> QED
        BY <4>2 DEF Promise!Next
    <3> QED
      BY <3>1, <3>4, <3>5
  <2> QED
    BY <2>3, <2>4
<1>3. CASE UNCHANGED <<conf, child>>
  <2>1. given' = given /\ online' = online
    BY <1>3
  <2>2. ready \in BOOLEAN /\ ready' \in BOOLEAN
    OBVIOUS
  <2>3. ready' = ready \/ ready' = ~ready
    BY <2>2
  <2>4. ready' = ~ready => Promise!HubChanges
    BY <2>1 DEF Promise!HubChanges
  <2> QED
    BY <2>1, <2>3, <2>4 DEF Promise!Next, Promise!vars
<1>4. CASE \E c \in Child : \E r \in Peer : Configure(c, r)
  <2>1. PICK c \in Child : \E r \in Peer : Configure(c, r)
    BY <1>4
  <2>2. PICK r \in Peer : Configure(c, r)
    BY <2>1
  <2>3. /\ conf' = [conf EXCEPT ![c] = r] /\ UNCHANGED <<hub, child>> /\ conf \in [Child -> Peer]
    BY <2>2 DEF Configure, IInv, Typed
  <2>4. ready' = ready /\ online' = online
    BY <2>3
  <2>5. CASE (r # NoPeer) = (conf[c] # NoPeer)
    <3>1. given' = given
      BY <2>3, <2>5
    <3> QED
      BY <2>4, <3>1 DEF Promise!vars
  <2>6. CASE (r # NoPeer) # (conf[c] # NoPeer)
    <3>1. given' = [given EXCEPT ![c] = ~@]
      BY <2>3, <2>6
    <3>2. Promise!Edit(c)
      BY <2>4, <3>1 DEF Promise!Edit
    <3> QED
      BY <3>2 DEF Promise!Next
  <2> QED
    BY <2>5, <2>6
<1>5. CASE Next /\ ~UNCHANGED conf
  <2>1. \E c \in Child : \E r \in Peer : Configure(c, r)
    BY <1>5 DEF Next, Continue, Signal, Attach, Close, Edge, Sync, UpDone, Settle, ReportDown,
       DownDone, ConnectVia, Bind, ResendAll, Report, Updated, Reattach, Dial, OpenSucceeds,
       OpenFails, HubUpDone, HubDownDone, BecomeReady, ChildTick, RefusalArrives, RetryTick,
       HelloAnswered, DongleGoes, HearOfIt
  <2> QED
    BY <1>4, <2>1
<1>6. CASE UNCHANGED vars
  BY <1>1, <1>6 DEF vars
<1> QED
  BY <1>2, <1>3, <1>5, <1>6

\* The safety half of the promise: a child is shown online only by a step that
\* finds its hub ready and its robot picked, and offline only by one that does
\* not.
THEOREM HubLinkImplemented == Spec => Promise!Spec
<1>1. Init => Promise!Init
  <2> SUFFICES ASSUME Init PROVE Promise!Init
    OBVIOUS
  <2>1. (hub.link /\ hub.phase = "Ready") = FALSE
    BY DEF Init
  <2>2. [c \in Child |-> conf[c] # NoPeer] = [c \in Child |-> FALSE]
    BY DEF Init
  <2>3. [c \in Child |-> child[c].reported] = [c \in Child |-> FALSE]
    BY DEF Init
  <2> QED
    BY <2>1, <2>2, <2>3 DEF Promise!Init
<1>2. IInv /\ [Next]_vars => [Promise!Next]_(Promise!vars)
  BY PromiseStep
<1> QED
  BY <1>1, <1>2, Invariant, PTL DEF Spec, Promise!Spec

=============================================================================
