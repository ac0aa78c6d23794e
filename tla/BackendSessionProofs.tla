------------------------- MODULE BackendSessionProofs -------------------------
(***************************************************************************)
(* What the session of a device guarantees for every choice of the         *)
(* intervals that meets TimingAssumption, for every number of HELLOs, of   *)
(* frames lost, and of robots behind a dongle.                             *)
(*                                                                         *)
(* That neither watchdog ends a session both ends are in is a bound on two *)
(* clocks, and no bound on a clock is inductive alone.  The invariant has  *)
(* three more parts: what ends with the link; the order of what is on it,  *)
(* from which follow that nothing but the awaited answer opens a session   *)
(* and that a session begins with no other HELLO under way; and the two    *)
(* clocks against the keepalive timer and the frames lost so far.          *)
(*                                                                         *)
(* The part about the link is stated of this end in state st, a peer that  *)
(* is in a session or not, and the frames p to it and a from it, so that   *)
(* what a handler does can be followed from one change to the next.        *)
(***************************************************************************)
EXTENDS BackendSession, SequenceTheorems, FiniteSetTheorems, TLAPS

\* What a session brings, and what of it answers a request.
IsData(m) == m.kind \in {"manifest", "answer", "telemetry"}
IsReply(m) == m.kind \in {"manifest", "answer"}
NoData(a) == \A i \in DOMAIN a : ~IsData(a[i])
NoReply(a) == \A i \in DOMAIN a : ~IsReply(a[i])

-----------------------------------------------------------------------------
(* The link, and what a connection leaves behind.                          *)

\* Nothing outlives the link.
LinkDown(st, open, p, a) ==
    ~st.up => /\ st.phase = "idle" /\ ~st.draining /\ ~st.closing
              /\ ~open
              /\ p = <<>> /\ a = <<>>

\* A close drains while the initiator still believes in the session.
CloseDrains(st) == st.draining => st.phase = "active" /\ ~st.established

\* A session that the console line ended, and that the user did not close.
EndedByConsole(st, open, a) ==
    st.phase = "active" /\ ~st.established /\ ~st.draining => ~open /\ NoData(a)

-----------------------------------------------------------------------------
(* What is on the link, and in which order.                                *)

\* A HELLO is on its way only until one is answered; no answer is left then.
HellosAreAwaited(st, p) ==
    \A i \in DOMAIN p :
        p[i].kind = "hello" => st.phase # "active" /\ p[i].n <= st.attempts
ResultsAreAwaited(st, a) ==
    \A i \in DOMAIN a :
        a[i].kind = "result" => st.phase # "active" /\ a[i].n <= st.attempts

\* Attempts are sent, answered and read in their order.
HellosInOrder(p) ==
    \A i, j \in DOMAIN p :
        i < j /\ p[i].kind = "hello" /\ p[j].kind = "hello" => p[i].n < p[j].n
ResultsInOrder(a) ==
    \A i, j \in DOMAIN a :
        i < j /\ a[i].kind = "result" /\ a[j].kind = "result" => a[i].n < a[j].n
AnswersFollow(p, a) ==
    \A i \in DOMAIN a, j \in DOMAIN p :
        a[i].kind = "result" /\ p[j].kind = "hello" => a[i].n < p[j].n

\* Behind a HELLO there are only HELLOs, and a peer that answered one has
\* nothing else to read.
OnlyHellosFollow(st, p) ==
    st.phase = "awaiting" =>
        \A i, j \in DOMAIN p : i < j /\ p[i].kind = "hello" => p[j].kind = "hello"
OnlyHellosOpen(st, open, p) ==
    st.phase = "awaiting" /\ open => \A i \in DOMAIN p : p[i].kind = "hello"

\* A session brings nothing before it begins.
NoDataYet(st, a) == st.phase = "awaiting" => NoData(a)

\* After its console line a peer says nothing until it answers a HELLO.
ConsoleIsLast(open, a) ==
    \A i \in DOMAIN a :
        open /\ a[i].kind = "console" =>
            \E j \in DOMAIN a : i < j /\ a[j].kind = "result"
SilentAfterConsole(st, a) ==
    st.phase = "active" =>
        \A i, j \in DOMAIN a : i < j /\ a[i].kind = "console" => ~IsData(a[j])

LinkInv(st, open, p, a) ==
    /\ LinkDown(st, open, p, a) /\ CloseDrains(st) /\ EndedByConsole(st, open, a)
    /\ HellosAreAwaited(st, p) /\ ResultsAreAwaited(st, a)
    /\ HellosInOrder(p) /\ ResultsInOrder(a) /\ AnswersFollow(p, a)
    /\ OnlyHellosFollow(st, p) /\ OnlyHellosOpen(st, open, p) /\ NoDataYet(st, a)
    /\ ConsoleIsLast(open, a) /\ SilentAfterConsole(st, a)

\* Each kind of peer is asked what it answers.
AskedInItsKind(p) ==
    \A i \in DOMAIN p :
        /\ p[i].kind = "sentinel" => ~direct
        /\ p[i].kind = "stale_boot" => direct

-----------------------------------------------------------------------------
(* The two clocks, with l frames lost and catalog c.                       *)

\* n keepalive intervals.
Intervals(n) == KeepaliveEvery[direct] * n

\* What a clock may show: the keepalive timer, the intervals whose frame was
\* lost, and one more while a frame is on its way.
Allowed(st, l, onItsWay) ==
    st.idle + Intervals(l) + (IF onItsWay THEN KeepaliveEvery[direct] ELSE 0)

\* While HELLO is unanswered: a late exchange was counted as a frame lost, and
\* the peer that answered has not waited longer than this end.
CurrentResult(st, a) == \E i \in DOMAIN a : a[i].kind = "result" /\ a[i].n = st.attempts
CurrentHello(st, p) == \E i \in DOMAIN p : p[i].kind = "hello" /\ p[i].n = st.attempts
HelloClock(st, pe, p, a, l) ==
    st.phase = "awaiting" =>
        /\ st.waited <= HelloTimeout[direct]
        /\ st.waited > 0 /\ (CurrentResult(st, a) \/ CurrentHello(st, p)) => l > 0
        /\ pe.open /\ CurrentResult(st, a) => pe.quiet <= st.waited

PeerClock(st, pe, p, l) ==
    st.established /\ pe.open => pe.quiet <= Allowed(st, l, p # <<>>)
OwnClock(st, pe, p, a, l, c) ==
    st.established /\ pe.open /\ (direct => c # {})
        => st.waited <= Allowed(st, l, p # <<>> \/ ~NoReply(a))

\* Frames are answered within the unit in which they are sent.
AnsweredAtOnce(st, pe, p, a) ==
    st.established =>
        /\ st.idle > 0 => p = <<>> /\ NoReply(a)
        /\ pe.open /\ ~NoReply(a) => pe.quiet = 0

\* A robot's catalog that is there came with a frame: an enumeration, which it
\* would not answer, is still on its way then only from before, within the unit.
EnumerationIsFresh(st, p, c) ==
    st.established /\ direct /\ c # {} =>
        \A i \in DOMAIN p : p[i].kind = "enumerate" => st.waited = 0

ClockInv(st, pe, p, a, l, c) ==
    /\ HelloClock(st, pe, p, a, l)
    /\ PeerClock(st, pe, p, l)
    /\ OwnClock(st, pe, p, a, l, c)
    /\ AnsweredAtOnce(st, pe, p, a)
    /\ EnumerationIsFresh(st, p, c)

\* The invariant: types, the session and the link, and with them the clocks.
LinkIInv ==
    /\ TypeOK /\ SessionIsBacked
    /\ LinkInv(s, peer.open, toPeer, toApp) /\ AskedInItsKind(toPeer)

IInv == LinkIInv /\ ClockInv(s, peer, toPeer, toApp, lost, catalog)

-----------------------------------------------------------------------------
(* Frames.                                                                 *)

\* What is left of a queue when its first element is taken.
LEMMA Taken ==
  ASSUME NEW S, NEW q \in Seq(S), q # <<>>
  PROVE  /\ Tail(q) \in Seq(S)
         /\ Head(q) \in S /\ 1 \in DOMAIN q /\ Head(q) = q[1]
         /\ DOMAIN q = 1 .. Len(q) /\ Len(q) \in Nat \ {0}
         /\ DOMAIN Tail(q) = 1 .. Len(q) - 1
         /\ \A i \in DOMAIN Tail(q) : i + 1 \in DOMAIN q /\ Tail(q)[i] = q[i + 1]
         /\ \A i \in DOMAIN q : i = 1 \/ (i - 1 \in DOMAIN Tail(q) /\ Tail(q)[i - 1] = q[i])
         /\ \A i \in DOMAIN Tail(q) : i \in Nat \ {0}
BY HeadTailProperties, LenProperties, EmptySeq

\* What becomes of a queue when others follow.
LEMMA Followed ==
  ASSUME NEW S, NEW q \in Seq(S), NEW r \in Seq(S)
  PROVE  /\ q \o r \in Seq(S)
         /\ Len(q) \in Nat /\ DOMAIN q = 1 .. Len(q)
         /\ DOMAIN (q \o r) = 1 .. Len(q) + Len(r)
         /\ \A i \in DOMAIN q : i \in DOMAIN (q \o r) /\ (q \o r)[i] = q[i]
         /\ \A i \in DOMAIN (q \o r) :
              \/ i \in DOMAIN q /\ (q \o r)[i] = q[i]
              \/ i > Len(q) /\ i - Len(q) \in DOMAIN r /\ (q \o r)[i] = r[i - Len(q)]
         /\ \A i \in DOMAIN (q \o r) : i \in Nat \ {0}
BY ConcatProperties, LenProperties

\* ... and when one follows.
LEMMA FollowedByOne ==
  ASSUME NEW S, NEW q \in Seq(S), NEW m \in S
  PROVE  /\ Append(q, m) \in Seq(S) /\ Append(q, m) # <<>>
         /\ Len(q) \in Nat /\ DOMAIN q = 1 .. Len(q)
         /\ DOMAIN Append(q, m) = 1 .. Len(q) + 1
         /\ \A i \in DOMAIN q : i \in DOMAIN Append(q, m) /\ Append(q, m)[i] = q[i]
         /\ Append(q, m)[Len(q) + 1] = m
         /\ \A i \in DOMAIN Append(q, m) :
              i \in Nat \ {0} /\ (i \in DOMAIN q \/ i = Len(q) + 1)
BY AppendProperties, LenProperties

\* A queue of one.
LEMMA One ==
  ASSUME NEW S, NEW m \in S
  PROVE  /\ <<m>> \in Seq(S) /\ <<m>> # <<>> /\ DOMAIN <<m>> = {1} /\ <<m>>[1] = m
OBVIOUS

\* The HELLOs and their answers have a number.
LEMMA Numbered ==
  /\ \A m \in ToPeer : m.kind = "hello" => m.n \in 1 .. MaxHello
  /\ \A m \in ToApp : m.kind = "result" => m.n \in 1 .. MaxHello
BY DEF ToPeer, ToApp

\* The manifests of a dongle's robots, in some order, are frames.
LEMMA ManifestsType ==
  LET q == SetToSeq({Manifest(source) : source \in Others})
  IN  q \in Seq(ToApp) /\ \A i \in DOMAIN q : IsReply(q[i])
<1> DEFINE M == {Manifest(source) : source \in Others}
           n == Cardinality(M)
           q == SetToSeq(M)
<1>1. IsFiniteSet(M)
  <2> DEFINE f == [source \in Others |-> Manifest(source)]
  <2>1. f \in Surjection(Others, M)
    BY DEF Surjection
  <2> HIDE DEF f, M
  <2> QED
    BY <2>1, SessionAssumption, FS_Surjection
<1>2. n \in Nat /\ \E f \in [1 .. n -> M] : IsInjective(f)
  <2> HIDE DEF M
  <2> QED
    BY <1>1, FS_CardinalityType DEF ExistsBijection, Bijection, Injection
<1>3. q \in [1 .. n -> M]
  <2> HIDE DEF M
  <2> QED
    BY <1>2 DEF SetToSeq
<1>4. M \subseteq ToApp /\ \A m \in M : IsReply(m)
  BY DEF Manifest, ToApp, IsReply
<1> HIDE DEF M
<1>5. q \in [1 .. n -> ToApp] /\ DOMAIN q = 1 .. n /\ \A i \in 1 .. n : IsReply(q[i])
  BY <1>3, <1>4
<1> HIDE DEF n, q
<1>6. q \in Seq(ToApp)
  BY <1>2, <1>5, SeqDef
<1> QED
  BY <1>5, <1>6 DEF M, q

\* What the peer answers with.
LEMMA RepliesType ==
  ASSUME NEW kind
  PROVE  /\ Replies(kind) \in Seq(ToApp)
         /\ \A i \in DOMAIN Replies(kind) : IsReply(Replies(kind)[i])
<1> DEFINE q == SetToSeq({Manifest(source) : source \in Others})
           own == <<Manifest(Peer)>>
<1>1. Manifest(Peer) \in ToApp /\ IsReply(Manifest(Peer))
      /\ [kind |-> "answer"] \in ToApp /\ IsReply([kind |-> "answer"])
  BY DEF Manifest, ToApp, IsReply
<1>2. own \in Seq(ToApp) /\ \A i \in DOMAIN own : IsReply(own[i])
  BY <1>1, One
<1>3. q \in Seq(ToApp) /\ \A i \in DOMAIN q : IsReply(q[i])
  BY ManifestsType
<1>4. <<>> \in Seq(ToApp) /\ DOMAIN <<>> = {}
  BY EmptySeq
<1>5. DEFINE ans == <<[kind |-> "answer"]>>
<1>6. ans \in Seq(ToApp) /\ \A i \in DOMAIN ans : IsReply(ans[i])
  BY <1>1, One
<1>7. own \o q \in Seq(ToApp) /\ \A i \in DOMAIN (own \o q) : IsReply((own \o q)[i])
  <2> HIDE DEF own, q
  <2> QED
    BY <1>2, <1>3, Followed
<1>8. Replies(kind) \in {own \o q, own, ans, <<>>}
  BY DEF Replies
<1> HIDE DEF own, q, ans
<1> QED
  BY <1>2, <1>4, <1>6, <1>7, <1>8

-----------------------------------------------------------------------------
(* What is on the link, change by change.                                  *)

\* This end takes what comes first; the peer does.
LEMMA AppTakes ==
  ASSUME NEW st \in SessionStates, NEW open \in BOOLEAN, NEW p \in Seq(ToPeer),
         NEW a \in Seq(ToApp), LinkInv(st, open, p, a), a # <<>>
  PROVE  LinkInv(st, open, p, Tail(a))
<1> DEFINE b == Tail(a)
<1>1. /\ \A i \in DOMAIN b : i + 1 \in DOMAIN a /\ b[i] = a[i + 1] /\ i \in Nat
      /\ \A i \in DOMAIN a : i = 1 \/ (i - 1 \in DOMAIN b /\ b[i - 1] = a[i])
      /\ DOMAIN a \subseteq Nat
  BY Taken
<1> HIDE DEF b
<1>2. LinkDown(st, open, p, b) /\ CloseDrains(st) /\ EndedByConsole(st, open, b)
  BY <1>1 DEF LinkInv, LinkDown, EndedByConsole, NoData
<1>3. ResultsAreAwaited(st, b) /\ AnswersFollow(p, b) /\ NoDataYet(st, b)
  BY <1>1 DEF LinkInv, ResultsAreAwaited, AnswersFollow, NoDataYet, NoData
<1>4. \A i, j \in DOMAIN b : i < j => i + 1 < j + 1
  BY <1>1
<1>5. ResultsInOrder(b)
  BY <1>1, <1>4 DEF LinkInv, ResultsInOrder
<1>6. SilentAfterConsole(st, b)
  BY <1>1, <1>4 DEF LinkInv, SilentAfterConsole
<1>7. ConsoleIsLast(open, b)
  <2> SUFFICES ASSUME NEW i \in DOMAIN b, open, b[i].kind = "console"
               PROVE  \E j \in DOMAIN b : i < j /\ b[j].kind = "result"
    BY DEF ConsoleIsLast
  <2>1. PICK j \in DOMAIN a : i + 1 < j /\ a[j].kind = "result"
    BY <1>1 DEF LinkInv, ConsoleIsLast
  <2>2. j - 1 \in DOMAIN b /\ i < j - 1 /\ b[j - 1] = a[j]
    BY <1>1, <2>1
  <2> QED
    BY <2>1, <2>2
<1> QED
  BY <1>2, <1>3, <1>5, <1>6, <1>7 DEF LinkInv, b

\* The peer takes the oldest frame sent to it.
LEMMA PeerTakes ==
  ASSUME NEW st \in SessionStates, NEW open \in BOOLEAN, NEW p \in Seq(ToPeer),
         NEW a \in Seq(ToApp), LinkInv(st, open, p, a), p # <<>>
  PROVE  LinkInv(st, open, Tail(p), a)
<1> DEFINE q == Tail(p)
<1>1. /\ \A i \in DOMAIN q : i + 1 \in DOMAIN p /\ q[i] = p[i + 1] /\ i \in Nat
      /\ DOMAIN p \subseteq Nat
  BY Taken
<1> HIDE DEF q
<1>2. LinkDown(st, open, q, a)
  BY DEF LinkInv, LinkDown
<1>3. HellosAreAwaited(st, q) /\ AnswersFollow(q, a) /\ OnlyHellosOpen(st, open, q)
  BY <1>1 DEF LinkInv, HellosAreAwaited, AnswersFollow, OnlyHellosOpen
<1>4. \A i, j \in DOMAIN q : i < j => i + 1 < j + 1
  BY <1>1
<1>5. HellosInOrder(q)
  BY <1>1, <1>4 DEF LinkInv, HellosInOrder
<1>6. OnlyHellosFollow(st, q)
  BY <1>1, <1>4 DEF LinkInv, OnlyHellosFollow
<1> QED
  BY <1>2, <1>3, <1>5, <1>6 DEF LinkInv, q

\* The peer leaves its session, and says so or not.
LEMMA PeerIsGone ==
  ASSUME NEW st \in SessionStates, NEW open \in BOOLEAN, NEW p \in Seq(ToPeer),
         NEW a \in Seq(ToApp), LinkInv(st, open, p, a)
  PROVE  LinkInv(st, FALSE, p, a)
BY DEF LinkInv, LinkDown, EndedByConsole, OnlyHellosOpen, ConsoleIsLast

\* The peer is out of its session and its console says so, last of all it sends.
LEMMA PeerSaysSo ==
  ASSUME NEW st \in SessionStates, NEW p \in Seq(ToPeer),
         NEW a \in Seq(ToApp), LinkInv(st, FALSE, p, a), st.up
  PROVE  LinkInv(st, FALSE, p, Append(a, [kind |-> "console"]))
<1> DEFINE m == [kind |-> "console"]
           b == Append(a, m)
<1>1. m \in ToApp /\ m.kind = "console"
  BY DEF ToApp
<1>2. /\ \A i \in DOMAIN b : i \in Nat /\ (b[i] = m \/ (i \in DOMAIN a /\ b[i] = a[i]))
      /\ \A i, j \in DOMAIN b : i < j => i \in DOMAIN a /\ b[i] = a[i]
  BY <1>1, FollowedByOne
<1> HIDE DEF b, m
<1>3. LinkDown(st, FALSE, p, b) /\ ConsoleIsLast(FALSE, b)
  BY DEF LinkDown, ConsoleIsLast
<1>4. EndedByConsole(st, FALSE, b) /\ NoDataYet(st, b) /\ SilentAfterConsole(st, b)
  BY <1>1, <1>2 DEF LinkInv, EndedByConsole, NoDataYet, NoData, SilentAfterConsole, IsData
<1>5. ResultsAreAwaited(st, b) /\ ResultsInOrder(b) /\ AnswersFollow(p, b)
  BY <1>1, <1>2 DEF LinkInv, ResultsAreAwaited, ResultsInOrder, AnswersFollow
<1> QED
  BY <1>3, <1>4, <1>5 DEF LinkInv, b, m

\* A peer in a session says something, but no HELLO_RESULT and no console line.
LEMMA PeerSays ==
  ASSUME NEW st \in SessionStates, NEW p \in Seq(ToPeer),
         NEW a \in Seq(ToApp), LinkInv(st, TRUE, p, a), st.phase # "awaiting",
         NEW r \in Seq(ToApp),
         \A i \in DOMAIN r : r[i].kind \notin {"result", "console"}
  PROVE  LinkInv(st, TRUE, p, a \o r)
<1> DEFINE b == a \o r
<1>1. /\ \A i \in DOMAIN a : i \in DOMAIN b /\ b[i] = a[i]
      /\ \A i \in DOMAIN b :
           i \in Nat /\ ((i \in DOMAIN a /\ b[i] = a[i]) \/ b[i].kind \notin {"result", "console"})
  BY Followed
<1> HIDE DEF b
<1>2. LinkDown(st, TRUE, p, b) /\ EndedByConsole(st, TRUE, b) /\ NoDataYet(st, b)
  BY DEF LinkInv, LinkDown, EndedByConsole, NoDataYet
<1>3. ResultsAreAwaited(st, b) /\ ResultsInOrder(b) /\ AnswersFollow(p, b)
      /\ ConsoleIsLast(TRUE, b)
  BY <1>1 DEF LinkInv, ResultsAreAwaited, ResultsInOrder, AnswersFollow, ConsoleIsLast
<1>4. SilentAfterConsole(st, b)
  BY <1>1 DEF LinkInv, SilentAfterConsole, ConsoleIsLast, ResultsAreAwaited
<1> QED
  BY <1>2, <1>3, <1>4 DEF LinkInv, b

\* This end says something other than HELLO.
LEMMA AppSays ==
  ASSUME NEW st \in SessionStates, NEW open \in BOOLEAN, NEW p \in Seq(ToPeer),
         NEW a \in Seq(ToApp), LinkInv(st, open, p, a),
         st.phase # "awaiting", st.up, NEW r \in Seq(ToPeer), \A i \in DOMAIN r : r[i].kind # "hello"
  PROVE  LinkInv(st, open, p \o r, a)
<1> DEFINE q == p \o r
<1>1. \A i \in DOMAIN q :
        i \in Nat /\ ((i \in DOMAIN p /\ q[i] = p[i]) \/ q[i].kind # "hello")
  BY Followed
<1> HIDE DEF q
<1>2. LinkDown(st, open, q, a) /\ OnlyHellosFollow(st, q) /\ OnlyHellosOpen(st, open, q)
  BY DEF LinkInv, LinkDown, OnlyHellosFollow, OnlyHellosOpen
<1>3. HellosAreAwaited(st, q) /\ AnswersFollow(q, a) /\ HellosInOrder(q)
  BY <1>1 DEF LinkInv, HellosAreAwaited, AnswersFollow, HellosInOrder
<1> QED
  BY <1>2, <1>3 DEF LinkInv, q

\* Everything falls with the link; a new one carries the first HELLO.
LEMMA LinkFalls ==
  ASSUME NEW st \in SessionStates
  PROVE  LinkInv(Dropped(st), FALSE, <<>>, <<>>)
BY DEF SessionStates, Dropped, LinkInv, LinkDown, CloseDrains, EndedByConsole, HellosAreAwaited,
   ResultsAreAwaited, HellosInOrder, ResultsInOrder, AnswersFollow, OnlyHellosFollow,
   OnlyHellosOpen, NoDataYet, ConsoleIsLast, SilentAfterConsole, NoData

\* A link that comes up carries this end's first HELLO and nothing else.
LEMMA LinkRises ==
  ASSUME NEW st \in SessionStates, st.up, st.attempts = 1, st.phase = "awaiting", ~st.draining
  PROVE  LinkInv(st, FALSE, <<[kind |-> "hello", n |-> 1]>>, <<>>)
<1> DEFINE m == [kind |-> "hello", n |-> 1]
           p == <<m>>
<1>1. DOMAIN p = {1} /\ p[1] = m /\ m.n = 1 /\ m.kind = "hello"
  OBVIOUS
<1> HIDE DEF p, m
<1>2. LinkInv(st, FALSE, p, <<>>)
  BY <1>1 DEF SessionStates, LinkInv, LinkDown, CloseDrains, EndedByConsole, HellosAreAwaited,
     ResultsAreAwaited, HellosInOrder, ResultsInOrder, AnswersFollow, OnlyHellosFollow,
     OnlyHellosOpen, NoDataYet, ConsoleIsLast, SilentAfterConsole, NoData
<1> QED
  BY <1>2 DEF p, m

\* The parts of this end's state that the invariant does not look at.
SameLink(st, tt) ==
  /\ tt.up = st.up /\ tt.phase = st.phase /\ tt.attempts = st.attempts
  /\ tt.established = st.established /\ tt.draining = st.draining
  /\ tt.closing => st.closing

\* What leaves the link's own state alone leaves its frames in order.
LEMMA SameLinkKeeps ==
  ASSUME NEW st \in SessionStates, NEW tt \in SessionStates, SameLink(st, tt),
         NEW open \in BOOLEAN, NEW p \in Seq(ToPeer), NEW a \in Seq(ToApp),
         LinkInv(st, open, p, a)
  PROVE  LinkInv(tt, open, p, a)
BY DEF SameLink, LinkInv, LinkDown, CloseDrains, EndedByConsole, HellosAreAwaited,
   ResultsAreAwaited, OnlyHellosFollow, OnlyHellosOpen, NoDataYet, SilentAfterConsole

\* The session, or the wait for one, is given up: by the initiator, or by a
\* deliberate disconnect whose close drains.
LEMMA GivingUpKeeps ==
  ASSUME NEW st \in SessionStates, NEW tt \in SessionStates,
         NEW open \in BOOLEAN, NEW p \in Seq(ToPeer), NEW a \in Seq(ToApp),
         LinkInv(st, open, p, a), st.up, tt.up, tt.attempts = st.attempts, ~tt.established,
         \/ tt.phase = "idle" /\ ~tt.draining
         \/ tt.phase = st.phase /\ st.phase = "active" /\ tt.draining
         \/ tt.phase = st.phase /\ ~open /\ NoData(a) /\ ~tt.draining
  PROVE  LinkInv(tt, open, p, a)
BY DEF LinkInv, LinkDown, CloseDrains, EndedByConsole, HellosAreAwaited,
   ResultsAreAwaited, OnlyHellosFollow, OnlyHellosOpen, NoDataYet, SilentAfterConsole

\* The console line finds a peer that is gone, and nothing it said behind it.
LEMMA ConsoleFinds ==
  ASSUME NEW st \in SessionStates, NEW open \in BOOLEAN, NEW p \in Seq(ToPeer),
         NEW a \in Seq(ToApp), LinkInv(st, open, p, a), st.phase = "active",
         a # <<>>, Head(a).kind = "console"
  PROVE  ~open /\ NoData(Tail(a))
<1> DEFINE b == Tail(a)
<1>1. /\ \A i \in DOMAIN b : i + 1 \in DOMAIN a /\ b[i] = a[i + 1] /\ 1 < i + 1
      /\ 1 \in DOMAIN a /\ a[1].kind = "console"
  BY Taken
<1> HIDE DEF b
<1>2. ~open
  BY <1>1 DEF LinkInv, ConsoleIsLast, ResultsAreAwaited
<1>3. NoData(b)
  BY <1>1 DEF LinkInv, SilentAfterConsole, NoData
<1> QED
  BY <1>2, <1>3 DEF b

\* The awaited answer finds no HELLO under way, and no other answer.
LEMMA AnswerFinds ==
  ASSUME NEW st \in SessionStates, NEW open \in BOOLEAN, NEW p \in Seq(ToPeer),
         NEW a \in Seq(ToApp), LinkInv(st, open, p, a), st.phase = "awaiting",
         a # <<>>, Head(a).kind = "result", Head(a).n = st.attempts
  PROVE  /\ \A i \in DOMAIN p : p[i].kind # "hello"
         /\ \A i \in DOMAIN Tail(a) : Tail(a)[i].kind # "result"
         /\ open => p = <<>>
<1> DEFINE b == Tail(a)
<1>1. /\ \A i \in DOMAIN b : i + 1 \in DOMAIN a /\ b[i] = a[i + 1] /\ 1 < i + 1
      /\ 1 \in DOMAIN a /\ a[1] = Head(a)
  BY Taken
<1>2. /\ \A i \in DOMAIN p : p[i] \in ToPeer
      /\ \A i \in DOMAIN a : a[i] \in ToApp
      /\ p # <<>> => 1 \in DOMAIN p
  BY ElementOfSeq, LenProperties, EmptySeq
<1> HIDE DEF b
<1>3. st.attempts \in Nat
  BY SessionAssumption DEF SessionStates
<1>4. \A i \in DOMAIN p : p[i].kind # "hello"
  <2> SUFFICES ASSUME NEW i \in DOMAIN p, p[i].kind = "hello" PROVE FALSE
    OBVIOUS
  <2>1. st.attempts < p[i].n /\ p[i].n <= st.attempts /\ p[i].n \in Nat
    BY <1>1, <1>2, Numbered DEF LinkInv, AnswersFollow, HellosAreAwaited
  <2> QED
    BY <1>3, <2>1
<1>5. \A i \in DOMAIN b : b[i].kind # "result"
  <2> SUFFICES ASSUME NEW i \in DOMAIN b, b[i].kind = "result" PROVE FALSE
    OBVIOUS
  <2>1. st.attempts < b[i].n /\ b[i].n <= st.attempts /\ b[i].n \in Nat
    BY <1>1, <1>2, Numbered DEF LinkInv, ResultsInOrder, ResultsAreAwaited
  <2> QED
    BY <1>3, <2>1
<1>6. open => p = <<>>
  BY <1>2, <1>4 DEF LinkInv, OnlyHellosOpen
<1> QED
  BY <1>4, <1>5, <1>6 DEF b

\* The session begins.
LEMMA SessionBegins ==
  ASSUME NEW st \in SessionStates, NEW open \in BOOLEAN, NEW p \in Seq(ToPeer),
         NEW a \in Seq(ToApp), LinkInv(st, open, p, a), st.phase = "awaiting", st.up,
         a # <<>>, Head(a).kind = "result", Head(a).n = st.attempts
  PROVE  LinkInv(Established(st), open, p, Tail(a))
<1> DEFINE b == Tail(a)
           tt == Established(st)
<1>1. LinkInv(st, open, p, b) /\ b \in Seq(ToApp)
  BY AppTakes, Taken
<1>2. /\ \A i \in DOMAIN p : p[i].kind # "hello"
      /\ \A i \in DOMAIN b : b[i].kind # "result"
  BY AnswerFinds
<1>3. tt.up /\ tt.phase = "active" /\ tt.established /\ tt.draining = st.draining
  BY DEF Established, SessionStates
<1> HIDE DEF tt, b
<1>4. LinkInv(tt, open, p, b)
  BY <1>1, <1>2, <1>3 DEF LinkInv, LinkDown, CloseDrains, EndedByConsole, HellosAreAwaited,
     ResultsAreAwaited, OnlyHellosFollow, OnlyHellosOpen, NoDataYet, NoData, SilentAfterConsole
<1> QED
  BY <1>4 DEF tt, b

\* Another HELLO goes out, after one that was not answered or after a session
\* that the console line ended.
LEMMA HelloGoes ==
  ASSUME NEW st \in SessionStates, NEW open \in BOOLEAN, NEW p \in Seq(ToPeer),
         NEW a \in Seq(ToApp), LinkInv(st, open, p, a), st.phase # "idle",
         ~st.established, ~st.draining, st.attempts < MaxHello
  PROVE  LinkInv(HelloSent(st), open, Append(p, [kind |-> "hello", n |-> st.attempts + 1]), a)
<1> DEFINE m == [kind |-> "hello", n |-> st.attempts + 1]
           q == Append(p, m)
           tt == HelloSent(st)
<1>1. st.attempts \in Nat /\ st.attempts + 1 \in 1 .. MaxHello
  <2>1. MaxHello \in Nat /\ st.attempts \in 0 .. MaxHello
    BY SessionAssumption DEF SessionStates
  <2> QED
    BY <2>1
<1>2. m \in ToPeer /\ m.kind = "hello" /\ m.n = st.attempts + 1
  BY <1>1 DEF ToPeer
<1>3. /\ \A i \in DOMAIN q : i \in Nat /\ ((i \in DOMAIN p /\ q[i] = p[i]) \/ q[i] = m)
      /\ \A i, j \in DOMAIN q : i < j => i \in DOMAIN p /\ q[i] = p[i]
  BY <1>2, FollowedByOne
<1>4. /\ \A i \in DOMAIN p : p[i] \in ToPeer
      /\ \A i \in DOMAIN a : a[i] \in ToApp
  BY ElementOfSeq, LenProperties
<1>5. tt.up /\ tt.phase = "awaiting" /\ tt.attempts = st.attempts + 1
      /\ ~tt.established /\ ~tt.draining
  BY DEF HelloSent, SessionStates, LinkInv, LinkDown
<1> HIDE DEF q, m, tt
<1>6. LinkDown(tt, open, q, a) /\ CloseDrains(tt) /\ EndedByConsole(tt, open, a)
      /\ ConsoleIsLast(open, a) /\ SilentAfterConsole(tt, a)
  BY <1>5 DEF LinkInv, LinkDown, CloseDrains, EndedByConsole, SilentAfterConsole
<1>7. NoDataYet(tt, a) /\ OnlyHellosOpen(tt, open, q)
  BY <1>2, <1>3 DEF LinkInv, EndedByConsole, NoDataYet, OnlyHellosOpen, SessionStates
<1>8. \A i \in DOMAIN p : p[i].kind = "hello" => st.phase # "active" /\ p[i].n < st.attempts + 1
  BY <1>1, <1>4, Numbered DEF LinkInv, HellosAreAwaited
<1>9. \A i \in DOMAIN a : a[i].kind = "result" => st.phase # "active" /\ a[i].n < st.attempts + 1
  BY <1>1, <1>4, Numbered DEF LinkInv, ResultsAreAwaited
<1>10. HellosAreAwaited(tt, q) /\ ResultsAreAwaited(tt, a)
  <2>1. HellosAreAwaited(tt, q)
    BY <1>1, <1>2, <1>3, <1>4, <1>5, <1>8, Numbered DEF HellosAreAwaited
  <2>2. ResultsAreAwaited(tt, a)
    BY <1>1, <1>4, <1>5, <1>9, Numbered DEF ResultsAreAwaited
  <2> QED
    BY <2>1, <2>2
<1>11. HellosInOrder(q) /\ ResultsInOrder(a)
  BY <1>2, <1>3, <1>8 DEF LinkInv, HellosInOrder
<1>12. AnswersFollow(q, a)
  BY <1>2, <1>3, <1>9 DEF LinkInv, AnswersFollow
<1>13. OnlyHellosFollow(tt, q)
  BY <1>2, <1>3, <1>8 DEF LinkInv, OnlyHellosFollow, SessionStates
<1> QED
  BY <1>6, <1>7, <1>10, <1>11, <1>12, <1>13 DEF LinkInv, tt, q, m

\* The peer answers a HELLO, and is in a session then or not.
LEMMA PeerAnswers ==
  ASSUME NEW st \in SessionStates, NEW open \in BOOLEAN, NEW p \in Seq(ToPeer),
         NEW a \in Seq(ToApp), LinkInv(st, open, p, a),
         p # <<>>, Head(p).kind = "hello",
         NEW answer \in {"ok", "alien", "refused"}, NEW now \in BOOLEAN
  PROVE  LinkInv(st, now, Tail(p),
                 a \o <<[kind |-> "result", n |-> Head(p).n, answer |-> answer]>>)
<1> DEFINE m == [kind |-> "result", n |-> Head(p).n, answer |-> answer]
           q == Tail(p)
           b == a \o <<m>>
<1>1. /\ \A i \in DOMAIN q : i \in Nat /\ i + 1 \in DOMAIN p /\ q[i] = p[i + 1] /\ 1 < i + 1
      /\ DOMAIN p \subseteq Nat
      /\ q \in Seq(ToPeer)
      /\ 1 \in DOMAIN p /\ p[1] = Head(p)
  BY Taken
<1>2. /\ \A i \in DOMAIN p : p[i] \in ToPeer
      /\ \A i \in DOMAIN a : a[i] \in ToApp
  BY ElementOfSeq, LenProperties
<1>3. m \in ToApp /\ m.kind = "result" /\ m.n = p[1].n /\ m.n \in Nat
  BY <1>1, <1>2, Numbered DEF ToApp
<1>4. b = Append(a, m)
  <2> HIDE DEF m
  <2> QED
    BY <1>3, AppendIsConcat
<1> HIDE DEF b, m
<1>5. /\ \A i \in DOMAIN b : i \in Nat /\ ((i \in DOMAIN a /\ b[i] = a[i]) \/ b[i] = m)
      /\ \A i, j \in DOMAIN b : i < j => i \in DOMAIN a /\ b[i] = a[i]
      /\ \A i \in DOMAIN a : i < Len(a) + 1
      /\ Len(a) + 1 \in DOMAIN b /\ b[Len(a) + 1] = m
      /\ \A i \in DOMAIN a : i \in DOMAIN b /\ b[i] = a[i]
  BY <1>3, <1>4, FollowedByOne
<1>6. LinkInv(st, open, q, a)
  BY PeerTakes
<1> HIDE DEF q
<1>7. st.phase # "active" /\ m.n <= st.attempts
  BY <1>1, <1>3 DEF LinkInv, HellosAreAwaited
<1>8. LinkDown(st, now, q, b) /\ EndedByConsole(st, now, b) /\ SilentAfterConsole(st, b)
      /\ CloseDrains(st)
  BY <1>7 DEF LinkInv, LinkDown, EndedByConsole, SilentAfterConsole
<1>9. OnlyHellosOpen(st, now, q)
  BY <1>1 DEF LinkInv, OnlyHellosFollow, OnlyHellosOpen
<1>10. NoDataYet(st, b) /\ ConsoleIsLast(now, b)
  <2>1. NoDataYet(st, b)
    BY <1>3, <1>5 DEF LinkInv, NoDataYet, NoData, IsData
  <2>2. \A i \in DOMAIN b : b[i].kind = "console" => i < Len(a) + 1
    BY <1>3, <1>5
  <2>3. ConsoleIsLast(now, b)
    BY <1>3, <1>5, <2>2 DEF ConsoleIsLast
  <2> QED
    BY <2>1, <2>3
<1>11. ResultsAreAwaited(st, b)
  BY <1>3, <1>5, <1>7 DEF LinkInv, ResultsAreAwaited
<1>12. ResultsInOrder(b)
  BY <1>1, <1>3, <1>5 DEF LinkInv, ResultsInOrder, AnswersFollow
<1>13. AnswersFollow(q, b)
  <2> SUFFICES ASSUME NEW i \in DOMAIN b, NEW j \in DOMAIN q,
                      b[i].kind = "result", q[j].kind = "hello"
               PROVE  b[i].n < q[j].n
    BY DEF AnswersFollow
  <2>1. CASE b[i] = m
    BY <1>1, <1>3, <2>1 DEF LinkInv, HellosInOrder
  <2>2. CASE i \in DOMAIN a /\ b[i] = a[i]
    BY <1>1, <2>2 DEF LinkInv, AnswersFollow
  <2> QED
    BY <1>5, <2>1, <2>2
<1> QED
  BY <1>6, <1>8, <1>9, <1>10, <1>11, <1>12, <1>13 DEF LinkInv, b, q, m

-----------------------------------------------------------------------------
(* Types.                                                                  *)

\* The constants as the lemmas below use them.
LEMMA Bounds ==
  /\ MaxHello \in Nat \ {0} /\ MaxLost \in Nat /\ MaxFault \in Nat
  /\ direct \in BOOLEAN => /\ KeepaliveEvery[direct] \in Nat
                           /\ SessionTimeout[direct] \in Nat
                           /\ HelloTimeout[direct] \in Nat
                           /\ AskAgainAfter[direct] \in Nat
BY SessionAssumption

\* The initial state has its type.
LEMMA InitType == Init => TypeOK
<1> SUFFICES ASSUME Init PROVE TypeOK
  OBVIOUS
<1>1. <<>> \in Seq(ToPeer) /\ <<>> \in Seq(ToApp)
  BY EmptySeq
<1>2. s \in SessionStates /\ s.idle = 0 /\ s.waited = 0
  BY Bounds DEF Init, SessionStates
<1>3. peer \in [open : BOOLEAN, quiet : 0 .. SessionTimeout[direct], revision : 1 .. 2]
  BY Bounds DEF Init
<1> QED
  BY <1>1, <1>2, <1>3, Bounds DEF Init, TypeOK

\* What TypeOK says of this end and of the peer.
StateOK(st) ==
  st \in SessionStates /\ st.idle <= KeepaliveEvery[direct] /\ st.waited <= SessionTimeout[direct]
PeerOK(pe) == pe \in [open : BOOLEAN, quiet : 0 .. SessionTimeout[direct], revision : 1 .. 2]

\* What the handlers make of this end's state.
LEMMA StateChanges ==
  ASSUME NEW st, StateOK(st), direct \in BOOLEAN
  PROVE  /\ StateOK(Dropped(st)) /\ StateOK(Sent(st)) /\ StateOK(Heard(st))
         /\ StateOK(Established(st)) /\ StateOK(GivenUp(st))
         /\ StateOK([st EXCEPT !.phase = "idle", !.waited = 0])
         /\ StateOK([st EXCEPT !.watching = FALSE])
         /\ \A b \in BOOLEAN : StateOK([st EXCEPT !.closing = b])
         /\ StateOK([st EXCEPT !.closing = TRUE, !.draining = TRUE])
         /\ StateOK([st EXCEPT !.up = TRUE, !.attempts = 0])
         /\ st.attempts < MaxHello => StateOK(HelloSent(st))
<1>1. st \in SessionStates
  BY DEF StateOK
<1>2. KeepaliveEvery[direct] \in Nat /\ SessionTimeout[direct] \in Nat
      /\ MaxHello \in Nat /\ st.attempts \in 0 .. MaxHello
  BY <1>1, Bounds DEF SessionStates
<1>3. st.attempts < MaxHello => st.attempts + 1 \in 0 .. MaxHello
  BY <1>2
<1>4. 0 \in 0 .. MaxHello
  BY <1>2
<1>5. Dropped(st) \in SessionStates /\ Dropped(st).idle = 0 /\ Dropped(st).waited = 0
  BY <1>1 DEF SessionStates, Dropped
<1>6. Sent(st) \in SessionStates /\ Sent(st).idle = 0 /\ Sent(st).waited = st.waited
  BY <1>1 DEF SessionStates, Sent
<1>7. Heard(st) \in SessionStates /\ Heard(st).idle = st.idle /\ Heard(st).waited \in {0, st.waited}
  BY <1>1 DEF SessionStates, Heard
<1>8. /\ Established(st) \in SessionStates
      /\ Established(st).idle = 0 /\ Established(st).waited = 0
  BY <1>1 DEF SessionStates, Established
<1>9. GivenUp(st) \in SessionStates /\ GivenUp(st).idle = 0 /\ GivenUp(st).waited = st.waited
  BY <1>1 DEF SessionStates, GivenUp
<1>10. StateOK([st EXCEPT !.phase = "idle", !.waited = 0])
  <2> DEFINE tt == [st EXCEPT !.phase = "idle", !.waited = 0]
  <2>1. tt \in SessionStates /\ tt.idle = st.idle /\ tt.waited = 0
    BY <1>1 DEF SessionStates
  <2> QED
    BY <1>2, <2>1 DEF StateOK
<1>11. /\ StateOK([st EXCEPT !.watching = FALSE])
       /\ \A b \in BOOLEAN : StateOK([st EXCEPT !.closing = b])
       /\ StateOK([st EXCEPT !.closing = TRUE, !.draining = TRUE])
  BY <1>1 DEF SessionStates, StateOK
<1>12. StateOK([st EXCEPT !.up = TRUE, !.attempts = 0])
  <2> DEFINE tt == [st EXCEPT !.up = TRUE, !.attempts = 0]
  <2>1. tt \in SessionStates /\ tt.idle = st.idle /\ tt.waited = st.waited
    BY <1>1, <1>4 DEF SessionStates
  <2> QED
    BY <2>1 DEF StateOK
<1>13. st.attempts < MaxHello =>
         HelloSent(st) \in SessionStates /\ HelloSent(st).idle = 0 /\ HelloSent(st).waited = 0
  BY <1>1, <1>3 DEF SessionStates, HelloSent
<1> QED
  BY <1>2, <1>5, <1>6, <1>7, <1>8, <1>9, <1>10, <1>11, <1>12, <1>13 DEF StateOK

\* The link closes under the peer.
LEMMA PeerChanges ==
  ASSUME NEW pe, PeerOK(pe), direct \in BOOLEAN, NEW b \in BOOLEAN
  PROVE  /\ PeerOK([pe EXCEPT !.open = b, !.quiet = 0])
         /\ PeerOK([pe EXCEPT !.quiet = 0])
         /\ \A r \in 1 .. 2 : PeerOK([open |-> b, quiet |-> 0, revision |-> r])
<1> DEFINE Q == 0 .. SessionTimeout[direct]
           R == 1 .. 2
<1>1. 0 \in Q /\ pe \in [open : BOOLEAN, quiet : Q, revision : R]
  BY Bounds DEF PeerOK
<1> HIDE DEF Q, R
<1>2. /\ [pe EXCEPT !.open = b, !.quiet = 0] \in [open : BOOLEAN, quiet : Q, revision : R]
      /\ [pe EXCEPT !.quiet = 0] \in [open : BOOLEAN, quiet : Q, revision : R]
      /\ \A r \in R : [open |-> b, quiet |-> 0, revision |-> r]
                        \in [open : BOOLEAN, quiet : Q, revision : R]
  BY <1>1
<1> QED
  BY <1>2 DEF PeerOK, Q, R

\* A link closed under either end leaves both with their types.
LEMMA CloseLinkType ==
  ASSUME TypeOK, NEW st, StateOK(st), CloseLink(st), UNCHANGED direct
  PROVE  StateOK(s') /\ PeerOK(peer') /\ toPeer' \in Seq(ToPeer) /\ toApp' \in Seq(ToApp)
<1>1. direct \in BOOLEAN /\ PeerOK(peer)
  BY DEF TypeOK, PeerOK
<1>2. StateOK(s')
  BY <1>1, StateChanges DEF CloseLink
<1>3. PeerOK(peer')
  BY <1>1, PeerChanges DEF CloseLink
<1> QED
  BY <1>2, <1>3, EmptySeq DEF CloseLink

-----------------------------------------------------------------------------
(* The link and both its ends, operation by operation.                     *)

\* SessionIsBacked, of this end in state st.
Backed(st) ==
  /\ st.established => st.up /\ st.phase = "active" /\ st.watching /\ st.told /\ ~st.closing
  /\ st.keepalive <=> st.established
  /\ st.watching => st.up

Sound(st, pe, p, a) ==
  /\ StateOK(st) /\ PeerOK(pe) /\ p \in Seq(ToPeer) /\ a \in Seq(ToApp)
  /\ Backed(st)
  /\ LinkInv(st, pe.open, p, a) /\ AskedInItsKind(p)

Link == Sound(s, peer, toPeer, toApp)
NextLink == Sound(s', peer', toPeer', toApp')

\* What a sound session gives, part by part.
LEMMA LinkParts ==
  ASSUME NEW st, NEW pe, NEW p, NEW a, Sound(st, pe, p, a)
  PROVE  /\ st \in SessionStates /\ StateOK(st)
         /\ PeerOK(pe) /\ pe.open \in BOOLEAN
         /\ p \in Seq(ToPeer) /\ a \in Seq(ToApp)
         /\ Backed(st)
         /\ LinkInv(st, pe.open, p, a) /\ AskedInItsKind(p)
         /\ st.phase # "idle" \/ pe.open \/ p # <<>> \/ a # <<>> => st.up
BY DEF Sound, StateOK, PeerOK, LinkInv, LinkDown

\* What is asked of the peer, with fewer frames and with more.
LEMMA AskedTail ==
  ASSUME NEW p \in Seq(ToPeer), AskedInItsKind(p), p # <<>>
  PROVE  AskedInItsKind(Tail(p))
BY Taken DEF AskedInItsKind

\* Requests of the link's own kind may follow one another.
LEMMA AskedMore ==
  ASSUME NEW p \in Seq(ToPeer), AskedInItsKind(p), NEW r \in Seq(ToPeer), AskedInItsKind(r)
  PROVE  AskedInItsKind(p \o r)
BY Followed DEF AskedInItsKind

\* Closing the link leaves a sound session, whatever was on its way.
LEMMA ClosedLink ==
  ASSUME NEW st, NEW p, NEW a, Sound(st, peer, p, a), direct \in BOOLEAN, CloseLink(st)
  PROVE  NextLink
<1>1. StateOK(s') /\ s' = Dropped(st) /\ toPeer' = <<>> /\ toApp' = <<>>
  BY StateChanges DEF CloseLink, Sound
<1>2. PeerOK(peer') /\ peer'.open = FALSE
  BY PeerChanges DEF CloseLink, Sound, PeerOK
<1>3. Backed(s')
  BY <1>1, LinkParts DEF Backed, Dropped, SessionStates
<1>4. LinkInv(s', peer'.open, toPeer', toApp')
  BY <1>1, <1>2, LinkParts, LinkFalls
<1>5. AskedInItsKind(toPeer')
  BY <1>1 DEF AskedInItsKind
<1> QED
  BY <1>1, <1>2, <1>3, <1>4, <1>5, EmptySeq DEF NextLink, Sound

\* Frames are taken.
LEMMA AppTook ==
  ASSUME NEW st, NEW pe, NEW p, NEW a, Sound(st, pe, p, a), a # <<>>
  PROVE  Sound(st, pe, p, Tail(a))
BY LinkParts, AppTakes, Taken DEF Sound

\* A frame less on its way to the peer leaves a sound session.
LEMMA PeerTook ==
  ASSUME NEW st, NEW pe, NEW p, NEW a, Sound(st, pe, p, a), p # <<>>
  PROVE  Sound(st, pe, Tail(p), a)
BY LinkParts, PeerTakes, Taken, AskedTail DEF Sound

\* This end changes what the link does not depend on.
LEMMA StateChanged ==
  ASSUME NEW st, NEW pe, NEW p, NEW a, Sound(st, pe, p, a),
         NEW tt, StateOK(tt), Backed(tt), SameLink(st, tt)
  PROVE  Sound(tt, pe, p, a)
BY LinkParts, SameLinkKeeps DEF Sound, StateOK

\* This end says something in a session.
LEMMA AppSaid ==
  ASSUME NEW st, NEW pe, NEW p, NEW a, Sound(st, pe, p, a),
         st.phase # "awaiting", st.up,
         NEW r \in Seq(ToPeer), AskedInItsKind(r), \A i \in DOMAIN r : r[i].kind # "hello"
  PROVE  Sound(st, pe, p \o r, a)
BY LinkParts, AppSays, Followed, AskedMore DEF Sound

\* One frame that this end may send by now leaves a sound session.
LEMMA AppSaidOne ==
  ASSUME NEW st, NEW pe, NEW p, NEW a, Sound(st, pe, p, a),
         st.phase # "awaiting", st.up,
         NEW kind \in {"sentinel", "stale_boot", "enumerate", "describe", "command", "close"},
         kind = "sentinel" => ~direct, kind = "stale_boot" => direct
  PROVE  Sound(st, pe, Append(p, [kind |-> kind]), a)
<1> DEFINE m == [kind |-> kind]
<1>1. m \in ToPeer /\ m.kind = kind
  BY DEF ToPeer
<1> HIDE DEF m
<1>2. <<m>> \in Seq(ToPeer) /\ DOMAIN <<m>> = {1} /\ <<m>>[1] = m
  BY <1>1, One
<1>3. Sound(st, pe, p \o <<m>>, a)
  BY <1>1, <1>2, AppSaid DEF AskedInItsKind
<1>4. Append(p, m) = p \o <<m>>
  BY <1>1, LinkParts, AppendIsConcat
<1> QED
  BY <1>3, <1>4 DEF m

\* The peer says something in a session, or leaves it.
LEMMA PeerSaid ==
  ASSUME NEW st, NEW pe, NEW p, NEW a, Sound(st, pe, p, a),
         pe.open, st.phase # "awaiting",
         NEW r \in Seq(ToApp), \A i \in DOMAIN r : r[i].kind \notin {"result", "console"}
  PROVE  Sound(st, pe, p, a \o r)
<1>1. pe.open = TRUE
  BY LinkParts
<1> QED
  BY <1>1, LinkParts, PeerSays, Followed DEF Sound

\* The peer may change anything but whether it is in a session.
LEMMA PeerChanged ==
  ASSUME NEW st, NEW pe, NEW p, NEW a, Sound(st, pe, p, a), NEW qe, PeerOK(qe),
         qe.open = pe.open
  PROVE  Sound(st, qe, p, a)
BY DEF Sound

\* The peer may leave its session, with a word on its console or without.
LEMMA PeerLeft ==
  ASSUME NEW st, NEW pe, NEW p, NEW a, Sound(st, pe, p, a), NEW qe, PeerOK(qe),
         qe.open = FALSE
  PROVE  /\ Sound(st, qe, p, a)
         /\ st.up => Sound(st, qe, p, Append(a, [kind |-> "console"]))
<1>1. LinkInv(st, FALSE, p, a)
  BY LinkParts, PeerIsGone
<1>2. st.up => LinkInv(st, FALSE, p, Append(a, [kind |-> "console"]))
  BY <1>1, LinkParts, PeerSaysSo
<1>3. Append(a, [kind |-> "console"]) \in Seq(ToApp)
  <2> DEFINE m == [kind |-> "console"]
  <2>1. m \in ToApp
    BY DEF ToApp
  <2> HIDE DEF m
  <2>2. Append(a, m) \in Seq(ToApp)
    BY <2>1, LinkParts, FollowedByOne
  <2> QED
    BY <2>2 DEF m
<1> QED
  BY <1>1, <1>2, <1>3 DEF Sound

-----------------------------------------------------------------------------
(* Every step leaves the link sound.                                       *)

\* The link comes up.
LEMMA LinkUpKeeps == Link /\ direct \in BOOLEAN /\ LinkUp => NextLink
<1> SUFFICES ASSUME Link, direct \in BOOLEAN, LinkUp PROVE NextLink
  OBVIOUS
<1> DEFINE st == [s EXCEPT !.up = TRUE, !.attempts = 0]
           m == [kind |-> "hello", n |-> 1]
<1>1. /\ StateOK(s) /\ s \in SessionStates /\ ~s.up /\ Backed(s) /\ PeerOK(peer)
      /\ LinkInv(s, peer.open, toPeer, toApp) /\ toPeer \in Seq(ToPeer)
  BY LinkParts DEF Link, LinkUp
<1>2. /\ StateOK(st) /\ st \in SessionStates /\ st.up /\ st.attempts = 0
      /\ ~st.established /\ ~st.keepalive /\ ~st.watching /\ ~st.draining
  <2>1. StateOK(st)
    BY <1>1, StateChanges
  <2>2. ~s.established /\ ~s.keepalive /\ ~s.watching /\ ~s.draining
    BY <1>1 DEF Backed, LinkInv, LinkDown
  <2>3. /\ st.up /\ st.attempts = 0
        /\ ~st.established /\ ~st.keepalive /\ ~st.watching /\ ~st.draining
    BY <1>1, <2>2 DEF SessionStates
  <2> QED
    BY <2>1, <2>3 DEF StateOK
<1>3. MaxHello \in Nat \ {0} /\ 0 < MaxHello
  BY Bounds
<1> HIDE DEF st
<1>4. s' = HelloSent(st) /\ toPeer' = <<m>> /\ peer' = peer /\ toApp' = toApp
  BY DEF LinkUp, st
<1>5. StateOK(s') /\ s' \in SessionStates
  <2>1. StateOK(HelloSent(st))
    BY <1>2, <1>3, StateChanges
  <2> QED
    BY <1>4, <2>1 DEF StateOK
<1>6. s'.up /\ s'.attempts = 1 /\ s'.phase = "awaiting" /\ ~s'.draining
      /\ ~s'.established /\ ~s'.keepalive /\ ~s'.watching
  BY <1>2, <1>4 DEF HelloSent, SessionStates
<1>7. toApp = <<>> /\ peer.open = FALSE
  BY <1>1, PeerChanges DEF LinkInv, LinkDown, PeerOK
<1>8. LinkInv(s', FALSE, <<m>>, <<>>)
  BY <1>5, <1>6, LinkRises
<1>9. m \in ToPeer /\ m.kind = "hello"
  BY <1>3 DEF ToPeer
<1> HIDE DEF m
<1>10. <<m>> \in Seq(ToPeer) /\ AskedInItsKind(<<m>>)
  BY <1>9, One DEF AskedInItsKind
<1>11. Backed(s')
  BY <1>6 DEF Backed
<1> QED
  BY <1>1, <1>4, <1>5, <1>7, <1>8, <1>10, <1>11, EmptySeq DEF NextLink, Sound

\* The link drops, or has been drained before it closes.
LEMMA LinkDownKeeps == Link /\ direct \in BOOLEAN /\ (LinkDrops \/ Drained) => NextLink
BY ClosedLink DEF Link, LinkDrops, Drained

\* This end is asked to close.
LEMMA RequestCloseKeeps == Link /\ direct \in BOOLEAN /\ RequestClose => NextLink
<1> SUFFICES ASSUME Link, direct \in BOOLEAN, RequestClose PROVE NextLink
  OBVIOUS
<1> DEFINE tt == [GivenUp(s) EXCEPT !.closing = TRUE, !.draining = TRUE]
           p == Append(toPeer, [kind |-> "close"])
<1>1. /\ s \in SessionStates /\ StateOK(s) /\ Backed(s) /\ s.established
      /\ s.phase = "active" /\ s.up
  BY LinkParts DEF Link, RequestClose, Backed
<1>2. Sound(s, peer, p, toApp)
  BY <1>1, AppSaidOne DEF Link
<1>3. s' = tt /\ toPeer' = p /\ peer' = peer /\ toApp' = toApp
  BY DEF RequestClose
<1>4. StateOK(tt)
  BY <1>1, StateChanges
<1>5. /\ tt.up = s.up /\ tt.attempts = s.attempts /\ tt.phase = s.phase
      /\ ~tt.established /\ tt.draining /\ ~tt.keepalive /\ tt.watching = s.watching
  BY <1>1 DEF SessionStates, GivenUp
<1> HIDE DEF tt, p
<1>6. LinkInv(tt, peer.open, p, toApp)
  BY <1>1, <1>2, <1>4, <1>5, LinkParts, GivingUpKeeps DEF StateOK
<1>7. Backed(tt)
  BY <1>1, <1>5 DEF Backed
<1> QED
  BY <1>2, <1>3, <1>4, <1>6, <1>7 DEF NextLink, Sound

\* The initiator gives up, and the link is recycled or left to the user.
LEMMA RecoverKeeps ==
  ASSUME NEW st, NEW a, Sound(st, peer, toPeer, a), direct \in BOOLEAN, Recover(st, a)
  PROVE  NextLink
<1>1. CASE CloseLink(st)
  BY <1>1, ClosedLink
<1>2. CASE s' = st /\ toApp' = a /\ UNCHANGED <<peer, toPeer>>
  BY <1>2 DEF NextLink
<1> QED
  BY <1>1, <1>2 DEF Recover

\* An initiator that gave up leaves its end sound and idle.
LEMMA InitiatorGivesUp ==
  ASSUME NEW a, Sound(s, peer, toPeer, a), direct \in BOOLEAN, s.up, ~s.draining
  PROVE  Sound(GivenUp([s EXCEPT !.phase = "idle", !.waited = 0]), peer, toPeer, a)
<1> DEFINE st == [s EXCEPT !.phase = "idle", !.waited = 0]
           tt == GivenUp(st)
<1>1. s \in SessionStates /\ StateOK(s) /\ Backed(s)
  BY LinkParts
<1>2. StateOK(tt) /\ tt \in SessionStates
  BY <1>1, StateChanges DEF StateOK
<1>3. /\ tt.up = s.up /\ tt.attempts = s.attempts /\ tt.phase = "idle" /\ ~tt.draining
      /\ ~tt.established /\ ~tt.keepalive /\ tt.watching = s.watching
  BY <1>1 DEF SessionStates, GivenUp
<1> HIDE DEF tt, st
<1>4. LinkInv(tt, peer.open, toPeer, a)
  BY <1>1, <1>2, <1>3, LinkParts, GivingUpKeeps
<1>5. Backed(tt)
  BY <1>1, <1>3 DEF Backed
<1>6. Sound(tt, peer, toPeer, a)
  BY <1>2, <1>4, <1>5 DEF Sound
<1> QED
  BY <1>6 DEF tt, st

\* This end's node reports that its session or its HELLO timed out.
LEMMA NodeTimesOutKeeps == Link /\ direct \in BOOLEAN /\ NodeTimesOut => NextLink
<1> SUFFICES ASSUME Link, direct \in BOOLEAN, NodeTimesOut PROVE NextLink
  OBVIOUS
<1>1. /\ s \in SessionStates /\ StateOK(s) /\ Backed(s) /\ PeerOK(peer) /\ peer.open \in BOOLEAN
      /\ toPeer \in Seq(ToPeer) /\ toApp \in Seq(ToApp) /\ AskedInItsKind(toPeer)
      /\ LinkInv(s, peer.open, toPeer, toApp)
      /\ s.phase # "idle" /\ s.up /\ ~s.draining
  BY LinkParts DEF Link, NodeTimesOut, InitiatorTimedOut
<1> DEFINE m == [kind |-> "hello", n |-> s.attempts + 1]
<1>2. CASE /\ ~s.established /\ s.attempts < MaxHello
           /\ s' = HelloSent(s) /\ toPeer' = Append(toPeer, m)
           /\ UNCHANGED <<peer, toApp>>
  <2>1. StateOK(s')
    BY <1>1, <1>2, StateChanges
  <2>2. LinkInv(s', peer'.open, toPeer', toApp')
    BY <1>1, <1>2, HelloGoes
  <2>3. Backed(s')
    BY <1>1, <1>2 DEF Backed, HelloSent, SessionStates
  <2>4. m \in ToPeer /\ m.kind = "hello"
    <3>1. s.attempts \in 0 .. MaxHello /\ MaxHello \in Nat
      BY <1>1, Bounds DEF SessionStates
    <3>2. s.attempts + 1 \in 1 .. MaxHello
      BY <1>2, <3>1
    <3> QED
      BY <3>2 DEF ToPeer
  <2> HIDE DEF m
  <2>5. toPeer' \in Seq(ToPeer) /\ AskedInItsKind(toPeer')
    BY <1>1, <1>2, <2>4, FollowedByOne DEF AskedInItsKind
  <2> QED
    BY <1>1, <1>2, <2>1, <2>2, <2>3, <2>5 DEF NextLink, Sound
<1>3. CASE Recover(GivenUp([s EXCEPT !.phase = "idle", !.waited = 0]), toApp)
  BY <1>1, <1>3, InitiatorGivesUp, RecoverKeeps DEF Link
<1> QED
  BY <1>2, <1>3 DEF NodeTimesOut, MayRepeatHello

\* This end's timers and applications.
LEMMA SentKeeps ==
  ASSUME NEW st, NEW pe, NEW p, NEW a, Sound(st, pe, p, a), direct \in BOOLEAN
  PROVE  Sound(Sent(st), pe, p, a) /\ SameLink(st, Sent(st))
<1>1. StateOK(Sent(st)) /\ st \in SessionStates /\ Backed(st)
  BY LinkParts, StateChanges
<1>2. Backed(Sent(st)) /\ SameLink(st, Sent(st))
  BY <1>1 DEF Backed, SameLink, Sent, SessionStates
<1> QED
  BY <1>1, <1>2, StateChanged

\* Hearing from the peer leaves the session sound.
LEMMA HeardKeeps ==
  ASSUME NEW st, NEW pe, NEW p, NEW a, Sound(st, pe, p, a), direct \in BOOLEAN
  PROVE  Sound(Heard(st), pe, p, a) /\ SameLink(st, Heard(st))
<1>1. StateOK(Heard(st)) /\ st \in SessionStates /\ Backed(st)
  BY LinkParts, StateChanges
<1>2. Backed(Heard(st)) /\ SameLink(st, Heard(st))
  BY <1>1 DEF Backed, SameLink, Heard, SessionStates
<1> QED
  BY <1>1, <1>2, StateChanged

\* This end sends a keepalive or a request.
LEMMA AppSendsKeeps ==
  Link /\ direct \in BOOLEAN /\ (SendKeepalive \/ AppSends) => NextLink
<1> SUFFICES ASSUME Link, direct \in BOOLEAN, SendKeepalive \/ AppSends PROVE NextLink
  OBVIOUS
<1>1. Sound(Sent(s), peer, toPeer, toApp) /\ Sent(s).phase = "active" /\ Sent(s).up
  BY SentKeeps, LinkParts DEF Link, Backed, SendKeepalive, AppSends, SameLink
<1>2. PICK kind \in {"sentinel", "stale_boot", "enumerate", "command"} :
        /\ kind = "sentinel" => ~direct
        /\ kind = "stale_boot" => direct
        /\ Send(s, kind) /\ UNCHANGED <<peer, toApp>>
  BY DEF SendKeepalive, AppSends, KeepaliveKind
<1>3. Sound(Sent(s), peer, Append(toPeer, [kind |-> kind]), toApp)
  BY <1>1, <1>2, AppSaidOne
<1> QED
  BY <1>2, <1>3 DEF Send, NextLink

\* What arrives here.
LEMMA HelloAnsweredKeeps == Link /\ direct \in BOOLEAN /\ HelloAnswered => NextLink
<1> SUFFICES ASSUME Link, direct \in BOOLEAN, HelloAnswered PROVE NextLink
  OBVIOUS
<1>1. /\ s \in SessionStates /\ StateOK(s) /\ Backed(s) /\ PeerOK(peer) /\ peer.open \in BOOLEAN
      /\ toPeer \in Seq(ToPeer) /\ toApp \in Seq(ToApp) /\ AskedInItsKind(toPeer)
      /\ LinkInv(s, peer.open, toPeer, toApp)
      /\ s.phase = "awaiting" /\ s.up /\ ~s.draining
  BY LinkParts DEF Link, HelloAnswered, IsAwaited, LinkInv, CloseDrains
<1>2. toApp # <<>> /\ Head(toApp).kind = "result" /\ Head(toApp).n = s.attempts
  BY DEF HelloAnswered, IsAwaited
<1>3. Sound(s, peer, toPeer, Tail(toApp))
  BY <1>2, AppTook DEF Link
<1>4. CASE /\ s' = Established(s) /\ toPeer' = toPeer \o CatalogQuery
           /\ toApp' = Tail(toApp) /\ UNCHANGED peer
  <2>1. StateOK(s') /\ s'.phase = "active" /\ s'.up /\ Backed(s')
    <3>1. StateOK(s')
      BY <1>1, <1>4, StateChanges
    <3> QED
      BY <1>1, <1>4, <3>1 DEF Backed, Established, SessionStates
  <2>2. LinkInv(s', peer.open, toPeer, Tail(toApp))
    BY <1>1, <1>2, <1>4, SessionBegins
  <2>3. Sound(s', peer, toPeer, Tail(toApp))
    BY <1>1, <1>3, <2>1, <2>2 DEF Sound
  <2>4. /\ CatalogQuery \in Seq(ToPeer) /\ AskedInItsKind(CatalogQuery)
        /\ \A i \in DOMAIN CatalogQuery : CatalogQuery[i].kind # "hello"
    <3> DEFINE describe == [kind |-> "describe"]
               enumerate == [kind |-> "enumerate"]
    <3>1. /\ describe \in ToPeer /\ describe.kind = "describe"
          /\ enumerate \in ToPeer /\ enumerate.kind = "enumerate"
      BY DEF ToPeer
    <3>2. CatalogQuery \in {<<>>, <<describe>>, <<enumerate>>}
      BY DEF CatalogQuery
    <3> HIDE DEF describe, enumerate
    <3>3. CASE CatalogQuery = <<>>
      BY <3>3, EmptySeq DEF AskedInItsKind
    <3>4. CASE CatalogQuery = <<describe>>
      BY <3>1, <3>4, One DEF AskedInItsKind
    <3>5. CASE CatalogQuery = <<enumerate>>
      BY <3>1, <3>5, One DEF AskedInItsKind
    <3> QED
      BY <3>2, <3>3, <3>4, <3>5
  <2>5. Sound(s', peer, toPeer \o CatalogQuery, Tail(toApp))
    BY <2>1, <2>3, <2>4, AppSaid
  <2> QED
    BY <1>4, <2>5 DEF NextLink
<1>5. CASE Recover(GivenUp([s EXCEPT !.phase = "idle", !.waited = 0]), Tail(toApp))
  BY <1>1, <1>3, <1>5, InitiatorGivesUp, RecoverKeeps
<1> QED
  BY <1>4, <1>5 DEF HelloAnswered

\* This end reads a late HELLO_RESULT, a manifest or an answer.
LEMMA ReadKeeps ==
  Link /\ direct \in BOOLEAN /\ (LateResult \/ ManifestArrives \/ AnswerArrives) => NextLink
<1> SUFFICES ASSUME Link, direct \in BOOLEAN, LateResult \/ ManifestArrives \/ AnswerArrives
             PROVE  NextLink
  OBVIOUS
<1>1. /\ toApp # <<>> /\ s' = Heard(s) /\ toApp' = Tail(toApp)
      /\ UNCHANGED <<peer, toPeer>>
  BY DEF LateResult, ManifestArrives, AnswerArrives
<1>2. Sound(Heard(s), peer, toPeer, Tail(toApp))
  BY <1>1, AppTook, HeardKeeps DEF Link
<1> QED
  BY <1>1, <1>2 DEF NextLink

\* Telemetry arrives.
LEMMA TelemetryArrivesKeeps == Link /\ direct \in BOOLEAN /\ TelemetryArrives => NextLink
<1> SUFFICES ASSUME Link, direct \in BOOLEAN, TelemetryArrives PROVE NextLink
  OBVIOUS
<1>1. /\ toApp # <<>> /\ Head(toApp).kind = "telemetry" /\ toApp' = Tail(toApp)
      /\ \/ Send(Heard(s), "describe")
         \/ s' = Heard(s) /\ toPeer' = toPeer
      /\ peer' = peer
  BY DEF TelemetryArrives
<1>2. /\ Sound(Heard(s), peer, toPeer, Tail(toApp)) /\ Heard(s).phase = s.phase
      /\ Heard(s).up = s.up /\ s.up
  BY <1>1, AppTook, HeardKeeps, LinkParts DEF Link, SameLink
<1>3. CASE s' = Heard(s) /\ toPeer' = toPeer
  BY <1>1, <1>2, <1>3 DEF NextLink
<1>4. CASE Send(Heard(s), "describe")
  <2>1. s.phase # "awaiting"
    <3>1. 1 \in DOMAIN toApp /\ Head(toApp) = toApp[1] /\ NoDataYet(s, toApp)
      BY <1>1, Taken, LinkParts DEF Link, LinkInv
    <3> QED
      BY <1>1, <3>1 DEF NoDataYet, NoData, IsData
  <2>2. /\ Sound(Sent(Heard(s)), peer, toPeer, Tail(toApp))
        /\ Sent(Heard(s)).phase = s.phase /\ Sent(Heard(s)).up
    BY <1>2, SentKeeps DEF SameLink
  <2>3. Sound(Sent(Heard(s)), peer, Append(toPeer, [kind |-> "describe"]), Tail(toApp))
    BY <2>1, <2>2, AppSaidOne
  <2> QED
    BY <1>1, <1>4, <2>3 DEF Send, NextLink
<1> QED
  BY <1>1, <1>3, <1>4

\* A line of the peer's console arrives, which ends a session.
LEMMA ConsoleLineKeeps == Link /\ direct \in BOOLEAN /\ ConsoleLine => NextLink
<1> SUFFICES ASSUME Link, direct \in BOOLEAN, ConsoleLine PROVE NextLink
  OBVIOUS
<1> DEFINE quiet == [s EXCEPT !.watching = FALSE]
           b == Tail(toApp)
<1>1. /\ toApp # <<>> /\ Head(toApp).kind = "console"
      /\ \/ s.watching /\ ~s.closing /\ Recover(GivenUp(quiet), b)
         \/ /\ s' = [quiet EXCEPT !.closing = s.closing /\ ~s.watching]
            /\ toApp' = b /\ UNCHANGED <<peer, toPeer>>
            /\ ~s.watching \/ s.closing
  BY DEF ConsoleLine
<1>2. /\ s \in SessionStates /\ StateOK(s) /\ Backed(s) /\ s.up /\ peer.open \in BOOLEAN
      /\ LinkInv(s, peer.open, toPeer, toApp)
      /\ toPeer \in Seq(ToPeer) /\ toApp \in Seq(ToApp)
  BY <1>1, LinkParts DEF Link
<1>3. Sound(s, peer, toPeer, b)
  BY <1>1, AppTook DEF Link
<1>4. CASE ~s.watching \/ s.closing
  <2> DEFINE tt == [quiet EXCEPT !.closing = s.closing /\ ~s.watching]
  <2>1. (s.closing /\ ~s.watching) \in BOOLEAN
    OBVIOUS
  <2>2. StateOK(tt)
    BY <1>2, <2>1, StateChanges
  <2>3. Backed(tt) /\ SameLink(s, tt)
    BY <1>2, <1>4 DEF Backed, SameLink, SessionStates
  <2>4. Sound(tt, peer, toPeer, b)
    BY <1>3, <2>2, <2>3, StateChanged
  <2> QED
    BY <1>1, <1>4, <2>4 DEF NextLink
<1>5. CASE s.watching /\ ~s.closing /\ Recover(GivenUp(quiet), b)
  <2> DEFINE tt == GivenUp(quiet)
  <2>1. StateOK(tt) /\ tt \in SessionStates
    <3>1. StateOK(quiet)
      BY <1>2, StateChanges
    <3> QED
      BY <3>1, StateChanges DEF StateOK
  <2>2. /\ tt.up = s.up /\ tt.attempts = s.attempts /\ tt.phase = s.phase
        /\ ~tt.established /\ tt.draining = s.draining
        /\ ~tt.keepalive /\ ~tt.watching
    BY <1>2 DEF GivenUp, SessionStates
  <2>3. b \in Seq(ToApp) /\ LinkInv(s, peer.open, toPeer, b)
    BY <1>3, LinkParts
  <2>4. s.phase = "active" => ~peer.open /\ NoData(b)
    BY <1>1, <1>2, ConsoleFinds
  <2> HIDE DEF tt, b
  <2>5. LinkInv(tt, peer.open, toPeer, b)
    <3>1. CASE s.phase = "active" /\ ~s.draining
      BY <1>2, <2>1, <2>2, <2>3, <2>4, <3>1, GivingUpKeeps
    <3>2. CASE s.draining
      BY <1>2, <2>1, <2>2, <2>3, <3>2, GivingUpKeeps DEF LinkInv, CloseDrains
    <3>3. CASE s.phase # "active" /\ ~s.draining
      <4>1. tt.closing => s.closing
        BY <1>2 DEF tt, GivenUp, SessionStates
      <4>2. s.established = FALSE /\ tt.established = FALSE
        BY <1>2, <2>1, <2>2, <3>3 DEF Backed, SessionStates
      <4>3. SameLink(s, tt)
        BY <2>2, <4>1, <4>2 DEF SameLink
      <4> QED
        BY <1>2, <2>1, <2>3, <4>3, SameLinkKeeps
    <3> QED
      BY <3>1, <3>2, <3>3
  <2>6. Backed(tt)
    BY <2>2 DEF Backed
  <2>7. Sound(tt, peer, toPeer, b)
    BY <1>3, <2>1, <2>5, <2>6 DEF Sound
  <2> QED
    BY <1>5, <2>7, RecoverKeeps DEF tt
<1> QED
  BY <1>1, <1>4, <1>5

\* The peer.
LEMMA PeerAnswersHelloKeeps == Link /\ direct \in BOOLEAN /\ PeerAnswersHello => NextLink
<1> SUFFICES ASSUME Link, direct \in BOOLEAN, PeerAnswersHello PROVE NextLink
  OBVIOUS
<1>1. /\ s \in SessionStates /\ StateOK(s) /\ Backed(s) /\ PeerOK(peer) /\ peer.open \in BOOLEAN
      /\ toPeer \in Seq(ToPeer) /\ toApp \in Seq(ToApp) /\ AskedInItsKind(toPeer)
      /\ LinkInv(s, peer.open, toPeer, toApp)
      /\ toPeer # <<>> /\ Head(toPeer).kind = "hello" /\ toPeer' = Tail(toPeer) /\ s' = s
  BY LinkParts DEF Link, PeerAnswersHello
<1>2. PICK answer \in {"ok", "alien", "refused"} :
        /\ toApp' = toApp \o <<[kind |-> "result", n |-> Head(toPeer).n, answer |-> answer]>>
        /\ peer' = [peer EXCEPT !.open = (answer # "refused"), !.quiet = 0]
  BY DEF PeerAnswersHello, Reply
<1>3. PeerOK(peer') /\ peer'.open \in BOOLEAN
  <2>1. (answer # "refused") \in BOOLEAN
    OBVIOUS
  <2> QED
    BY <1>1, <1>2, <2>1, PeerChanges DEF PeerOK
<1>4. LinkInv(s, peer'.open, toPeer', toApp')
  <2>1. LinkInv(s, peer'.open, Tail(toPeer),
                toApp \o <<[kind |-> "result", n |-> Head(toPeer).n, answer |-> answer]>>)
    BY <1>1, <1>3, PeerAnswers
  <2> QED
    BY <1>1, <1>2, <2>1
<1>5. toApp' \in Seq(ToApp)
  <2> DEFINE m == [kind |-> "result", n |-> Head(toPeer).n, answer |-> answer]
  <2>1. m \in ToApp
    <3>1. Head(toPeer) \in ToPeer
      BY <1>1, Taken
    <3>2. Head(toPeer).n \in 1 .. MaxHello
      BY <1>1, <3>1, Numbered
    <3> QED
      BY <3>2 DEF ToApp
  <2> HIDE DEF m
  <2>2. toApp \o <<m>> \in Seq(ToApp)
    BY <1>1, <2>1, One, Followed
  <2> QED
    BY <1>2, <2>2 DEF m
<1> QED
  BY <1>1, <1>3, <1>4, <1>5, Taken, AskedTail DEF NextLink, Sound

\* The peer receives a frame.
LEMMA PeerReceivesKeeps == Link /\ direct \in BOOLEAN /\ PeerReceives => NextLink
<1> SUFFICES ASSUME Link, direct \in BOOLEAN, PeerReceives PROVE NextLink
  OBVIOUS
<1>1. /\ toPeer # <<>> /\ Head(toPeer).kind # "hello" /\ toPeer' = Tail(toPeer) /\ s' = s
      /\ \/ /\ peer.open /\ peer' = [peer EXCEPT !.quiet = 0]
            /\ toApp' = toApp \o Replies(Head(toPeer).kind)
         \/ ~peer.open /\ peer' = peer /\ toApp' = toApp
  BY DEF PeerReceives, Reply
<1>2. Sound(s, peer, Tail(toPeer), toApp)
  BY <1>1, PeerTook DEF Link
<1>3. CASE ~peer.open /\ peer' = peer /\ toApp' = toApp
  BY <1>1, <1>2, <1>3 DEF NextLink
<1>4. CASE /\ peer.open /\ peer' = [peer EXCEPT !.quiet = 0]
           /\ toApp' = toApp \o Replies(Head(toPeer).kind)
  <2>1. s.phase # "awaiting"
    BY <1>1, <1>4, LinkParts, Taken DEF Link, LinkInv, OnlyHellosOpen
  <2>2. PeerOK(peer') /\ peer'.open = peer.open
    BY <1>4, LinkParts, PeerChanges DEF Link, PeerOK
  <2>3. Sound(s, peer', Tail(toPeer), toApp)
    BY <1>2, <2>2, PeerChanged
  <2> DEFINE r == Replies(Head(toPeer).kind)
  <2>4. r \in Seq(ToApp) /\ \A i \in DOMAIN r : IsReply(r[i])
    BY RepliesType
  <2> HIDE DEF r
  <2>5. Sound(s, peer', Tail(toPeer), toApp \o r)
    BY <1>4, <2>1, <2>2, <2>3, <2>4, PeerSaid DEF IsReply
  <2> QED
    BY <1>1, <1>4, <2>5 DEF NextLink, r
<1> QED
  BY <1>1, <1>3, <1>4

\* The peer leaves, whatever made it leave.
LEMMA PeerEndsKeeps ==
  ASSUME NEW p, Sound(s, peer, p, toApp), direct \in BOOLEAN, s.up, s' = s,
         toPeer' = p, PeerEnds
  PROVE  NextLink
<1>1. PeerOK(peer') /\ peer'.open = FALSE
  BY LinkParts, PeerChanges DEF PeerEnds, PeerOK
<1>2. Sound(s, peer', p, toApp) /\ Sound(s, peer', p, Append(toApp, [kind |-> "console"]))
  BY <1>1, PeerLeft
<1>3. toApp' \in {toApp, Append(toApp, [kind |-> "console"])}
  <2> DEFINE m == [kind |-> "console"]
  <2>1. toApp \in Seq(ToApp) /\ m \in ToApp
    BY LinkParts DEF ToApp
  <2> HIDE DEF m
  <2>2. toApp \o <<>> = toApp /\ toApp \o <<m>> = Append(toApp, m)
    BY <2>1, ConcatEmptySeq, AppendIsConcat
  <2>3. toApp' = toApp \o <<>> \/ toApp' = toApp \o <<m>>
    BY DEF PeerEnds, Reply, m
  <2> QED
    BY <2>2, <2>3 DEF m
<1> QED
  BY <1>2, <1>3 DEF NextLink

\* The peer closes, times out or leaves.
LEMMA PeerLeavesKeeps ==
  Link /\ TypeOK /\ (PeerCloses \/ PeerTimesOut \/ PeerLeaves) => NextLink
<1> SUFFICES ASSUME Link, TypeOK, PeerCloses \/ PeerTimesOut \/ PeerLeaves PROVE NextLink
  OBVIOUS
<1>1. direct \in BOOLEAN /\ s' = s /\ peer.revision \in 1 .. 2
  BY DEF TypeOK, PeerCloses, PeerTimesOut, PeerLeaves
<1>2. CASE PeerCloses
  <2>1. Sound(s, peer, Tail(toPeer), toApp) /\ s.up
    BY <1>2, PeerTook, LinkParts DEF Link, PeerCloses
  <2> QED
    BY <1>1, <1>2, <2>1, PeerEndsKeeps DEF PeerCloses
<1>3. CASE PeerTimesOut
  BY <1>1, <1>3, PeerEndsKeeps, LinkParts DEF Link, PeerTimesOut, PeerDue
<1>4. CASE PeerLeaves
  <2>1. CASE PeerEnds
    BY <1>1, <1>4, <2>1, PeerEndsKeeps DEF Link, PeerLeaves
  <2>2. CASE ~PeerEnds
    <3>1. PICK r \in 1 .. 2 : peer' = [open |-> FALSE, quiet |-> 0, revision |-> r]
      BY <1>1, <1>4, <2>2 DEF PeerLeaves
    <3>2. PeerOK(peer') /\ peer'.open = FALSE
      BY <1>1, <3>1, PeerChanges, LinkParts DEF Link
    <3>3. Sound(s, peer', toPeer, toApp)
      BY <3>2, PeerLeft DEF Link
    <3> QED
      BY <1>1, <1>4, <2>2, <3>3 DEF NextLink, PeerLeaves
  <2> QED
    BY <2>1, <2>2
<1> QED
  BY <1>2, <1>3, <1>4

\* The peer sends telemetry.
LEMMA PeerStreamsKeeps == Link /\ direct \in BOOLEAN /\ PeerStreams => NextLink
<1> SUFFICES ASSUME Link, direct \in BOOLEAN, PeerStreams PROVE NextLink
  OBVIOUS
<1> DEFINE m == [kind |-> "telemetry"]
<1>1. m \in ToApp /\ m.kind = "telemetry"
  BY DEF ToApp
<1>2. toApp' = toApp \o <<m>> /\ peer.open /\ s.phase = "active"
      /\ UNCHANGED <<s, peer, toPeer>>
  BY DEF PeerStreams, Reply
<1> HIDE DEF m
<1>3. Sound(s, peer, toPeer, toApp \o <<m>>)
  <2>1. <<m>> \in Seq(ToApp) /\ \A i \in DOMAIN <<m>> : <<m>>[i].kind = "telemetry"
    BY <1>1, One
  <2> DEFINE r == <<m>>
  <2> HIDE DEF r
  <2>2. Sound(s, peer, toPeer, toApp \o r)
    <3>1. r \in Seq(ToApp) /\ \A i \in DOMAIN r : r[i].kind \notin {"result", "console"}
      BY <2>1 DEF r
    <3> QED
      BY <1>2, <3>1, PeerSaid DEF Link
  <2> QED
    BY <2>2 DEF r
<1> QED
  BY <1>2, <1>3 DEF NextLink

\* A frame is lost, in one direction or the other.
LEMMA LosesKeeps == Link /\ Loses => NextLink
BY AppTook, PeerTook DEF Link, NextLink, Loses

\* Time passes.
LEMMA TickKeeps == Link /\ TypeOK /\ Tick => NextLink
<1> SUFFICES ASSUME Link, TypeOK, Tick PROVE NextLink
  OBVIOUS
<1>1. /\ s \in SessionStates /\ StateOK(s) /\ Backed(s) /\ PeerOK(peer)
      /\ direct \in BOOLEAN
  BY LinkParts DEF Link, TypeOK
<1>2. /\ KeepaliveEvery[direct] \in Nat /\ SessionTimeout[direct] \in Nat
      /\ s.idle \in Nat /\ s.waited \in Nat /\ peer.quiet \in Nat
      /\ s.idle <= KeepaliveEvery[direct] /\ s.waited <= SessionTimeout[direct]
      /\ peer.quiet <= SessionTimeout[direct]
  BY <1>1, Bounds DEF StateOK, PeerOK, SessionStates
<1> DEFINE w == IF s.phase = "idle" THEN 0 ELSE Later(s.waited)
           d == IF s.keepalive THEN s.idle + 1 ELSE 0
           q == IF peer.open THEN peer.quiet + 1 ELSE 0
<1>3. w \in Nat /\ w <= SessionTimeout[direct]
  BY <1>2 DEF Later
<1>4. d \in Nat /\ d <= KeepaliveEvery[direct]
  BY <1>2 DEF Tick, KeepaliveDue
<1>5. q \in 0 .. SessionTimeout[direct]
  BY <1>2 DEF Tick, PeerDue
<1>6. s' = [s EXCEPT !.waited = w, !.idle = d] /\ peer' = [peer EXCEPT !.quiet = q]
      /\ UNCHANGED <<toPeer, toApp>>
  BY DEF Tick
<1> HIDE DEF w, d, q
<1>7. StateOK(s') /\ Backed(s') /\ SameLink(s, s')
  <2>1. s' \in SessionStates /\ s'.waited = w /\ s'.idle = d
    BY <1>1, <1>3, <1>4, <1>6 DEF SessionStates
  <2>2. Backed(s') /\ SameLink(s, s')
    BY <1>1, <1>6 DEF SessionStates, Backed, SameLink
  <2> QED
    BY <1>3, <1>4, <2>1, <2>2 DEF StateOK
<1>8. PeerOK(peer') /\ peer'.open = peer.open
  <2> DEFINE Q == 0 .. SessionTimeout[direct]
             R == 1 .. 2
  <2>1. q \in Q /\ peer \in [open : BOOLEAN, quiet : Q, revision : R]
    BY <1>1, <1>5 DEF PeerOK
  <2> HIDE DEF Q, R
  <2>2. peer' \in [open : BOOLEAN, quiet : Q, revision : R] /\ peer'.open = peer.open
    BY <1>6, <2>1
  <2> QED
    BY <2>2 DEF PeerOK, Q, R
<1>9. Sound(s', peer, toPeer, toApp)
  BY <1>7, StateChanged DEF Link
<1>10. Sound(s', peer', toPeer, toApp)
  BY <1>8, <1>9, PeerChanged
<1> QED
  BY <1>6, <1>10 DEF NextLink

\* What no step changes, and what it counts.
LEMMA CountersType ==
  TypeOK /\ [Next]_vars =>
    /\ direct' = direct /\ auto' = auto
    /\ catalog' \subseteq Others \cup {Peer}
    /\ cooldown' \in 0 .. AskAgainAfter[direct]
    /\ asked' \in 0 .. 2
    /\ lost' \in 0 .. MaxLost
    /\ faults' \in 0 .. MaxFault
<1> SUFFICES ASSUME TypeOK, [Next]_vars
             PROVE  /\ direct' = direct /\ auto' = auto
                    /\ catalog' \subseteq Others \cup {Peer}
                    /\ cooldown' \in 0 .. AskAgainAfter[direct]
                    /\ asked' \in 0 .. 2
                    /\ lost' \in 0 .. MaxLost
                    /\ faults' \in 0 .. MaxFault
  OBVIOUS
<1>1. /\ direct \in BOOLEAN /\ catalog \subseteq Others \cup {Peer}
      /\ AskAgainAfter[direct] \in Nat /\ cooldown \in 0 .. AskAgainAfter[direct]
      /\ asked \in 0 .. 2 /\ MaxLost \in Nat /\ lost \in 0 .. MaxLost
      /\ MaxFault \in Nat /\ faults \in 0 .. MaxFault /\ peer.revision \in 1 .. 2
  BY Bounds DEF TypeOK
<1>2. CASE LinkUp \/ Drained \/ NodeTimesOut \/ SendKeepalive \/ AppSends \/ LateResult
           \/ ConsoleLine \/ PeerReceives \/ PeerCloses \/ PeerTimesOut \/ PeerStreams
           \/ UNCHANGED vars
  BY <1>1, <1>2 DEF LinkUp, Drained, NodeTimesOut, SendKeepalive, AppSends, LateResult,
     ConsoleLine, PeerReceives, PeerCloses, PeerTimesOut, PeerStreams, vars
<1>3. CASE LinkDrops \/ RequestClose \/ PeerLeaves
  BY <1>1, <1>3 DEF LinkDrops, RequestClose, PeerLeaves
<1>4. CASE HelloAnswered
  BY <1>1, <1>4 DEF HelloAnswered
<1>5. CASE ManifestArrives
  <2>1. Head(toApp).source \in Others \cup {Peer}
    <3>1. Head(toApp) \in ToApp
      BY <1>5, Taken DEF TypeOK, ManifestArrives
    <3> QED
      BY <1>5, <3>1 DEF ManifestArrives, ToApp
  <2> QED
    BY <1>1, <1>5, <2>1 DEF ManifestArrives
<1>6. CASE AnswerArrives
  BY <1>1, <1>6 DEF AnswerArrives
<1>7. CASE TelemetryArrives
  BY <1>1, <1>7 DEF TelemetryArrives
<1>8. CASE PeerAnswersHello
  BY <1>1, <1>8 DEF PeerAnswersHello
<1>9. CASE Loses
  BY <1>1, <1>9 DEF Loses
<1>10. CASE Tick
  BY <1>1, <1>10 DEF Tick
<1> QED
  BY <1>2, <1>3, <1>4, <1>5, <1>6, <1>7, <1>8, <1>9, <1>10 DEF Next, System

\* The invariant of the link, as its parts.
LEMMA LinkIInvIsLink == LinkIInv <=> TypeOK /\ Link
<1>1. SessionIsBacked <=> Backed(s)
  BY DEF SessionIsBacked, Backed
<1> QED
  BY <1>1 DEF LinkIInv, Link, Sound, TypeOK, StateOK, PeerOK

\* The initial state has it.
LEMMA InitLinkIInv == Init => LinkIInv
<1> SUFFICES ASSUME Init PROVE LinkIInv
  OBVIOUS
<1>1. TypeOK
  BY InitType
<1>2. SessionIsBacked
  BY DEF Init, SessionIsBacked
<1>3. LinkInv(s, peer.open, toPeer, toApp)
  <2>1. s \in SessionStates /\ Dropped(s) \in SessionStates
    BY <1>1, StateChanges DEF TypeOK, StateOK
  <2>2. SameLink(Dropped(s), s)
    BY <2>1 DEF SessionStates, SameLink, Init, Dropped
  <2>3. LinkInv(s, FALSE, <<>>, <<>>)
    BY <2>1, <2>2, LinkFalls, SameLinkKeeps, EmptySeq
  <2> QED
    BY <2>3 DEF Init
<1>4. AskedInItsKind(toPeer)
  BY DEF Init, AskedInItsKind
<1> QED
  BY <1>1, <1>2, <1>3, <1>4 DEF LinkIInv

\* One case per action: every step leaves a sound session.
LEMMA StepLink == LinkIInv /\ [Next]_vars => NextLink
<1> SUFFICES ASSUME LinkIInv, [Next]_vars PROVE NextLink
  OBVIOUS
<1>1. TypeOK /\ Link /\ direct \in BOOLEAN
  BY LinkIInvIsLink DEF TypeOK
<1>2. CASE UNCHANGED vars
  BY <1>1, <1>2 DEF Link, NextLink, vars
<1> QED
  BY <1>1, <1>2, LinkUpKeeps, LinkDownKeeps, RequestCloseKeeps, NodeTimesOutKeeps, AppSendsKeeps,
     HelloAnsweredKeeps, ReadKeeps, TelemetryArrivesKeeps, ConsoleLineKeeps,
     PeerAnswersHelloKeeps, PeerReceivesKeeps, PeerLeavesKeeps, PeerStreamsKeeps, LosesKeeps,
     TickKeeps
  DEF Next, System

\* Every step preserves the invariant of the link.
LEMMA StepLinkIInv == LinkIInv /\ [Next]_vars => LinkIInv'
<1> SUFFICES ASSUME LinkIInv, [Next]_vars PROVE LinkIInv'
  OBVIOUS
<1>1. NextLink
  BY StepLink
<1>2. /\ direct' = direct /\ auto' = auto /\ direct \in BOOLEAN /\ auto \in BOOLEAN
      /\ catalog' \subseteq Others \cup {Peer}
      /\ cooldown' \in 0 .. AskAgainAfter[direct]
      /\ asked' \in 0 .. 2
      /\ lost' \in 0 .. MaxLost
      /\ faults' \in 0 .. MaxFault
  BY CountersType DEF LinkIInv, TypeOK
<1>3. TypeOK'
  BY <1>1, <1>2 DEF NextLink, Sound, StateOK, PeerOK, TypeOK
<1>4. SessionIsBacked'
  BY <1>1 DEF NextLink, Sound, Backed, SessionIsBacked
<1>5. LinkInv(s', peer'.open, toPeer', toApp')
  BY <1>1 DEF NextLink, Sound
<1>6. AskedInItsKind(toPeer)'
  BY <1>1, <1>2 DEF NextLink, Sound, AskedInItsKind
<1> QED
  BY <1>3, <1>4, <1>5, <1>6 DEF LinkIInv

-----------------------------------------------------------------------------
(* Types and the session, for every schedule of the clocks.                *)

\* Both ends, the frames between them and the counters keep their types.
THEOREM TypeCorrect == Spec => []TypeOK
<1>1. LinkIInv => TypeOK
  BY DEF LinkIInv
<1> QED
  BY <1>1, InitLinkIInv, StepLinkIInv, PTL DEF Spec

\* A session that this end believes in has everything under it, and without one
\* no keepalive runs (btpbackend.cpp, onNodeConnected against the four ways out).
THEOREM SessionIsBackedHolds == Spec => []SessionIsBacked
<1>1. LinkIInv => SessionIsBacked
  BY DEF LinkIInv
<1> QED
  BY <1>1, InitLinkIInv, StepLinkIInv, PTL DEF Spec

-----------------------------------------------------------------------------
(* The clocks.                                                             *)

\* n keepalive intervals are a natural number that grows with n.
LEMMA IntervalsGrow ==
  ASSUME direct \in BOOLEAN
  PROVE  /\ Intervals(0) = 0
         /\ \A n \in Nat : /\ Intervals(n) \in Nat
                           /\ Intervals(n + 1) = Intervals(n) + KeepaliveEvery[direct]
                           /\ n > 0 => KeepaliveEvery[direct] <= Intervals(n)
         /\ \A m, n \in Nat : m <= n => Intervals(m) <= Intervals(n)
<1> DEFINE K == KeepaliveEvery[direct]
<1>1. K \in Nat
  BY Bounds
<1> HIDE DEF K
<1>2. Intervals(0) = 0 /\ \A n \in Nat : Intervals(n) \in Nat /\ Intervals(n + 1) = Intervals(n) + K
  BY <1>1 DEF Intervals, K
<1>3. \A n \in Nat : n > 0 => K <= Intervals(n)
  BY <1>1 DEF Intervals, K
<1>4. \A m, n \in Nat : m <= n => Intervals(m) <= Intervals(n)
  BY <1>1 DEF Intervals, K
<1> QED
  BY <1>2, <1>3, <1>4 DEF K

\* The numbers that the clocks are.
LEMMA ClockTypes ==
  ASSUME LinkIInv
  PROVE  /\ direct \in BOOLEAN /\ s \in SessionStates /\ peer.open \in BOOLEAN
         /\ toPeer \in Seq(ToPeer) /\ toApp \in Seq(ToApp)
         /\ KeepaliveEvery[direct] \in Nat /\ SessionTimeout[direct] \in Nat
         /\ HelloTimeout[direct] \in Nat
         /\ s.idle \in Nat /\ s.waited \in Nat /\ peer.quiet \in Nat
         /\ s.idle <= KeepaliveEvery[direct] /\ s.waited <= SessionTimeout[direct]
         /\ peer.quiet <= SessionTimeout[direct]
         /\ lost \in Nat /\ lost <= MaxLost /\ MaxLost \in Nat
         /\ Intervals(lost) \in Nat
<1>1. direct \in BOOLEAN /\ lost \in 0 .. MaxLost
  BY DEF LinkIInv, TypeOK
<1>2. lost \in Nat /\ Intervals(lost) \in Nat
  <2>1. lost \in Nat
    BY <1>1, Bounds
  <2> QED
    BY <1>1, <2>1, IntervalsGrow
<1> QED
  BY <1>1, <1>2, Bounds DEF LinkIInv, TypeOK, SessionStates

\* No clock runs where no session is, and none is asked for.
LEMMA NoClock ==
  ASSUME NEW st, NEW pe, NEW p, NEW a, NEW l, NEW c, ~st.established, st.phase # "awaiting"
  PROVE  ClockInv(st, pe, p, a, l, c)
BY DEF ClockInv, HelloClock, PeerClock, OwnClock, AnsweredAtOnce, EnumerationIsFresh

\* Nor is there a session while HELLO is unanswered.
LEMMA HelloClockOnly ==
  ASSUME NEW st, NEW pe, NEW p, NEW a, NEW l, NEW c, ~st.established,
         HelloClock(st, pe, p, a, l)
  PROVE  ClockInv(st, pe, p, a, l, c)
BY DEF ClockInv, PeerClock, OwnClock, AnsweredAtOnce, EnumerationIsFresh

NextClock == ClockInv(s', peer', toPeer', toApp', lost', catalog')

\* With the link closed there is no session to time out.
LEMMA ClosedLinkClock ==
  ASSUME NEW st, st \in SessionStates, CloseLink(st) PROVE NextClock
<1>1. ~s'.established /\ s'.phase = "idle"
  BY DEF CloseLink, Dropped, SessionStates
<1> QED
  BY <1>1, NoClock DEF NextClock

\* A link that comes up has no session yet.
LEMMA LinkUpClock == LinkIInv /\ LinkUp => NextClock
<1> SUFFICES ASSUME LinkIInv, LinkUp PROVE NextClock
  OBVIOUS
<1>1. ~s'.established /\ s'.waited = 0 /\ ~peer'.open
  BY ClockTypes DEF LinkUp, HelloSent, SessionStates, LinkIInv, SessionIsBacked, LinkInv, LinkDown
<1>2. HelloClock(s', peer', toPeer', toApp', lost')
  BY <1>1, ClockTypes DEF HelloClock
<1> QED
  BY <1>1, <1>2, HelloClockOnly DEF NextClock

\* Nor has one that went down.
LEMMA LinkDownClock == LinkIInv /\ (LinkDrops \/ Drained) => NextClock
BY ClockTypes, ClosedLinkClock DEF LinkDrops, Drained

\* Asking to close touches no clock but by closing the link.
LEMMA RequestCloseClock == LinkIInv /\ RequestClose => NextClock
<1> SUFFICES ASSUME LinkIInv, RequestClose PROVE NextClock
  OBVIOUS
<1>1. ~s'.established /\ s'.phase = "active"
  BY ClockTypes DEF RequestClose, GivenUp, SessionStates, LinkIInv, SessionIsBacked
<1> QED
  BY <1>1, NoClock DEF NextClock

\* An initiator that gave up left no session to time out.
LEMMA GivenUpClock ==
  ASSUME LinkIInv, NEW a, Recover(GivenUp([s EXCEPT !.phase = "idle", !.waited = 0]), a)
  PROVE  NextClock
<1> DEFINE st == [s EXCEPT !.phase = "idle", !.waited = 0]
<1>1. /\ GivenUp(st) \in SessionStates
      /\ ~GivenUp(st).established /\ GivenUp(st).phase = "idle"
  BY ClockTypes DEF GivenUp, SessionStates
<1>2. CASE CloseLink(GivenUp(st))
  BY <1>1, <1>2, ClosedLinkClock
<1>3. CASE s' = GivenUp(st)
  BY <1>1, <1>3, NoClock DEF NextClock
<1> QED
  BY <1>2, <1>3 DEF Recover

\* A watchdog that fired ends the session whose clock it watched.
LEMMA NodeTimesOutClock == LinkIInv /\ NodeTimesOut => NextClock
<1> SUFFICES ASSUME LinkIInv, NodeTimesOut PROVE NextClock
  OBVIOUS
<1>1. CASE s' = HelloSent(s) /\ ~s.established /\ toApp' = toApp
  <2>1. ~s'.established /\ s'.waited = 0 /\ s'.attempts = s.attempts + 1 /\ s.attempts \in Nat
    <3>1. MaxHello \in Nat
      BY Bounds
    <3> QED
      BY <1>1, <3>1, ClockTypes DEF HelloSent, SessionStates
  <2>2. ~CurrentResult(s', toApp)
    <3> SUFFICES ASSUME NEW i \in DOMAIN toApp, toApp[i].kind = "result"
                 PROVE  toApp[i].n # s'.attempts
      BY DEF CurrentResult
    <3>1. toApp[i].n \in Nat
      <4>1. toApp[i] \in ToApp
        BY ClockTypes, ElementOfSeq, LenProperties
      <4> QED
        BY <4>1, Numbered
    <3>2. toApp[i].n <= s.attempts
      BY DEF LinkIInv, LinkInv, ResultsAreAwaited
    <3> QED
      BY <2>1, <3>1, <3>2
  <2>3. HelloClock(s', peer', toPeer', toApp', lost')
    BY <1>1, <2>1, <2>2, ClockTypes DEF HelloClock
  <2> QED
    BY <2>1, <2>3, HelloClockOnly DEF NextClock
<1>2. CASE Recover(GivenUp([s EXCEPT !.phase = "idle", !.waited = 0]), toApp)
  BY <1>2, GivenUpClock
<1> QED
  BY <1>1, <1>2 DEF NodeTimesOut

\* A session's frame goes out: the keepalive timer starts again, and the frame
\* on its way is allowed for what the timer showed.
LEMMA SentClock ==
  ASSUME IInv, NEW st \in SessionStates,
         st.idle = 0, st.phase = s.phase, st.phase = "active", st.established = s.established,
         st.waited \in {0, s.waited},
         NEW p, p # <<>>, NEW a, NoReply(toApp) <=> NoReply(a),
         direct /\ catalog # {} =>
             \A i \in DOMAIN p : p[i].kind # "enumerate" \/ \E j \in DOMAIN toPeer : p[i] = toPeer[j]
  PROVE  ClockInv(st, peer, p, a, lost, catalog)
<1>1. HelloClock(st, peer, p, a, lost)
  BY DEF HelloClock
<1>2. PeerClock(st, peer, p, lost)
  BY ClockTypes, SMTT(30) DEF IInv, ClockInv, PeerClock, AnsweredAtOnce, Allowed
<1>3. OwnClock(st, peer, p, a, lost, catalog)
  BY ClockTypes, SMTT(30) DEF IInv, ClockInv, OwnClock, AnsweredAtOnce, Allowed
<1>4. AnsweredAtOnce(st, peer, p, a)
  BY DEF IInv, ClockInv, AnsweredAtOnce
<1>5. EnumerationIsFresh(st, p, catalog)
  BY DEF IInv, ClockInv, EnumerationIsFresh
<1> QED
  BY <1>1, <1>2, <1>3, <1>4, <1>5 DEF ClockInv

\* What this end sends starts the keepalive interval again.
LEMMA AppSendsClock == IInv /\ (SendKeepalive \/ AppSends) => NextClock
<1> SUFFICES ASSUME IInv, SendKeepalive \/ AppSends PROVE NextClock
  OBVIOUS
<1>1. PICK kind \in {"sentinel", "stale_boot", "enumerate", "command"} :
        /\ direct /\ catalog # {} => kind # "enumerate"
        /\ s' = Sent(s) /\ toPeer' = Append(toPeer, [kind |-> kind])
        /\ s.established /\ UNCHANGED <<peer, toApp, lost, catalog>>
  BY DEF SendKeepalive, AppSends, KeepaliveKind, Send
<1>2. LinkIInv /\ s \in SessionStates /\ toPeer \in Seq(ToPeer)
  BY ClockTypes DEF IInv
<1>3. /\ s' \in SessionStates
      /\ s'.idle = 0 /\ s'.phase = s.phase /\ s'.phase = "active"
      /\ s'.established = s.established /\ s'.waited = s.waited
  BY <1>1, <1>2 DEF Sent, SessionStates, LinkIInv, SessionIsBacked
<1> DEFINE m == [kind |-> kind]
<1>4. m \in ToPeer /\ m.kind = kind
  BY DEF ToPeer
<1> HIDE DEF m
<1>5. /\ toPeer' # <<>>
      /\ \A i \in DOMAIN toPeer' : toPeer'[i] = m \/ \E j \in DOMAIN toPeer : toPeer'[i] = toPeer[j]
  <2>1. toPeer' = Append(toPeer, m)
    BY <1>1 DEF m
  <2> QED
    BY <1>2, <1>4, <2>1, FollowedByOne
<1>6. ClockInv(s', peer, toPeer', toApp, lost, catalog)
  BY <1>1, <1>3, <1>4, <1>5, SentClock
<1> QED
  BY <1>1, <1>6 DEF NextClock

\* What is left of the frames to this end is no more than there was.
LEMMA LessIsLeft ==
  ASSUME NEW a \in Seq(ToApp), a # <<>>
  PROVE  /\ NoReply(a) => NoReply(Tail(a))
         /\ ~IsReply(Head(a)) /\ NoReply(Tail(a)) => NoReply(a)
         /\ \A st \in SessionStates : CurrentResult(st, Tail(a)) => CurrentResult(st, a)
<1>1. /\ 1 \in DOMAIN a /\ a[1] = Head(a)
      /\ \A i \in DOMAIN Tail(a) : i + 1 \in DOMAIN a /\ Tail(a)[i] = a[i + 1]
      /\ \A i \in DOMAIN a : i = 1 \/ (i - 1 \in DOMAIN Tail(a) /\ Tail(a)[i - 1] = a[i])
  BY Taken
<1>2. NoReply(a) => NoReply(Tail(a))
  BY <1>1 DEF NoReply
<1>3. ~IsReply(Head(a)) /\ NoReply(Tail(a)) => NoReply(a)
  BY <1>1 DEF NoReply
<1>4. \A st \in SessionStates : CurrentResult(st, Tail(a)) => CurrentResult(st, a)
  BY <1>1 DEF CurrentResult
<1> QED
  BY <1>2, <1>3, <1>4

\* A frame less on its way asks for nothing new.
LEMMA LessIsAsked ==
  ASSUME NEW p \in Seq(ToPeer), p # <<>>
  PROVE  /\ \A st \in SessionStates : CurrentHello(st, Tail(p)) => CurrentHello(st, p)
         /\ \A i \in DOMAIN Tail(p) : \E j \in DOMAIN p : Tail(p)[i] = p[j]
<1>1. \A i \in DOMAIN Tail(p) : i + 1 \in DOMAIN p /\ Tail(p)[i] = p[i + 1]
  BY Taken
<1> QED
  BY <1>1 DEF CurrentHello

\* This end reads something that answers no request.
LEMMA ReadClock ==
  ASSUME IInv, toApp # <<>>, ~IsReply(Head(toApp)), NEW st \in SessionStates,
         st.idle = s.idle, st.waited = s.waited, st.phase = s.phase,
         st.attempts = s.attempts, st.established = s.established \/ ~st.established
  PROVE  ClockInv(st, peer, toPeer, Tail(toApp), lost, catalog)
<1>1. LinkIInv /\ toApp \in Seq(ToApp) /\ s \in SessionStates
  BY ClockTypes DEF IInv
<1>2. /\ NoReply(Tail(toApp)) <=> NoReply(toApp)
      /\ CurrentResult(st, Tail(toApp)) => CurrentResult(s, toApp)
      /\ CurrentHello(st, toPeer) <=> CurrentHello(s, toPeer)
  BY <1>1, LessIsLeft DEF CurrentResult, CurrentHello
<1>3. HelloClock(st, peer, toPeer, Tail(toApp), lost)
  BY <1>2 DEF IInv, ClockInv, HelloClock
<1>4. PeerClock(st, peer, toPeer, lost)
  BY DEF IInv, ClockInv, PeerClock, Allowed
<1>5. OwnClock(st, peer, toPeer, Tail(toApp), lost, catalog)
  BY <1>2 DEF IInv, ClockInv, OwnClock, Allowed
<1>6. AnsweredAtOnce(st, peer, toPeer, Tail(toApp))
  BY <1>2 DEF IInv, ClockInv, AnsweredAtOnce
<1>7. EnumerationIsFresh(st, toPeer, catalog)
  BY DEF IInv, ClockInv, EnumerationIsFresh
<1> QED
  BY <1>3, <1>4, <1>5, <1>6, <1>7 DEF ClockInv

\* An answered HELLO starts both clocks.
LEMMA HelloAnsweredClock == IInv /\ HelloAnswered => NextClock
<1> SUFFICES ASSUME IInv, HelloAnswered PROVE NextClock
  OBVIOUS
<1> DEFINE K == KeepaliveEvery[direct]
<1>1. /\ LinkIInv /\ s \in SessionStates /\ peer.open \in BOOLEAN /\ direct \in BOOLEAN
      /\ toPeer \in Seq(ToPeer) /\ toApp \in Seq(ToApp)
      /\ K \in Nat /\ lost \in Nat /\ Intervals(lost) \in Nat
      /\ s.waited \in Nat /\ peer.quiet \in Nat /\ HelloTimeout[direct] \in Nat
  BY ClockTypes DEF IInv
<1>2. CASE /\ s' = Established(s) /\ toPeer' = toPeer \o CatalogQuery
           /\ toApp' = Tail(toApp) /\ UNCHANGED peer
  <2>1. /\ toApp # <<>> /\ Head(toApp).kind = "result" /\ Head(toApp).n = s.attempts
        /\ s.phase = "awaiting"
        /\ lost' = lost /\ catalog' = catalog
    BY DEF HelloAnswered, IsAwaited
  <2>2. peer.open => toPeer = <<>>
    BY <1>1, <2>1, AnswerFinds DEF LinkIInv
  <2>3. NoReply(toApp')
    <3>1. NoReply(toApp)
      BY <2>1 DEF IInv, LinkIInv, LinkInv, NoDataYet, NoData, NoReply, IsData, IsReply
    <3> QED
      BY <1>1, <1>2, <2>1, <3>1, LessIsLeft
  <2>4. /\ s'.phase = "active" /\ s'.idle = 0 /\ s'.waited = 0 /\ s'.established
    BY <1>1, <1>2 DEF Established, SessionStates
  <2>5. CurrentResult(s, toApp)
    BY <1>1, <2>1, Taken DEF CurrentResult
  <2>6. peer.open => /\ peer.quiet <= s.waited /\ s.waited <= HelloTimeout[direct]
                     /\ s.waited > 0 => lost > 0
    BY <2>1, <2>5 DEF IInv, ClockInv, HelloClock
  <2>7. lost > 0 => K <= Intervals(lost)
    BY <1>1, IntervalsGrow
  <2>8. direct /\ peer.open => toPeer' # <<>>
    <3> SUFFICES ASSUME direct, peer.open PROVE toPeer' # <<>>
      OBVIOUS
    <3>1. toPeer' = <<>> \o <<[kind |-> "describe"]>>
      BY <1>2, <2>2 DEF CatalogQuery
    <3> DEFINE m == [kind |-> "describe"]
    <3>2. m \in ToPeer
      BY DEF ToPeer
    <3> HIDE DEF m
    <3>3. <<>> \o <<m>> = <<m>> /\ <<m>> # <<>>
      BY <3>2, One, ConcatEmptySeq
    <3> QED
      BY <3>1, <3>3 DEF m
  <2>9. peer.open => peer.quiet <= Intervals(lost) + (IF toPeer' # <<>> THEN K ELSE 0)
    <3>1. CASE ~direct
      <4>1. HelloTimeout[direct] <= K
        BY <1>1, <3>1, TimingAssumption
      <4> HIDE DEF K
      <4> QED
        BY <1>1, <2>6, <2>7, <4>1, SMTT(30)
    <3>2. CASE direct
      <4>1. HelloTimeout[direct] <= 2 * K
        BY <1>1, <3>2, TimingAssumption
      <4> HIDE DEF K
      <4>2. peer.open => peer.quiet <= Intervals(lost) + K
        BY <1>1, <2>6, <2>7, <4>1
      <4> QED
        BY <2>8, <3>2, <4>2
    <3> QED
      BY <3>1, <3>2
  <2>10. PeerClock(s', peer', toPeer', lost')
    BY <1>1, <1>2, <2>1, <2>4, <2>9 DEF PeerClock, Allowed
  <2>11. OwnClock(s', peer', toPeer', toApp', lost', catalog')
    BY <1>1, <1>2, <2>1, <2>4 DEF OwnClock, Allowed
  <2> QED
    BY <2>3, <2>4, <2>10, <2>11
    DEF NextClock, ClockInv, HelloClock, AnsweredAtOnce, EnumerationIsFresh
<1>3. CASE Recover(GivenUp([s EXCEPT !.phase = "idle", !.waited = 0]), Tail(toApp))
  BY <1>1, <1>3, GivenUpClock
<1> QED
  BY <1>2, <1>3 DEF HelloAnswered

\* A late HELLO_RESULT is heard like any other frame.
LEMMA LateResultClock == IInv /\ LateResult => NextClock
<1> SUFFICES ASSUME IInv, LateResult PROVE NextClock
  OBVIOUS
<1>1. /\ LinkIInv /\ s \in SessionStates /\ toApp \in Seq(ToApp)
      /\ toApp # <<>> /\ Head(toApp).kind = "result" /\ s' = Heard(s)
      /\ toApp' = Tail(toApp) /\ UNCHANGED <<catalog, peer, toPeer, lost>>
  BY ClockTypes DEF IInv, LateResult
<1>2. s.phase # "active"
  <2>1. 1 \in DOMAIN toApp /\ toApp[1] = Head(toApp)
    BY <1>1, Taken
  <2> QED
    BY <1>1, <2>1 DEF LinkIInv, LinkInv, ResultsAreAwaited
<1>3. s' = s /\ ~IsReply(Head(toApp))
  BY <1>1, <1>2 DEF Heard, IsReply
<1>4. ClockInv(s, peer, toPeer, Tail(toApp), lost, catalog)
  BY <1>1, <1>3, ReadClock
<1> QED
  BY <1>1, <1>3, <1>4 DEF NextClock

\* The answer to a request: both clocks have just been put back.
LEMMA ReplyClock == IInv /\ (ManifestArrives \/ AnswerArrives) => NextClock
<1> SUFFICES ASSUME IInv, ManifestArrives \/ AnswerArrives PROVE NextClock
  OBVIOUS
<1>1. /\ LinkIInv /\ s \in SessionStates /\ toApp \in Seq(ToApp)
      /\ toApp # <<>> /\ IsReply(Head(toApp)) /\ IsData(Head(toApp)) /\ s' = Heard(s)
      /\ toApp' = Tail(toApp) /\ UNCHANGED <<peer, toPeer>> /\ lost' = 0
      /\ KeepaliveEvery[direct] \in Nat /\ s.idle \in Nat /\ Intervals(0) = 0
  BY ClockTypes, IntervalsGrow DEF IInv, ManifestArrives, AnswerArrives, IsReply, IsData
<1>2. 1 \in DOMAIN toApp /\ toApp[1] = Head(toApp)
  BY <1>1, Taken
<1>3. s.phase # "awaiting" /\ ~NoReply(toApp)
  BY <1>1, <1>2 DEF LinkIInv, LinkInv, NoDataYet, NoData, NoReply
<1>4. CASE ~s.established
  <2>1. ~s'.established /\ s'.phase = s.phase
    BY <1>1, <1>4 DEF Heard, SessionStates
  <2> QED
    BY <1>3, <2>1, NoClock DEF NextClock
<1>5. CASE s.established
  <2>1. s'.established /\ s'.phase = "active" /\ s'.waited = 0 /\ s'.idle = s.idle
    BY <1>1, <1>5 DEF Heard, SessionStates, LinkIInv, SessionIsBacked
  <2>2. s.idle = 0 /\ (peer.open => peer.quiet = 0)
    BY <1>1, <1>3, <1>5 DEF IInv, ClockInv, AnsweredAtOnce
  <2> QED
    BY <1>1, <2>1, <2>2
    DEF NextClock, ClockInv, HelloClock, PeerClock, OwnClock, AnsweredAtOnce, EnumerationIsFresh,
        Allowed
<1> QED
  BY <1>4, <1>5

\* So is telemetry.
LEMMA TelemetryClock == IInv /\ TelemetryArrives => NextClock
<1> SUFFICES ASSUME IInv, TelemetryArrives PROVE NextClock
  OBVIOUS
<1>1. /\ LinkIInv /\ s \in SessionStates /\ toApp \in Seq(ToApp) /\ toPeer \in Seq(ToPeer)
      /\ toApp # <<>> /\ ~IsReply(Head(toApp)) /\ IsData(Head(toApp))
      /\ toApp' = Tail(toApp) /\ UNCHANGED <<peer, lost, catalog>>
      /\ Intervals(lost) \in Nat /\ s.idle \in Nat
      /\ KeepaliveEvery[direct] \in Nat
      /\ \/ Send(Heard(s), "describe")
         \/ s' = Heard(s) /\ toPeer' = toPeer
  BY ClockTypes DEF IInv, TelemetryArrives, IsReply, IsData
<1>2. 1 \in DOMAIN toApp /\ toApp[1] = Head(toApp)
  BY <1>1, Taken
<1>3. s.phase # "awaiting"
  BY <1>1, <1>2 DEF LinkIInv, LinkInv, NoDataYet, NoData
<1>4. NoReply(toApp') <=> NoReply(toApp)
  BY <1>1, LessIsLeft
<1>5. CASE ~s.established
  <2>1. ~s'.established /\ s'.phase = s.phase
    BY <1>1, <1>5 DEF Heard, Send, Sent, SessionStates
  <2> QED
    BY <1>3, <2>1, NoClock DEF NextClock
<1>6. CASE s.established /\ s' = Heard(s) /\ toPeer' = toPeer
  <2>1. s'.established /\ s'.phase = "active" /\ s'.waited = 0 /\ s'.idle = s.idle
    BY <1>1, <1>6 DEF Heard, SessionStates, LinkIInv, SessionIsBacked
  <2> QED
    BY <1>1, <1>4, <1>6, <2>1
    DEF NextClock, IInv, ClockInv, HelloClock, PeerClock, OwnClock, AnsweredAtOnce,
        EnumerationIsFresh, Allowed
<1>7. CASE s.established /\ Send(Heard(s), "describe")
  <2>1. /\ s' \in SessionStates /\ s'.established = s.established /\ s'.phase = "active"
        /\ s'.phase = s.phase /\ s'.waited = 0 /\ s'.idle = 0
    BY <1>1, <1>7 DEF Heard, Send, Sent, SessionStates, LinkIInv, SessionIsBacked
  <2> DEFINE m == [kind |-> "describe"]
  <2>2. m \in ToPeer /\ m.kind = "describe"
    BY DEF ToPeer
  <2> HIDE DEF m
  <2>3. toPeer' = Append(toPeer, m)
    BY <1>7 DEF Send, m
  <2>4. /\ toPeer' # <<>>
        /\ \A i \in DOMAIN toPeer' : toPeer'[i] = m \/ \E j \in DOMAIN toPeer : toPeer'[i] = toPeer[j]
    BY <1>1, <2>2, <2>3, FollowedByOne
  <2>5. ClockInv(s', peer, toPeer', toApp', lost, catalog)
    BY <1>4, <2>1, <2>2, <2>4, SentClock
  <2> QED
    BY <1>1, <2>5 DEF NextClock
<1> QED
  BY <1>1, <1>5, <1>6, <1>7

\* A console line ends the session of this end with its clock.
LEMMA ConsoleClock == IInv /\ ConsoleLine => NextClock
<1> SUFFICES ASSUME IInv, ConsoleLine PROVE NextClock
  OBVIOUS
<1> DEFINE quiet == [s EXCEPT !.watching = FALSE]
           tt == [quiet EXCEPT !.closing = s.closing /\ ~s.watching]
<1>1. /\ toApp # <<>> /\ ~IsReply(Head(toApp)) /\ UNCHANGED <<lost, catalog>>
      /\ \/ Recover(GivenUp(quiet), Tail(toApp)) /\ s.watching
         \/ /\ s' = tt
            /\ toApp' = Tail(toApp) /\ UNCHANGED <<peer, toPeer>>
  BY DEF ConsoleLine, IsReply
<1>2. s \in SessionStates
  BY ClockTypes DEF IInv
<1>3. /\ GivenUp(quiet) \in SessionStates /\ ~GivenUp(quiet).established
      /\ GivenUp(quiet).waited = s.waited /\ GivenUp(quiet).phase = s.phase
      /\ GivenUp(quiet).attempts = s.attempts
  BY <1>2 DEF GivenUp, SessionStates
<1>4. /\ tt \in SessionStates /\ tt.established = s.established
      /\ tt.waited = s.waited /\ tt.phase = s.phase
      /\ tt.attempts = s.attempts /\ tt.idle = s.idle
  <2>1. (s.closing /\ ~s.watching) \in BOOLEAN
    OBVIOUS
  <2> QED
    BY <1>2, <2>1 DEF SessionStates
<1>5. CASE CloseLink(GivenUp(quiet))
  BY <1>3, <1>5, ClosedLinkClock
<1>6. CASE s' = GivenUp(quiet) /\ toApp' = Tail(toApp) /\ UNCHANGED <<peer, toPeer>>
  <2>1. ClockInv(s, peer, toPeer, Tail(toApp), lost, catalog)
    BY <1>1, <1>2, ReadClock
  <2>2. HelloClock(s', peer', toPeer', toApp', lost')
    BY <1>1, <1>3, <1>6, <2>1 DEF ClockInv, HelloClock, CurrentResult, CurrentHello
  <2> QED
    BY <1>3, <1>6, <2>2, HelloClockOnly DEF NextClock
<1>7. CASE s' = tt /\ toApp' = Tail(toApp) /\ UNCHANGED <<peer, toPeer>>
  <2> HIDE DEF tt
  <2>1. ClockInv(s', peer, toPeer, Tail(toApp), lost, catalog)
    BY <1>1, <1>4, <1>7, ReadClock
  <2> QED
    BY <1>1, <1>7, <2>1 DEF NextClock
<1> QED
  BY <1>1, <1>5, <1>6, <1>7 DEF Recover

\* The peer answers within the unit, and its watch begins again.
LEMMA PeerAnswersHelloClock == IInv /\ PeerAnswersHello => NextClock
<1> SUFFICES ASSUME IInv, PeerAnswersHello PROVE NextClock
  OBVIOUS
<1>1. /\ LinkIInv /\ s \in SessionStates /\ toApp \in Seq(ToApp) /\ toPeer \in Seq(ToPeer)
      /\ toPeer # <<>> /\ Head(toPeer).kind = "hello" /\ toPeer' = Tail(toPeer)
      /\ s' = s /\ lost' = lost /\ s.waited \in Nat
  BY ClockTypes DEF IInv, PeerAnswersHello
<1>2. 1 \in DOMAIN toPeer /\ toPeer[1] = Head(toPeer)
  BY <1>1, Taken
<1>3. ~s.established
  BY <1>1, <1>2 DEF LinkIInv, LinkInv, HellosAreAwaited, SessionIsBacked
<1>4. CurrentResult(s, toApp') => CurrentResult(s, toApp) \/ CurrentHello(s, toPeer)
  <2>1. PICK answer \in {"ok", "alien", "refused"} :
          toApp' = toApp \o <<[kind |-> "result", n |-> Head(toPeer).n, answer |-> answer]>>
    BY DEF PeerAnswersHello, Reply
  <2> DEFINE m == [kind |-> "result", n |-> Head(toPeer).n, answer |-> answer]
  <2>2. m \in ToApp /\ m.n = toPeer[1].n
    <3>1. Head(toPeer) \in ToPeer
      BY <1>1, Taken
    <3>2. Head(toPeer).n \in 1 .. MaxHello
      BY <1>1, <3>1, Numbered
    <3> QED
      BY <1>2, <3>2 DEF ToApp
  <2> HIDE DEF m
  <2>3. \A i \in DOMAIN toApp' : (i \in DOMAIN toApp /\ toApp'[i] = toApp[i]) \/ toApp'[i] = m
    <3>1. toApp' = Append(toApp, m)
      BY <1>1, <2>1, <2>2, AppendIsConcat DEF m
    <3> QED
      BY <1>1, <2>2, <3>1, FollowedByOne
  <2> QED
    BY <1>1, <1>2, <2>2, <2>3 DEF CurrentResult, CurrentHello
<1>5. CurrentHello(s, toPeer') => CurrentHello(s, toPeer)
  BY <1>1, LessIsAsked
<1>6. peer'.quiet = 0
  BY DEF PeerAnswersHello, IInv, LinkIInv, TypeOK
<1>7. HelloClock(s', peer', toPeer', toApp', lost')
  BY <1>1, <1>4, <1>5, <1>6 DEF IInv, ClockInv, HelloClock
<1> QED
  BY <1>1, <1>3, <1>7, HelloClockOnly DEF NextClock

\* What the peer receives sets its clock back, and its answer is on its way.
LEMMA PeerReceivesClock == IInv /\ PeerReceives => NextClock
<1> SUFFICES ASSUME IInv, PeerReceives PROVE NextClock
  OBVIOUS
<1> DEFINE kind == Head(toPeer).kind
           r == Replies(kind)
<1>1. /\ LinkIInv /\ s \in SessionStates /\ toApp \in Seq(ToApp) /\ toPeer \in Seq(ToPeer)
      /\ toPeer # <<>> /\ kind # "hello" /\ kind # "close" /\ toPeer' = Tail(toPeer)
      /\ s' = s /\ lost' = lost /\ catalog' = catalog /\ s.waited \in Nat /\ s.idle \in Nat
      /\ Intervals(lost) \in Nat /\ KeepaliveEvery[direct] \in Nat /\ direct \in BOOLEAN
  BY ClockTypes DEF IInv, PeerReceives
<1>2. 1 \in DOMAIN toPeer /\ toPeer[1] = Head(toPeer) /\ Head(toPeer) \in ToPeer
  BY <1>1, Taken
<1>3. /\ CurrentHello(s, toPeer') => CurrentHello(s, toPeer)
      /\ \A i \in DOMAIN toPeer' : \E j \in DOMAIN toPeer : toPeer'[i] = toPeer[j]
      /\ DOMAIN <<>> = {}
  BY <1>1, LessIsAsked
<1>4. EnumerationIsFresh(s, toPeer', catalog)
  BY <1>3 DEF IInv, ClockInv, EnumerationIsFresh
<1>5. CASE ~peer.open /\ peer' = peer /\ toApp' = toApp
  <2>1. HelloClock(s, peer, toPeer', toApp, lost)
    BY <1>3, <1>5 DEF IInv, ClockInv, HelloClock
  <2>2. AnsweredAtOnce(s, peer, toPeer', toApp)
    BY <1>1, <1>5 DEF IInv, ClockInv, AnsweredAtOnce
  <2> QED
    BY <1>1, <1>4, <1>5, <2>1, <2>2 DEF NextClock, ClockInv, PeerClock, OwnClock
<1>6. CASE peer.open /\ peer' = [peer EXCEPT !.quiet = 0] /\ toApp' = toApp \o r
  <2>1. s.phase # "awaiting"
    BY <1>1, <1>2, <1>6 DEF LinkIInv, LinkInv, OnlyHellosOpen
  <2>2. peer'.quiet = 0 /\ peer'.open = peer.open
    BY <1>6 DEF IInv, LinkIInv, TypeOK
  <2>3. CASE ~s.established
    BY <1>1, <2>1, <2>3, NoClock DEF NextClock
  <2>4. CASE s.established
    <3>1. s.idle = 0
      BY <1>1, <2>4 DEF IInv, ClockInv, AnsweredAtOnce
    <3>2. (direct => catalog # {}) => s.waited <= Intervals(lost) + KeepaliveEvery[direct]
      BY <1>1, <1>6, <2>4, <3>1 DEF IInv, ClockInv, OwnClock, Allowed
    <3>3. (direct => catalog # {}) => s.waited = 0 \/ ~NoReply(toApp')
      <4>1. CASE kind = "enumerate" /\ direct
        BY <1>1, <1>2, <2>4, <4>1 DEF IInv, ClockInv, EnumerationIsFresh
      <4>2. CASE ~(kind = "enumerate" /\ direct)
        <5>1. kind \in {"sentinel", "stale_boot", "enumerate", "describe", "command"}
          BY <1>1, <1>2 DEF ToPeer
        <5>2. /\ kind = "sentinel" => ~direct
              /\ kind = "stale_boot" => direct
          BY <1>1, <1>2 DEF LinkIInv, AskedInItsKind
        <5> DEFINE own == <<Manifest(Peer)>>
                   ans == <<[kind |-> "answer"]>>
                   q == SetToSeq({Manifest(source) : source \in Others})
        <5>3. r \in {own \o q, own, ans}
          BY <4>2, <5>1, <5>2 DEF Replies
        <5>4. r \in Seq(ToApp) /\ (\A i \in DOMAIN r : IsReply(r[i])) /\ r # <<>>
          <6>1. r \in Seq(ToApp) /\ \A i \in DOMAIN r : IsReply(r[i])
            BY RepliesType
          <6>2. q \in Seq(ToApp) /\ Manifest(Peer) \in ToApp
            BY ManifestsType DEF Manifest, ToApp
          <6> HIDE DEF q
          <6>3. own \in Seq(ToApp) /\ own # <<>> /\ ans # <<>>
            BY <6>2
          <6> HIDE DEF own, ans
          <6>4. own \o q # <<>>
            BY <6>2, <6>3, ConcatEqualIffEmpty
          <6> QED
            BY <5>3, <6>1, <6>3, <6>4
        <5> HIDE DEF r
        <5>5. 1 \in DOMAIN r /\ IsReply(r[1])
          BY <5>4, LenProperties, EmptySeq
        <5>6. Len(toApp) \in Nat /\ Len(toApp) + 1 \in DOMAIN (toApp \o r)
              /\ (toApp \o r)[Len(toApp) + 1] = r[1]
          BY <1>1, <5>4, <5>5, ConcatProperties, LenProperties
        <5> QED
          BY <1>6, <5>5, <5>6 DEF NoReply
      <4> QED
        BY <4>1, <4>2
    <3>4. OwnClock(s', peer', toPeer', toApp', lost', catalog')
      BY <1>1, <3>1, <3>2, <3>3 DEF OwnClock, Allowed
    <3>5. PeerClock(s', peer', toPeer', lost')
      BY <1>1, <2>2, <3>1 DEF PeerClock, Allowed
    <3> QED
      BY <1>1, <1>4, <2>1, <2>2, <3>1, <3>4, <3>5
      DEF NextClock, ClockInv, HelloClock, AnsweredAtOnce
  <2> QED
    BY <2>3, <2>4
<1> QED
  BY <1>5, <1>6 DEF PeerReceives, Reply

\* A peer that left is not watched, nor does it watch.
LEMMA PeerLeftClock ==
  ASSUME IInv, NEW p, NEW a, NEW pe, pe.open = FALSE,
         CurrentHello(s, p) => CurrentHello(s, toPeer),
         CurrentResult(s, a) => CurrentResult(s, toApp),
         toPeer = <<>> => p = <<>>, NoReply(toApp) => NoReply(a),
         \A i \in DOMAIN p : \E j \in DOMAIN toPeer : p[i] = toPeer[j]
  PROVE  ClockInv(s, pe, p, a, lost, catalog)
<1>1. HelloClock(s, pe, p, a, lost)
  BY DEF IInv, ClockInv, HelloClock
<1>2. PeerClock(s, pe, p, lost) /\ OwnClock(s, pe, p, a, lost, catalog)
  BY DEF PeerClock, OwnClock
<1>3. AnsweredAtOnce(s, pe, p, a)
  BY DEF IInv, ClockInv, AnsweredAtOnce
<1>4. EnumerationIsFresh(s, p, catalog)
  BY DEF IInv, ClockInv, EnumerationIsFresh
<1> QED
  BY <1>1, <1>2, <1>3, <1>4 DEF ClockInv

\* A peer out of its session has no clock.
LEMMA PeerLeavesClock == IInv /\ (PeerCloses \/ PeerTimesOut \/ PeerLeaves) => NextClock
<1> SUFFICES ASSUME IInv, PeerCloses \/ PeerTimesOut \/ PeerLeaves PROVE NextClock
  OBVIOUS
<1>1. /\ LinkIInv /\ s \in SessionStates /\ toApp \in Seq(ToApp) /\ toPeer \in Seq(ToPeer)
      /\ UNCHANGED <<s, lost, catalog>>
  BY ClockTypes DEF IInv, PeerCloses, PeerTimesOut, PeerLeaves
<1>2. peer'.open = FALSE
  <2>1. DOMAIN peer = {"open", "quiet", "revision"} /\ peer = [x \in DOMAIN peer |-> peer[x]]
    BY DEF IInv, LinkIInv, TypeOK
  <2>2. [peer EXCEPT !.open = FALSE, !.quiet = 0].open = FALSE
    BY <2>1
  <2>3. CASE peer' = [peer EXCEPT !.open = FALSE, !.quiet = 0]
    BY <2>2, <2>3
  <2>4. CASE \E revision : peer' = [open |-> FALSE, quiet |-> 0, revision |-> revision]
    BY <2>4
  <2> QED
    BY <2>3, <2>4 DEF PeerCloses, PeerTimesOut, PeerLeaves, PeerEnds
<1>3. /\ CurrentHello(s, toPeer') => CurrentHello(s, toPeer)
      /\ toPeer = <<>> => toPeer' = <<>>
      /\ \A i \in DOMAIN toPeer' : \E j \in DOMAIN toPeer : toPeer'[i] = toPeer[j]
  <2>1. CASE toPeer # <<>> /\ toPeer' = Tail(toPeer)
    BY <1>1, <2>1, LessIsAsked
  <2>2. CASE toPeer' = toPeer
    BY <2>2
  <2> QED
    BY <2>1, <2>2 DEF PeerCloses, PeerTimesOut, PeerLeaves
<1>4. /\ CurrentResult(s, toApp') => CurrentResult(s, toApp)
      /\ NoReply(toApp) => NoReply(toApp')
  <2> DEFINE m == [kind |-> "console"]
  <2>1. m \in ToApp /\ m.kind = "console"
    BY DEF ToApp
  <2>2. toApp' \in {toApp, toApp \o <<>>, toApp \o <<m>>}
    BY DEF PeerCloses, PeerTimesOut, PeerLeaves, PeerEnds, Reply
  <2> HIDE DEF m
  <2>3. toApp' \in {toApp, Append(toApp, m)}
    BY <1>1, <2>1, <2>2, ConcatEmptySeq, AppendIsConcat
  <2>4. \A i \in DOMAIN toApp' : (i \in DOMAIN toApp /\ toApp'[i] = toApp[i]) \/ toApp'[i] = m
    BY <1>1, <2>1, <2>3, FollowedByOne
  <2> QED
    BY <2>1, <2>4 DEF CurrentResult, NoReply, IsReply
<1> QED
  BY <1>1, <1>2, <1>3, <1>4, PeerLeftClock DEF NextClock

\* A peer that streams changes no clock.
LEMMA PeerStreamsClock == IInv /\ PeerStreams => NextClock
<1> SUFFICES ASSUME IInv, PeerStreams PROVE NextClock
  OBVIOUS
<1> DEFINE m == [kind |-> "telemetry"]
<1>1. toApp = <<>> /\ toApp' = toApp \o <<m>> /\ s.phase = "active"
      /\ UNCHANGED <<s, peer, toPeer, lost, catalog>>
  BY DEF PeerStreams, Reply
<1>2. m \in ToApp /\ m.kind = "telemetry"
  BY DEF ToApp
<1> HIDE DEF m
<1>3. toApp' = <<m>> /\ DOMAIN <<m>> = {1} /\ <<m>>[1] = m
  BY <1>1, <1>2, One, ConcatEmptySeq
<1>4. NoReply(toApp) /\ NoReply(toApp')
  BY <1>1, <1>2, <1>3 DEF NoReply, IsReply
<1> QED
  BY <1>1, <1>4
  DEF NextClock, IInv, ClockInv, HelloClock, PeerClock, OwnClock, AnsweredAtOnce, EnumerationIsFresh

\* A lost frame is counted, and costs one interval at most.
LEMMA LosesClock == IInv /\ Loses => NextClock
<1> SUFFICES ASSUME IInv, Loses PROVE NextClock
  OBVIOUS
<1>1. /\ LinkIInv /\ s \in SessionStates /\ toApp \in Seq(ToApp) /\ toPeer \in Seq(ToPeer)
      /\ UNCHANGED <<s, peer, catalog>> /\ lost \in Nat /\ lost' = lost + 1
      /\ Intervals(lost) \in Nat /\ Intervals(lost') = Intervals(lost) + KeepaliveEvery[direct]
      /\ s.idle \in Nat /\ s.waited \in Nat /\ peer.quiet \in Nat /\ KeepaliveEvery[direct] \in Nat
  BY ClockTypes, IntervalsGrow DEF IInv, Loses
<1>2. /\ NoReply(toApp) => NoReply(toApp')
      /\ toPeer = <<>> => toPeer' = <<>>
      /\ CurrentResult(s, toApp') => CurrentResult(s, toApp)
      /\ \A i \in DOMAIN toPeer' : \E j \in DOMAIN toPeer : toPeer'[i] = toPeer[j]
  <2>1. CASE toPeer # <<>> /\ toPeer' = Tail(toPeer) /\ toApp' = toApp
    BY <1>1, <2>1, LessIsAsked
  <2>2. CASE toApp # <<>> /\ toApp' = Tail(toApp) /\ toPeer' = toPeer
    BY <1>1, <2>2, LessIsLeft
  <2> QED
    BY <2>1, <2>2 DEF Loses
<1>3. HelloClock(s', peer', toPeer', toApp', lost')
  BY <1>1, <1>2 DEF IInv, ClockInv, HelloClock
<1>4. PeerClock(s', peer', toPeer', lost')
  BY <1>1, SMTT(30) DEF IInv, ClockInv, PeerClock, Allowed
<1>5. OwnClock(s', peer', toPeer', toApp', lost', catalog')
  BY <1>1, SMTT(30) DEF IInv, ClockInv, OwnClock, Allowed
<1>6. AnsweredAtOnce(s', peer', toPeer', toApp')
  BY <1>1, <1>2 DEF IInv, ClockInv, AnsweredAtOnce
<1>7. EnumerationIsFresh(s', toPeer', catalog')
  BY <1>1, <1>2 DEF IInv, ClockInv, EnumerationIsFresh
<1> QED
  BY <1>3, <1>4, <1>5, <1>6, <1>7 DEF NextClock, ClockInv

\* A unit of time passes at both ends.
LEMMA TickClock == IInv /\ Tick => NextClock
<1> SUFFICES ASSUME IInv, Tick PROVE NextClock
  OBVIOUS
<1>1. /\ LinkIInv /\ s \in SessionStates /\ peer.open \in BOOLEAN
      /\ UNCHANGED <<toPeer, toApp, catalog>>
      /\ SessionTimeout[direct] \in Nat /\ HelloTimeout[direct] \in Nat
      /\ s.idle \in Nat /\ s.waited \in Nat /\ peer.quiet \in Nat
      /\ s.waited <= SessionTimeout[direct] /\ lost \in Nat
      /\ Intervals(lost) \in Nat /\ KeepaliveEvery[direct] \in Nat
  BY ClockTypes DEF IInv, Tick
<1>2. /\ s'.phase = s.phase /\ s'.established = s.established /\ s'.attempts = s.attempts
      /\ s.phase # "idle" => s'.waited = Later(s.waited)
      /\ s.established => s'.idle = s.idle + 1
      /\ peer'.open = peer.open /\ (peer.open => peer'.quiet = peer.quiet + 1)
  <2>1. s.established => s.keepalive
    BY DEF IInv, LinkIInv, SessionIsBacked
  <2> QED
    BY <1>1, <2>1 DEF Tick, SessionStates, IInv, LinkIInv, TypeOK
<1>3. CASE s.phase = "awaiting"
  <2>1. ~s.established
    BY <1>3 DEF IInv, LinkIInv, SessionIsBacked
  <2>2. /\ s.waited < HelloTimeout[direct]
        /\ peer.open => peer.quiet < SessionTimeout[direct]
    BY <1>1, <1>3 DEF Tick, InitiatorTimedOut, PeerDue
  <2>3. /\ s'.waited = (IF s.waited < SessionTimeout[direct] THEN s.waited + 1 ELSE s.waited)
        /\ s'.waited \in Nat /\ s'.waited <= HelloTimeout[direct]
    BY <1>1, <1>2, <1>3, <2>2 DEF Later
  <2>4. /\ CurrentResult(s', toApp') <=> CurrentResult(s, toApp)
        /\ CurrentHello(s', toPeer') <=> CurrentHello(s, toPeer)
    BY <1>1, <1>2 DEF CurrentResult, CurrentHello
  <2>5. CurrentResult(s, toApp) \/ CurrentHello(s, toPeer) => lost' > 0
    <3>1. CASE toPeer = <<>> /\ toApp = <<>>
      BY <3>1 DEF CurrentResult, CurrentHello
    <3>2. CASE lost' = IF s.waited > 0 THEN lost ELSE lost + 1
      BY <1>1, <1>3, <3>2 DEF IInv, ClockInv, HelloClock
    <3> QED
      BY <3>1, <3>2 DEF Tick
  <2>6. peer.open /\ CurrentResult(s, toApp) => peer'.quiet <= s'.waited
    BY <1>1, <1>2, <1>3, <2>2, <2>3 DEF IInv, ClockInv, HelloClock
  <2>7. HelloClock(s', peer', toPeer', toApp', lost')
    BY <1>2, <2>3, <2>4, <2>5, <2>6 DEF HelloClock
  <2> QED
    BY <1>2, <2>1, <2>7, HelloClockOnly DEF NextClock
<1>4. CASE s.phase # "awaiting"
  <2>1. toPeer = <<>> /\ toApp = <<>> /\ lost' = lost
    BY <1>4 DEF Tick
  <2>2. NoReply(toApp) /\ DOMAIN toPeer = {}
    BY <2>1 DEF NoReply
  <2>3. CASE ~s.established
    BY <1>2, <1>4, <2>3, NoClock DEF NextClock
  <2>4. CASE s.established
    <3>1. s.phase # "idle"
      BY <2>4 DEF IInv, LinkIInv, SessionIsBacked
    <3>2. s'.waited \in Nat /\ s'.waited <= s.waited + 1
      BY <1>1, <1>2, <3>1 DEF Later
    <3>3. PeerClock(s', peer', toPeer', lost')
      BY <1>1, <1>2, <2>1, <2>4, SMTT(30) DEF IInv, ClockInv, PeerClock, Allowed
    <3>4. OwnClock(s', peer', toPeer', toApp', lost', catalog')
      BY <1>1, <1>2, <2>1, <2>2, <2>4, <3>2, SMTT(30) DEF IInv, ClockInv, OwnClock, Allowed
    <3> QED
      BY <1>1, <1>2, <1>4, <2>1, <2>2, <3>3, <3>4
      DEF NextClock, ClockInv, HelloClock, AnsweredAtOnce, EnumerationIsFresh
  <2> QED
    BY <2>3, <2>4
<1> QED
  BY <1>3, <1>4

-----------------------------------------------------------------------------
\* The initial state has the inductive invariant.
LEMMA InitIInv == Init => IInv
<1> SUFFICES ASSUME Init PROVE IInv
  OBVIOUS
<1>1. ~s.established /\ s.phase # "awaiting"
  BY DEF Init
<1> QED
  BY <1>1, InitLinkIInv, NoClock DEF IInv

\* Every step preserves it: the link's part, then the clocks'.
LEMMA StepIInv == IInv /\ [Next]_vars => IInv'
<1> SUFFICES ASSUME IInv, [Next]_vars PROVE IInv'
  OBVIOUS
<1>1. LinkIInv /\ LinkIInv' /\ direct' = direct
  BY StepLinkIInv, CountersType DEF IInv, LinkIInv
<1>2. NextClock
  <2>1. CASE UNCHANGED vars
    BY <2>1 DEF IInv, NextClock, vars
  <2> QED
    BY <1>1, <2>1, LinkUpClock, LinkDownClock, RequestCloseClock, NodeTimesOutClock,
       AppSendsClock, HelloAnsweredClock, LateResultClock, ReplyClock, TelemetryClock,
       ConsoleClock, PeerAnswersHelloClock, PeerReceivesClock, PeerLeavesClock,
       PeerStreamsClock, LosesClock, TickClock
    DEF Next, System
<1>3. ClockInv(s, peer, toPeer, toApp, lost, catalog)'
  BY <1>1, <1>2
  DEF NextClock, ClockInv, HelloClock, PeerClock, OwnClock, AnsweredAtOnce, EnumerationIsFresh,
      Allowed, Intervals
<1> QED
  BY <1>1, <1>3 DEF IInv

\* Both watchdogs are far: as long as both ends are in the session, neither
\* clock shows more than the keepalives that may be lost and the next one.
LEMMA NeitherIsDue ==
  IInv /\ s.established /\ peer.open /\ (direct => catalog # {}) =>
    s.waited < SessionTimeout[direct] /\ peer.quiet < SessionTimeout[direct]
<1> SUFFICES ASSUME IInv, s.established, peer.open, direct => catalog # {}
             PROVE  s.waited < SessionTimeout[direct] /\ peer.quiet < SessionTimeout[direct]
  OBVIOUS
<1> DEFINE K == KeepaliveEvery[direct]
<1>1. /\ LinkIInv /\ direct \in BOOLEAN /\ K \in Nat /\ SessionTimeout[direct] \in Nat
      /\ s.idle \in Nat /\ s.waited \in Nat /\ peer.quiet \in Nat /\ s.idle <= K
      /\ lost \in Nat /\ lost <= MaxLost /\ MaxLost \in Nat /\ Intervals(lost) \in Nat
  BY ClockTypes DEF IInv
<1>2. s.idle > 0 => toPeer = <<>> /\ NoReply(toApp)
  BY DEF IInv, ClockInv, AnsweredAtOnce
<1>3. s.waited <= K + Intervals(lost) /\ peer.quiet <= K + Intervals(lost)
  <2>1. /\ s.waited <= s.idle + Intervals(lost)
                        + (IF toPeer # <<>> \/ ~NoReply(toApp) THEN K ELSE 0)
        /\ peer.quiet <= s.idle + Intervals(lost) + (IF toPeer # <<>> THEN K ELSE 0)
    BY DEF IInv, ClockInv, OwnClock, PeerClock, Allowed
  <2> HIDE DEF K
  <2>2. CASE s.idle > 0
    BY <1>1, <1>2, <2>1, <2>2
  <2>3. CASE s.idle = 0
    BY <1>1, <2>1, <2>3
  <2> QED
    BY <1>1, <2>2, <2>3
<1>4. Intervals(lost) <= Intervals(MaxLost) /\ Intervals(MaxLost + 1) = Intervals(MaxLost) + K
      /\ Intervals(MaxLost) \in Nat
  BY <1>1, IntervalsGrow
<1>5. Intervals(MaxLost + 1) < SessionTimeout[direct]
  BY <1>1, TimingAssumption DEF Intervals
<1> HIDE DEF K
<1> QED
  BY <1>1, <1>3, <1>4, <1>5

\* As long as both ends are in the session, neither watchdog ends it, although
\* up to MaxLost frames in a row are lost: for all intervals that are chosen as
\* TimingAssumption says (btpbackend.cpp:83-97).
THEOREM BothEndsAliveStayHolds == Spec => BothEndsAliveStay
<1>1. IInv /\ [Next]_vars =>
        [(s.established /\ peer.open /\ ~FreshFault /\ (direct => catalog # {})) =>
            ~ThisEndGivesUp /\ ~PeerGivesUp]_vars
  <2> SUFFICES ASSUME IInv, s.established, peer.open, direct => catalog # {}
               PROVE  ~ThisEndGivesUp /\ ~PeerGivesUp
    OBVIOUS
  <2>1. s.waited < SessionTimeout[direct] /\ peer.quiet < SessionTimeout[direct]
    BY NeitherIsDue
  <2>2. LinkIInv
    BY DEF IInv
  <2> QED
    BY <2>1, <2>2, ClockTypes DEF ThisEndGivesUp, PeerGivesUp, PeerDue
<1> QED
  BY <1>1, InitIInv, StepIInv, PTL DEF Spec, BothEndsAliveStay

=============================================================================
