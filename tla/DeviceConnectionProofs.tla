----------------------- MODULE DeviceConnectionProofs -----------------------
(***************************************************************************)
(* What a connection guarantees for every kind of transport, wired to the  *)
(* main window or not, for all targets and whatever command is used.       *)
(*                                                                         *)
(* A handler is an operator from a connection to a connection, and so are  *)
(* the lemmas: one for each says how its result follows from its argument. *)
(* A handler calls the listener, which calls handlers; what is assumed of  *)
(* the listener (Tells) is proved of the innermost one first and of the    *)
(* real one from it.                                                       *)
(*                                                                         *)
(* In the middle of a handler the phase and the report disagree with the   *)
(* link.  What is never given up, even there, is Base; what a handler      *)
(* restores before it returns is Shown.                                    *)
(***************************************************************************)
EXTENDS DeviceConnection, SequenceTheorems, TLAPS

Talking == {"NegotiatingBtp", "Ready"}

\* The type, and what the fields say of each other at every moment.
Base(s) ==
  /\ s \in Dev
  /\ s.link # "closed" => s.linkTarget \in Target
  /\ s.wanted => s.target \in Target
  /\ s.link \in {"looking", "dialing"} => Asynchronous(s)
  /\ s.link \in {"dying", "exited"} => s.kind = "UsbHid"
  /\ s.kind # "UsbHid" => s.posted = <<>>

\* The phase is backed by the intent, the report and the link.
PhaseAllowed(s) == s.phase # "Disconnected" => s.available
PhaseReported(s) == s.phase \in Talking => s.wanted /\ s.available /\ s.reported
PhaseLinked(s) == s.phase \in Talking /\ s.posted = <<>> => IsConnected(s)
Shown(s) == PhaseAllowed(s) /\ PhaseReported(s) /\ PhaseLinked(s)

\* What ReportDown needs to know of a phase that it leaves alone.
Gate(s) == s.attempt /\ s.phase = "PreparingTransport" => s.available

Ticks(s) == s.wanted /\ s.available /\ s.auto => s.ticking

\* The link of a transport that opens at once leads where it should.
Aimed(s) == ~Asynchronous(s) /\ IsConnected(s) => s.linkTarget = s.target

\* An attempt of a transport that reports a failure is in its phase; it is not
\* connected yet; it has a dial under way.
Begun(s) == s.kind # "UsbHid" /\ s.wanted /\ s.attempt => s.phase = "PreparingTransport"
Short(s) == Begun(s) /\ (s.kind # "UsbHid" /\ s.wanted /\ s.attempt => ~IsConnected(s))
Dials(s) == Begun(s) /\ (s.kind # "UsbHid" /\ s.wanted /\ s.attempt
                           => s.link \in {"looking", "dialing"})

\* What no handler changes, and what each of them keeps.
Same(s, r) ==
  r.kind = s.kind /\ r.target = s.target /\ r.available = s.available /\ r.auto = s.auto

Follows(s, r) ==
  /\ Base(r)
  /\ Same(s, r)
  /\ s.wanted => r.wanted
  /\ Gate(s) => Gate(r)
  /\ Ticks(s) => Ticks(r)
  /\ Aimed(s) => Aimed(r)
  /\ ~s.available => r.link \in {s.link, "closed"}
  /\ Asynchronous(s) /\ ~IsConnected(s) => ~IsConnected(r)

\* What an attempt under way keeps.
Persists(s, r) ==
  /\ Short(s) => Short(r)
  /\ Dials(s) => Dials(r)

\* A listener that is told when nothing is reported any more: it does what a
\* handler does, and if it reports again, or the phase was right, it is right.
Tells(Told) ==
  \A s \in Dev :
    Base(s) /\ ~s.reported =>
      LET r == Told[s]
      IN /\ Follows(s, r)
         /\ Persists(s, r)
         /\ Gate(s) /\ (r.reported \/ Shown(s)) => Shown(r)

-----------------------------------------------------------------------------
\* Reports.

\* Transports differ.
LEMMA Kinds4 ==
  ASSUME NEW s, Base(s)
  PROVE  /\ s.kind \in {"Serial", "UsbHid", "Tcp", "Ble"}
         /\ IsConnected(s) <=> s.link \in {"open", "dying"}
         /\ Asynchronous(s) <=> s.kind \in {"Tcp", "Ble"}
BY KindAssumption DEF Base, Dev, IsConnected, Asynchronous

\* What is kept by two handlers is kept by the one after the other.
LEMMA FollowsChain ==
  ASSUME NEW s, NEW r, NEW t, Follows(s, r), Follows(r, t)
  PROVE  Follows(s, t)
BY DEF Follows, Same, Asynchronous

\* A connection that did nothing has followed the rules.
LEMMA FollowsItself ==
  ASSUME NEW s, Base(s)
  PROVE  Follows(s, s) /\ Persists(s, s)
BY DEF Follows, Same, Persists

\* The link is up, wanted and possible: reporting it puts the phase right.
LEMMA ReportUpOK ==
  ASSUME NEW s, Base(s), s.wanted, s.available, IsConnected(s), ~s.attempt
  PROVE  /\ Follows(s, ReportUp(s)) /\ Persists(s, ReportUp(s))
         /\ Shown(ReportUp(s))
         /\ ReportUp(s).link = s.link
         /\ ~ReportUp(s).attempt
<1> DEFINE told == IF s.reported \/ ~Wired THEN [s EXCEPT !.reported = TRUE]
                   ELSE [s EXCEPT !.reported = TRUE, !.paused = FALSE, !.ticking = @ \/ s.auto]
           r == ReportUp(s)
<1>1. s \in Dev
  BY DEF Base
<1>2. /\ told \in Dev
      /\ told.kind = s.kind /\ told.target = s.target /\ told.wanted = s.wanted
      /\ told.available = s.available /\ told.attempt = s.attempt /\ told.reported = TRUE
      /\ told.phase = s.phase /\ told.auto = s.auto /\ told.link = s.link
      /\ told.linkTarget = s.linkTarget /\ told.posted = s.posted
      /\ s.ticking => told.ticking
  BY <1>1 DEF Dev
<1>3. r = IF told.phase \in {"NegotiatingBtp", "Ready"} THEN told ELSE SetPhase(told, "NegotiatingBtp")
  BY DEF ReportUp
<1> HIDE DEF told, r
<1>4. /\ r \in Dev
      /\ r.kind = s.kind /\ r.target = s.target /\ r.wanted = s.wanted
      /\ r.available = s.available /\ r.attempt = s.attempt /\ r.reported = TRUE
      /\ r.phase \in Talking /\ r.auto = s.auto /\ r.link = s.link
      /\ r.linkTarget = s.linkTarget /\ r.posted = s.posted
      /\ s.ticking => r.ticking
  BY <1>2, <1>3 DEF Dev, SetPhase, Talking, ConnectionPhase
<1>5. Base(r) /\ Same(s, r)
  BY <1>4 DEF Base, Same, Asynchronous
<1>6. Gate(r) /\ (Ticks(s) => Ticks(r)) /\ (Aimed(s) => Aimed(r))
  BY <1>4 DEF Gate, Ticks, Aimed, Asynchronous, IsConnected
<1>7. Follows(s, r)
  BY <1>4, <1>5, <1>6 DEF Follows, IsConnected
<1>8. Persists(s, r) /\ Shown(r)
  BY <1>4 DEF Persists, Short, Dials, Begun, Shown, PhaseAllowed, PhaseReported, PhaseLinked,
              IsConnected
<1> QED
  BY <1>4, <1>7, <1>8 DEF r

\* Whatever the listener did, the phase is right when the drop is reported.
LEMMA ReportDownOK ==
  ASSUME NEW s, NEW Told, Base(s), Tells(Told)
  PROVE  /\ Follows(s, ReportDown(s, Told)) /\ Persists(s, ReportDown(s, Told))
         /\ Gate(s) => Shown(ReportDown(s, Told))
<1> DEFINE quiet == [s EXCEPT !.reported = FALSE]
           told == IF s.reported THEN Told[quiet] ELSE s
           r == ReportDown(s, Told)
<1>1. /\ quiet \in Dev
      /\ quiet.kind = s.kind /\ quiet.target = s.target /\ quiet.wanted = s.wanted
      /\ quiet.available = s.available /\ quiet.attempt = s.attempt /\ quiet.reported = FALSE
      /\ quiet.phase = s.phase /\ quiet.auto = s.auto /\ quiet.link = s.link
      /\ quiet.linkTarget = s.linkTarget /\ quiet.posted = s.posted
      /\ quiet.ticking = s.ticking
  BY DEF Base, Dev
<1>2. r = IF told.reported \/ (told.attempt /\ told.phase = "PreparingTransport") THEN told
          ELSE SetPhase(told, "Disconnected")
  BY DEF ReportDown
<1> HIDE DEF quiet
<1>3. Base(quiet) /\ Follows(s, quiet) /\ Persists(s, quiet) /\ (Gate(s) => Gate(quiet))
  <2>1. Base(quiet)
    BY <1>1 DEF Base, Asynchronous
  <2>2. Follows(s, quiet) /\ (Gate(s) => Gate(quiet))
    BY <1>1, <2>1 DEF Follows, Same, Gate, Ticks, Aimed, Asynchronous, IsConnected
  <2>3. Persists(s, quiet)
    BY <1>1 DEF Persists, Short, Dials, Begun, IsConnected
  <2> QED
    BY <2>1, <2>2, <2>3
<1>4. /\ Follows(s, told) /\ Persists(s, told)
      /\ Gate(s) => (told.reported => Shown(told))
  <2>1. CASE s.reported
    <3>1. told = Told[quiet]
      BY <2>1
    <3> HIDE DEF told
    <3>2. /\ Follows(quiet, told) /\ Persists(quiet, told)
          /\ Gate(quiet) /\ told.reported => Shown(told)
      BY <1>1, <1>3, <3>1 DEF Tells
    <3> QED
      BY <1>3, <3>2, FollowsChain DEF Persists
  <2>2. CASE ~s.reported
    BY <2>2, FollowsItself
  <2> QED
    BY <2>1, <2>2
<1> HIDE DEF told, r
<1>5. CASE told.reported \/ (told.attempt /\ told.phase = "PreparingTransport")
  <2>1. r = told
    BY <1>2, <1>5
  <2>2. Gate(s) => Shown(told)
    <3>1. Gate(s) => Gate(told)
      BY <1>4 DEF Follows
    <3> QED
      BY <1>4, <1>5, <3>1 DEF Gate, Shown, PhaseAllowed, PhaseReported, PhaseLinked, Talking
  <2> QED
    BY <1>4, <2>1, <2>2 DEF r
<1>6. CASE ~(told.reported \/ (told.attempt /\ told.phase = "PreparingTransport"))
  <2>1. told \in Dev
    BY <1>4 DEF Follows, Base
  <2>2. /\ r \in Dev
        /\ r.kind = told.kind /\ r.target = told.target /\ r.wanted = told.wanted
        /\ r.available = told.available /\ r.attempt = told.attempt
        /\ r.phase = "Disconnected" /\ r.auto = told.auto /\ r.link = told.link
        /\ r.linkTarget = told.linkTarget /\ r.posted = told.posted
        /\ r.ticking = told.ticking
    BY <1>2, <1>6, <2>1 DEF Dev, SetPhase, ConnectionPhase
  <2>3. Follows(told, r)
    <3>1. Base(told)
      BY <1>4 DEF Follows
    <3>2. Base(r)
      BY <2>2, <3>1 DEF Base, Asynchronous
    <3> QED
      BY <2>2, <3>2 DEF Follows, Same, Gate, Ticks, Aimed, Asynchronous, IsConnected
  <2>4. Persists(told, r)
    BY <1>6, <2>2 DEF Persists, Short, Dials, Begun, IsConnected
  <2>5. Shown(r)
    BY <2>2 DEF Shown, PhaseAllowed, PhaseReported, PhaseLinked, Talking
  <2>6. Follows(s, r) /\ Persists(s, r)
    BY <1>4, <2>3, <2>4, FollowsChain DEF Persists
  <2> QED
    BY <2>5, <2>6 DEF r
<1> QED
  BY <1>5, <1>6

-----------------------------------------------------------------------------
\* Signals of the transport.

\* A link that comes up ends the attempt it belongs to.
LEMMA TransportUpOK ==
  ASSUME NEW s, Base(s), IsConnected(s), Shown(s), Begun(s)
  PROVE  /\ Follows(s, TransportUp(s))
         /\ Short(TransportUp(s)) /\ Dials(TransportUp(s))
         /\ Shown(TransportUp(s))
         /\ TransportUp(s).link = s.link
<1> DEFINE b == [s EXCEPT !.session = "hello"]
           c == [b EXCEPT !.attempt = FALSE]
           r == TransportUp(s)
<1>1. /\ b \in Dev
      /\ b.kind = s.kind /\ b.target = s.target /\ b.wanted = s.wanted
      /\ b.available = s.available /\ b.attempt = s.attempt /\ b.reported = s.reported
      /\ b.phase = s.phase /\ b.auto = s.auto /\ b.link = s.link
      /\ b.linkTarget = s.linkTarget /\ b.posted = s.posted /\ b.ticking = s.ticking
  BY DEF Base, Dev
<1>2. r = IF b.wanted /\ b.phase = "PreparingTransport" THEN ReportUp(c) ELSE b
  BY DEF TransportUp
<1> HIDE DEF b
<1>3. /\ c \in Dev
      /\ c.kind = s.kind /\ c.target = s.target /\ c.wanted = s.wanted
      /\ c.available = s.available /\ c.attempt = FALSE /\ c.reported = s.reported
      /\ c.phase = s.phase /\ c.auto = s.auto /\ c.link = s.link
      /\ c.linkTarget = s.linkTarget /\ c.posted = s.posted /\ c.ticking = s.ticking
  BY <1>1 DEF Dev
<1> HIDE DEF c, r
<1>4. Base(b) /\ Base(c) /\ IsConnected(b) /\ IsConnected(c)
  BY <1>1, <1>3 DEF Base, Asynchronous, IsConnected
<1>5. Follows(s, b) /\ Follows(s, c)
  BY <1>1, <1>3, <1>4 DEF Follows, Same, Gate, Ticks, Aimed, Asynchronous, IsConnected
<1>6. CASE b.wanted /\ b.phase = "PreparingTransport"
  <2>1. c.wanted /\ c.available /\ ~c.attempt
    BY <1>1, <1>3, <1>6 DEF Shown, PhaseAllowed
  <2>2. /\ Follows(c, r) /\ Persists(c, r) /\ Shown(r) /\ r.link = c.link
    BY <1>2, <1>4, <1>6, <2>1, ReportUpOK
  <2>3. Short(c) /\ Dials(c)
    BY <1>3 DEF Short, Dials, Begun
  <2>4. Follows(s, r)
    BY <1>5, <2>2, FollowsChain
  <2> QED
    BY <1>3, <2>2, <2>3, <2>4 DEF Persists, r
<1>7. CASE ~(b.wanted /\ b.phase = "PreparingTransport")
  <2>1. r = b
    BY <1>2, <1>7
  <2>2. Shown(b)
    BY <1>1 DEF Shown, PhaseAllowed, PhaseReported, PhaseLinked, IsConnected
  <2>3. Short(b) /\ Dials(b)
    BY <1>1, <1>7 DEF Short, Dials, Begun
  <2> QED
    BY <1>1, <1>5, <2>1, <2>2, <2>3 DEF r
<1> QED
  BY <1>6, <1>7

\* A link that goes down ends the attempt; the phase is right unless the
\* connection is unavailable under a phase that says otherwise.
LEMMA TransportDownOK ==
  ASSUME NEW s, NEW Told, Base(s), Tells(Told)
  PROVE  /\ Follows(s, TransportDown(s, Told))
         /\ Short(TransportDown(s, Told)) /\ Dials(TransportDown(s, Told))
         /\ PhaseAllowed(s) => Shown(TransportDown(s, Told))
<1> DEFINE b == [s EXCEPT !.session = "none", !.attempt = FALSE]
           c == [b EXCEPT !.reported = FALSE]
           r == TransportDown(s, Told)
<1>1. /\ b \in Dev
      /\ b.kind = s.kind /\ b.target = s.target /\ b.wanted = s.wanted
      /\ b.available = s.available /\ b.attempt = FALSE /\ b.reported = s.reported
      /\ b.phase = s.phase /\ b.auto = s.auto /\ b.link = s.link
      /\ b.linkTarget = s.linkTarget /\ b.posted = s.posted /\ b.ticking = s.ticking
  BY DEF Base, Dev
<1>2. r = IF b.wanted /\ b.phase \in {"Connecting", "PreparingTransport"}
          THEN IF b.reported THEN Told[c] ELSE b
          ELSE ReportDown(b, Told)
  BY DEF TransportDown
<1> HIDE DEF b
<1>3. /\ c \in Dev
      /\ c.kind = s.kind /\ c.target = s.target /\ c.wanted = s.wanted
      /\ c.available = s.available /\ c.attempt = FALSE /\ c.reported = FALSE
      /\ c.phase = s.phase /\ c.auto = s.auto /\ c.link = s.link
      /\ c.linkTarget = s.linkTarget /\ c.posted = s.posted /\ c.ticking = s.ticking
  BY <1>1 DEF Dev
<1> HIDE DEF c, r
<1>4. Base(b) /\ Base(c)
  BY <1>1, <1>3 DEF Base, Asynchronous
<1>5. Follows(s, b) /\ Follows(s, c)
  BY <1>1, <1>3, <1>4 DEF Follows, Same, Gate, Ticks, Aimed, Asynchronous, IsConnected
<1>6. Gate(b) /\ Gate(c) /\ Short(b) /\ Dials(b) /\ Short(c) /\ Dials(c)
  BY <1>1, <1>3 DEF Gate, Short, Dials, Begun
<1>7. CASE ~(b.wanted /\ b.phase \in {"Connecting", "PreparingTransport"})
  <2>1. /\ Follows(b, r) /\ Persists(b, r) /\ Shown(r)
    BY <1>2, <1>4, <1>6, <1>7, ReportDownOK
  <2>2. Follows(s, r)
    BY <1>5, <2>1, FollowsChain
  <2> QED
    BY <1>6, <2>1, <2>2 DEF Persists, r
<1>8. CASE b.wanted /\ b.phase \in {"Connecting", "PreparingTransport"} /\ ~b.reported
  <2>1. r = b
    BY <1>2, <1>8
  <2>2. PhaseAllowed(s) => Shown(b)
    BY <1>1, <1>8 DEF Shown, PhaseAllowed, PhaseReported, PhaseLinked, Talking
  <2> QED
    BY <1>5, <1>6, <2>1, <2>2 DEF r
<1>9. CASE b.wanted /\ b.phase \in {"Connecting", "PreparingTransport"} /\ b.reported
  <2>1. r = Told[c]
    BY <1>2, <1>9
  <2>2. PhaseAllowed(s) => Shown(c)
    BY <1>1, <1>3, <1>9 DEF Shown, PhaseAllowed, PhaseReported, PhaseLinked, Talking
  <2>3. /\ Follows(c, r) /\ Persists(c, r)
        /\ Gate(c) /\ Shown(c) => Shown(r)
    BY <1>3, <1>4, <2>1 DEF Tells
  <2>4. Follows(s, r)
    BY <1>5, <2>3, FollowsChain
  <2> QED
    BY <1>6, <2>2, <2>3, <2>4 DEF Persists, r
<1> QED
  BY <1>7, <1>8, <1>9

\* An error ends the attempt of a transport that is not connected.
LEMMA TransportErrorOK ==
  ASSUME NEW s, NEW Told, Base(s), Tells(Told)
  PROVE  /\ Follows(s, TransportError(s, Told)) /\ Persists(s, TransportError(s, Told))
         /\ Short(s) => Dials(TransportError(s, Told))
         /\ PhaseAllowed(s) /\ PhaseReported(s) => Shown(TransportError(s, Told))
<1> DEFINE b == [s EXCEPT !.attempt = FALSE]
           r == TransportError(s, Told)
<1>1. r = IF ~IsConnected(s) /\ s.phase \in {"PreparingTransport", "NegotiatingBtp", "Ready"}
          THEN ReportDown(b, Told) ELSE s
  BY DEF TransportError
<1>2. /\ b \in Dev
      /\ b.kind = s.kind /\ b.target = s.target /\ b.wanted = s.wanted
      /\ b.available = s.available /\ b.attempt = FALSE /\ b.reported = s.reported
      /\ b.phase = s.phase /\ b.auto = s.auto /\ b.link = s.link
      /\ b.linkTarget = s.linkTarget /\ b.posted = s.posted /\ b.ticking = s.ticking
  BY DEF Base, Dev
<1> HIDE DEF b, r
<1>3. CASE ~IsConnected(s) /\ s.phase \in {"PreparingTransport", "NegotiatingBtp", "Ready"}
  <2>1. Base(b)
    BY <1>2 DEF Base, Asynchronous
  <2>2. Follows(s, b)
    BY <1>2, <2>1 DEF Follows, Same, Gate, Ticks, Aimed, Asynchronous, IsConnected
  <2>3. Gate(b) /\ Short(b) /\ Dials(b)
    BY <1>2 DEF Gate, Short, Dials, Begun
  <2>4. Follows(b, r) /\ Persists(b, r) /\ Shown(r)
    BY <1>1, <1>3, <2>1, <2>3, ReportDownOK
  <2>5. Follows(s, r)
    BY <2>2, <2>4, FollowsChain
  <2> QED
    BY <2>3, <2>4, <2>5 DEF Persists, r
<1>4. CASE ~(~IsConnected(s) /\ s.phase \in {"PreparingTransport", "NegotiatingBtp", "Ready"})
  <2>1. r = s
    BY <1>1, <1>4
  <2>2. Short(s) => Dials(s)
    BY <1>4 DEF Short, Dials, Begun
  <2>3. PhaseAllowed(s) /\ PhaseReported(s) => Shown(s)
    BY <1>4 DEF Shown, PhaseLinked, Talking
  <2> QED
    BY <2>1, <2>2, <2>3, FollowsItself DEF r
<1> QED
  BY <1>3, <1>4

-----------------------------------------------------------------------------
\* The transport.

\* A close leaves no attempt on a link, and a link nowhere but where it should.
LEMMA CloseLinkOK ==
  ASSUME NEW s, NEW Told, Base(s), Tells(Told)
  PROVE  /\ Follows(s, CloseLink(s, Told))
         /\ Aimed(CloseLink(s, Told))
         /\ Begun(s) => Short(CloseLink(s, Told))
         /\ IsConnected(s) /\ Begun(s) => Dials(CloseLink(s, Told))
         /\ Shown(s) => Shown(CloseLink(s, Told))
         /\ ~s.available => ~IsConnected(CloseLink(s, Told))
<1> DEFINE c == [s EXCEPT !.link = "closed"]
           u == [s EXCEPT !.link = "closed",
                          !.posted = IF IsConnected(s) THEN Append(@, "down") ELSE @]
           r == CloseLink(s, Told)
<1>1. r = IF s.kind = "UsbHid" THEN u
          ELSE IF IsConnected(s) THEN TransportDown(c, Told) ELSE c
  BY DEF CloseLink
<1>2. /\ c \in Dev
      /\ c.kind = s.kind /\ c.target = s.target /\ c.wanted = s.wanted
      /\ c.available = s.available /\ c.attempt = s.attempt /\ c.reported = s.reported
      /\ c.phase = s.phase /\ c.auto = s.auto /\ c.link = "closed"
      /\ c.linkTarget = s.linkTarget /\ c.posted = s.posted /\ c.ticking = s.ticking
  BY DEF Base, Dev, LinkState
<1>3. /\ u \in Dev
      /\ u.kind = s.kind /\ u.target = s.target /\ u.wanted = s.wanted
      /\ u.available = s.available /\ u.attempt = s.attempt /\ u.reported = s.reported
      /\ u.phase = s.phase /\ u.auto = s.auto /\ u.link = "closed"
      /\ u.linkTarget = s.linkTarget /\ u.ticking = s.ticking
      /\ IF IsConnected(s) THEN u.posted # <<>> ELSE u.posted = s.posted
  <2> DEFINE news == {"error", "down"}
  <2>1. s.posted \in Seq(news) /\ "down" \in news
    BY DEF Base, Dev
  <2> HIDE DEF news
  <2>2. /\ Append(s.posted, "down") \in Seq(news)
        /\ Append(s.posted, "down") # <<>>
    BY <2>1, AppendProperties
  <2>3. \A p \in Seq(news) : [s EXCEPT !.link = "closed", !.posted = p] \in Dev
    BY DEF Base, Dev, LinkState, news
  <2>4. (IF IsConnected(s) THEN Append(s.posted, "down") ELSE s.posted) \in Seq(news)
    BY <2>1, <2>2
  <2>5. u = [s EXCEPT !.link = "closed",
                      !.posted = IF IsConnected(s) THEN Append(s.posted, "down") ELSE s.posted]
    OBVIOUS
  <2>6. u \in Dev
    BY <2>3, <2>4, <2>5
  <2>7. s \in Dev
    BY DEF Base
  <2> QED
    BY <2>2, <2>5, <2>6, <2>7 DEF Dev
<1> HIDE DEF c, u, r
<1>4. CASE s.kind = "UsbHid"
  <2>1. r = u
    BY <1>1, <1>4
  <2>2. Base(u)
    BY <1>3, <1>4 DEF Base, Asynchronous
  <2>3. Follows(s, u) /\ Aimed(u)
    BY <1>3, <1>4, <2>2 DEF Follows, Same, Gate, Ticks, Aimed, Asynchronous, IsConnected
  <2>4. Short(u) /\ Dials(u) /\ ~IsConnected(u)
    BY <1>3, <1>4 DEF Short, Dials, Begun, IsConnected
  <2>5. Shown(s) => Shown(u)
    BY <1>3 DEF Shown, PhaseAllowed, PhaseReported, PhaseLinked
  <2> QED
    BY <2>1, <2>3, <2>4, <2>5 DEF r
<1>5. CASE s.kind # "UsbHid"
  <2>1. Base(c)
    BY <1>2 DEF Base, Asynchronous
  <2>2. Follows(s, c) /\ Aimed(c) /\ ~IsConnected(c)
    BY <1>2, <2>1 DEF Follows, Same, Gate, Ticks, Aimed, Asynchronous, IsConnected
  <2>3. CASE ~IsConnected(s)
    <3>1. r = c
      BY <1>1, <1>5, <2>3
    <3>2. Begun(s) => Short(c)
      BY <1>2, <2>2 DEF Short, Begun
    <3>3. Shown(s) => Shown(c)
      BY <1>2, <2>3 DEF Shown, PhaseAllowed, PhaseReported, PhaseLinked
    <3> QED
      BY <2>2, <2>3, <3>1, <3>2, <3>3 DEF r
  <2>4. CASE IsConnected(s)
    <3>1. /\ Follows(c, r) /\ Short(r) /\ Dials(r)
          /\ PhaseAllowed(c) => Shown(r)
      BY <1>1, <1>5, <2>1, <2>4, TransportDownOK
    <3>2. Follows(s, r)
      BY <2>2, <3>1, FollowsChain
    <3>3. Aimed(r)
      BY <2>2, <3>1 DEF Follows
    <3>4. Shown(s) => Shown(r)
      BY <1>2, <3>1 DEF Shown, PhaseAllowed
    <3>5. ~s.available => ~IsConnected(r)
      BY <1>2, <3>1 DEF Follows, IsConnected
    <3> QED
      BY <3>1, <3>2, <3>3, <3>4, <3>5 DEF r
  <2> QED
    BY <2>3, <2>4
<1> QED
  BY <1>4, <1>5

\* The same, of a close that is only done when there is a link.
LEMMA CloseGracefullyOK ==
  ASSUME NEW s, NEW Told, Base(s), Tells(Told), Dials(s)
  PROVE  /\ Follows(s, CloseTransportGracefully(s, Told))
         /\ Aimed(CloseTransportGracefully(s, Told))
         /\ Short(CloseTransportGracefully(s, Told))
         /\ Dials(CloseTransportGracefully(s, Told))
         /\ Shown(s) => Shown(CloseTransportGracefully(s, Told))
         /\ ~s.available => ~IsConnected(CloseTransportGracefully(s, Told))
<1> DEFINE r == CloseTransportGracefully(s, Told)
<1>1. Begun(s) /\ Short(s)
  BY DEF Dials, Short, IsConnected
<1>2. CASE IsConnected(s)
  <2>1. r = CloseLink(s, Told)
    BY <1>2 DEF CloseTransportGracefully
  <2> HIDE DEF r
  <2>2. /\ Follows(s, r) /\ Aimed(r) /\ Short(r) /\ Dials(r)
        /\ Shown(s) => Shown(r)
        /\ ~s.available => ~IsConnected(r)
    BY <1>1, <1>2, <2>1, CloseLinkOK
  <2> QED
    BY <2>2 DEF r
<1>3. CASE ~IsConnected(s)
  <2>1. r = s
    BY <1>3 DEF CloseTransportGracefully
  <2>2. Aimed(s)
    BY <1>3 DEF Aimed
  <2> QED
    BY <1>1, <1>3, <2>1, <2>2, FollowsItself
<1> QED
  BY <1>2, <1>3

-----------------------------------------------------------------------------
\* The next attempt.

\* An attempt that may be made: it is marked, and in its phase.
Attempting(s) ==
  /\ s.wanted /\ s.available /\ s.attempt
  /\ s.phase = "PreparingTransport"

\* A link that has just been opened, and is aimed at the target, is a link that
\* comes up.
LEMMA OpenedOK ==
  ASSUME NEW s, Base(s), s.target \in Target, Shown(s), Begun(s), s.available
  PROVE  /\ Follows(s, Opened(s)) \/ Asynchronous(s)
         /\ ~Asynchronous(s) =>
              /\ Short(Opened(s)) /\ Dials(Opened(s))
              /\ Shown(Opened(s))
              /\ Aimed(Opened(s))
<1> DEFINE o == [s EXCEPT !.link = "open", !.linkTarget = s.target]
           r == Opened(s)
<1>1. r = TransportUp(o)
  BY DEF Opened
<1>2. /\ o \in Dev
      /\ o.kind = s.kind /\ o.target = s.target /\ o.wanted = s.wanted
      /\ o.available = s.available /\ o.attempt = s.attempt /\ o.reported = s.reported
      /\ o.phase = s.phase /\ o.auto = s.auto /\ o.link = "open"
      /\ o.linkTarget = s.target /\ o.posted = s.posted /\ o.ticking = s.ticking
  BY DEF Base, Dev, LinkState
<1> HIDE DEF o, r
<1>3. Base(o) /\ IsConnected(o) /\ Begun(o) /\ Shown(o)
  BY <1>2 DEF Base, IsConnected, Begun, Asynchronous, Shown, PhaseAllowed, PhaseReported,
              PhaseLinked
<1>4. /\ Follows(o, r) /\ Short(r) /\ Dials(r) /\ Shown(r)
  BY <1>1, <1>3, TransportUpOK
<1>5. Aimed(o)
  BY <1>2 DEF Aimed
<1>6. CASE ~Asynchronous(s)
  <2>1. Follows(s, o)
    BY <1>2, <1>3, <1>5, <1>6 DEF Follows, Same, Gate, Ticks
  <2>2. Follows(s, r)
    BY <1>4, <2>1, FollowsChain
  <2>3. Aimed(r)
    BY <1>4, <1>5 DEF Follows
  <2> QED
    BY <1>4, <2>2, <2>3 DEF r
<1> QED
  BY <1>6

\* Opening at once: the attempt is over when open() returns.
LEMMA OpenNowOK ==
  ASSUME NEW s, NEW Told, Base(s), Tells(Told), Attempting(s), Shown(s), ~Asynchronous(s)
  PROVE  /\ Follows(s, OpenNow(s, Told))
         /\ Short(OpenNow(s, Told)) /\ Dials(OpenNow(s, Told))
         /\ Shown(OpenNow(s, Told))
         /\ Aimed(OpenNow(s, Told))
<1> DEFINE c == CloseLink(s, Told)
           w == IF s.kind = "Serial" /\ s.target \in Warned THEN TransportError(c, Told) ELSE c
           e == TransportError(w, Told)
           r == OpenNow(s, Told)
<1>1. /\ \/ r = Opened(w)
         \/ r = w /\ s.kind = "UsbHid"
         \/ r = e
  BY DEF OpenNow
<1>2. Begun(s)
  BY DEF Attempting, Begun
<1>3. Follows(s, c) /\ Aimed(c) /\ Short(c) /\ Shown(c)
  BY <1>2, CloseLinkOK
<1>4. w = c \/ w = TransportError(c, Told)
  OBVIOUS
<1> HIDE DEF c, w, r
<1>5. Base(c)
  BY <1>3 DEF Follows
<1>6. Follows(s, w) /\ Aimed(w) /\ Short(w) /\ Shown(w)
  <2>1. CASE w = c
    BY <1>3, <2>1
  <2>2. CASE w = TransportError(c, Told)
    <3>1. Follows(c, w) /\ Persists(c, w) /\ Shown(w)
      BY <1>3, <1>5, <2>2, TransportErrorOK DEF Shown
    <3>2. Aimed(w)
      BY <1>3, <3>1 DEF Follows
    <3> QED
      BY <1>3, <3>1, <3>2, FollowsChain DEF Persists
  <2> QED
    BY <1>4, <2>1, <2>2
<1>7. /\ Base(w) /\ w.target = s.target /\ w.kind = s.kind /\ w.available = s.available
      /\ ~Asynchronous(w) /\ Begun(w)
  BY <1>6 DEF Follows, Same, Asynchronous, Short
<1>8. CASE r = Opened(w)
  <2>1. w.target \in Target /\ w.available
    BY <1>7 DEF Attempting, Base
  <2>2. Follows(w, r) /\ Short(r) /\ Dials(r) /\ Shown(r) /\ Aimed(r)
    BY <1>6, <1>7, <1>8, <2>1, OpenedOK
  <2> QED
    BY <1>6, <2>2, FollowsChain DEF r
<1>9. CASE r = w /\ s.kind = "UsbHid"
  <2>1. Dials(w)
    BY <1>7, <1>9 DEF Dials, Begun
  <2> QED
    BY <1>6, <1>9, <2>1 DEF r
<1>10. CASE r = e
  <2> HIDE DEF e
  <2>1. Follows(w, e) /\ Persists(w, e) /\ Dials(e) /\ Shown(e)
    BY <1>6, <1>7, TransportErrorOK DEF Shown, e
  <2>2. Aimed(e) /\ Short(e)
    BY <1>6, <2>1 DEF Follows, Persists
  <2> QED
    BY <1>6, <1>10, <2>1, <2>2, FollowsChain DEF r
<1> QED
  BY <1>1, <1>8, <1>9, <1>10

\* Starting a dial: the attempt has one under way, its own or an old one.
LEMMA StartDialOK ==
  ASSUME NEW s, Base(s), Attempting(s), Shown(s), Asynchronous(s), ~IsConnected(s)
  PROVE  /\ Follows(s, StartDial(s))
         /\ Short(StartDial(s)) /\ Dials(StartDial(s))
         /\ Shown(StartDial(s))
         /\ Aimed(StartDial(s))
<1> DEFINE state == IF s.target \in Named THEN "looking" ELSE "dialing"
           o == [s EXCEPT !.link = state, !.linkTarget = s.target]
           r == StartDial(s)
<1>1. r = IF s.kind = "Tcp" /\ s.link \notin {"closed", "looking"} THEN s ELSE o
  BY DEF StartDial
<1>2. state \in {"looking", "dialing"}
  OBVIOUS
<1> HIDE DEF state
<1>3. /\ o \in Dev
      /\ o.kind = s.kind /\ o.target = s.target /\ o.wanted = s.wanted
      /\ o.available = s.available /\ o.attempt = s.attempt /\ o.reported = s.reported
      /\ o.phase = s.phase /\ o.auto = s.auto /\ o.link \in {"looking", "dialing"}
      /\ o.linkTarget = s.target /\ o.posted = s.posted /\ o.ticking = s.ticking
  BY <1>2 DEF Base, Dev, LinkState
<1> HIDE DEF o, r
<1>4. CASE r = o
  <2>1. Base(o)
    BY <1>3 DEF Base, Asynchronous, Attempting
  <2>2. Follows(s, o) /\ Aimed(o)
    BY <1>3, <2>1 DEF Follows, Same, Gate, Ticks, Aimed, Asynchronous, IsConnected, Attempting
  <2>3. Short(o) /\ Dials(o) /\ Shown(o)
    BY <1>3 DEF Short, Dials, Begun, IsConnected, Attempting, Shown, PhaseAllowed,
                PhaseReported, PhaseLinked, Talking
  <2> QED
    BY <1>4, <2>2, <2>3 DEF r
<1>5. CASE r = s /\ s.kind = "Tcp" /\ s.link \notin {"closed", "looking"}
  <2>1. s.link = "dialing"
    BY <1>5 DEF Base, Dev, LinkState, IsConnected
  <2>2. Short(s) /\ Dials(s) /\ Aimed(s)
    BY <2>1 DEF Short, Dials, Begun, Attempting, Aimed
  <2> QED
    BY <1>5, <2>2, FollowsItself DEF r
<1> QED
  BY <1>1, <1>4, <1>5

\* The timer's handler, and the last step of every connectTo: on a connection
\* whose phase is right it leaves no attempt without a link on its way.
LEMMA AttemptReconnectOK ==
  ASSUME NEW s, NEW Told, Base(s), Tells(Told), Shown(s), Dials(s)
  PROVE  /\ Follows(s, AttemptReconnect(s, Told))
         /\ Dials(AttemptReconnect(s, Told))
         /\ Shown(AttemptReconnect(s, Told))
<1> DEFINE r == AttemptReconnect(s, Told)
<1>1. CASE ~s.wanted \/ ~s.available \/ s.paused
  BY <1>1, FollowsItself DEF AttemptReconnect
<1>2. CASE s.wanted /\ s.available /\ ~s.paused /\ IsConnected(s)
  <2> DEFINE b == [s EXCEPT !.attempt = FALSE]
  <2>1. r = IF s.reported THEN s ELSE ReportUp(b)
    BY <1>2 DEF AttemptReconnect
  <2>2. /\ b \in Dev
        /\ b.kind = s.kind /\ b.target = s.target /\ b.wanted = s.wanted
        /\ b.available = s.available /\ b.attempt = FALSE /\ b.reported = s.reported
        /\ b.phase = s.phase /\ b.auto = s.auto /\ b.link = s.link
        /\ b.linkTarget = s.linkTarget /\ b.posted = s.posted /\ b.ticking = s.ticking
    BY DEF Base, Dev
  <2> HIDE DEF b, r
  <2>3. CASE r = s
    BY <2>3, FollowsItself DEF r
  <2>4. CASE r = ReportUp(b)
    <3>1. Base(b) /\ b.wanted /\ b.available /\ IsConnected(b) /\ ~b.attempt
      BY <1>2, <2>2 DEF Base, Asynchronous, IsConnected
    <3>2. Follows(s, b)
      BY <2>2, <3>1 DEF Follows, Same, Gate, Ticks, Aimed, Asynchronous, IsConnected
    <3>3. Dials(b)
      BY <2>2 DEF Dials, Begun
    <3>4. Follows(b, r) /\ Persists(b, r) /\ Shown(r)
      BY <2>4, <3>1, ReportUpOK
    <3> QED
      BY <3>2, <3>3, <3>4, FollowsChain DEF Persists, r
  <2> QED
    BY <2>1, <2>3, <2>4
<1>3. CASE s.wanted /\ s.available /\ ~s.paused /\ ~IsConnected(s)
  <2> DEFINE m == IF s.reported /\ ~s.attempt THEN ReportDown(s, Told) ELSE s
             b == [m EXCEPT !.attempt = TRUE, !.phase = "PreparingTransport"]
  <2>1. r = IF m.attempt THEN m ELSE OpenLink(b, Told)
    BY <1>3 DEF AttemptReconnect
  <2>2. m = s \/ m = ReportDown(s, Told)
    OBVIOUS
  <2> HIDE DEF m, r
  <2>3. Follows(s, m) /\ Dials(m) /\ Shown(m)
    <3>1. Gate(s)
      BY DEF Shown, PhaseAllowed, Gate
    <3>2. CASE m = s
      BY <3>2, FollowsItself
    <3>3. CASE m = ReportDown(s, Told)
      BY <3>1, <3>3, ReportDownOK DEF Persists
    <3> QED
      BY <2>2, <3>2, <3>3
  <2>4. CASE m.attempt
    BY <2>1, <2>3, <2>4 DEF r
  <2>5. CASE ~m.attempt
    <3>1. r = OpenLink(b, Told)
      BY <2>1, <2>5
    <3>2. Base(m) /\ m.wanted /\ m.available /\ m.kind = s.kind
      BY <1>3, <2>3 DEF Follows, Same
    <3>3. /\ b \in Dev
          /\ b.kind = m.kind /\ b.target = m.target /\ b.wanted = m.wanted
          /\ b.available = m.available /\ b.attempt = TRUE /\ b.reported = m.reported
          /\ b.phase = "PreparingTransport" /\ b.auto = m.auto /\ b.link = m.link
          /\ b.linkTarget = m.linkTarget /\ b.posted = m.posted /\ b.ticking = m.ticking
      BY <3>2 DEF Base, Dev, ConnectionPhase
    <3> HIDE DEF b
    <3>4. Base(b) /\ Attempting(b)
      BY <3>2, <3>3 DEF Base, Asynchronous, Attempting
    <3>5. Follows(m, b)
      BY <3>2, <3>3, <3>4 DEF Follows, Same, Gate, Ticks, Aimed, Asynchronous, IsConnected
    <3>6. Shown(b)
      BY <3>2, <3>3 DEF Shown, PhaseAllowed, PhaseReported, PhaseLinked, Talking
    <3>7. Asynchronous(b) => ~IsConnected(b)
      <4>1. Asynchronous(b) => Asynchronous(s)
        BY <3>2, <3>3 DEF Asynchronous
      <4>2. Asynchronous(s) => ~IsConnected(m)
        BY <1>3, <2>3 DEF Follows
      <4> QED
        BY <3>3, <4>1, <4>2 DEF IsConnected
    <3>8. Follows(b, r) /\ Dials(r) /\ Shown(r)
      BY <3>1, <3>4, <3>6, <3>7, OpenNowOK, StartDialOK DEF OpenLink
    <3> QED
      BY <2>3, <3>5, <3>8, FollowsChain DEF r
  <2> QED
    BY <2>4, <2>5
<1> QED
  BY <1>1, <1>2, <1>3

\* Starting the timer keeps everything, and leaves it running if it should be.
LEMMA ArmOK ==
  ASSUME NEW s, Base(s)
  PROVE  /\ Follows(s, Arm(s)) /\ Persists(s, Arm(s))
         /\ Shown(s) => Shown(Arm(s))
         /\ Ticks(Arm(s))
         /\ Arm(s).reported = s.reported
<1> DEFINE r == Arm(s)
<1>1. /\ r \in Dev
      /\ r.kind = s.kind /\ r.target = s.target /\ r.wanted = s.wanted
      /\ r.available = s.available /\ r.attempt = s.attempt /\ r.reported = s.reported
      /\ r.phase = s.phase /\ r.auto = s.auto /\ r.link = s.link
      /\ r.linkTarget = s.linkTarget /\ r.posted = s.posted
      /\ s.auto => r.ticking
  BY DEF Arm, Base, Dev
<1> HIDE DEF r
<1>2. Base(r)
  BY <1>1 DEF Base, Asynchronous
<1>3. Follows(s, r) /\ Ticks(r)
  BY <1>1, <1>2 DEF Follows, Same, Gate, Ticks, Aimed, Asynchronous, IsConnected
<1>4. Persists(s, r) /\ (Shown(s) => Shown(r))
  BY <1>1 DEF Persists, Short, Dials, Begun, IsConnected, Shown, PhaseAllowed, PhaseReported,
              PhaseLinked
<1> QED
  BY <1>1, <1>3, <1>4 DEF r

-----------------------------------------------------------------------------
\* The commands, and the listener that gives one.

\* A transport that opens at once has no link while the device is unavailable.
Grounded(s) == ~Asynchronous(s) /\ ~s.available => ~IsConnected(s)

\* What every connectTo makes of a connection, whatever target it is given.
Connects(s, t, r) ==
  /\ Base(r)
  /\ r.kind = s.kind /\ r.available = s.available /\ r.auto = s.auto /\ r.target = t
  /\ t # NoTarget => r.wanted
  /\ Persists(s, r)
  /\ Gate(s) => Gate(r)
  /\ Gate(s) /\ (Shown(s) \/ (r.reported /\ ~s.reported)) => Shown(r)
  /\ Ticks(r)
  /\ Aimed(s) /\ (t = s.target \/ Grounded(s)) => Aimed(r)
  /\ ~s.available => r.link \in {s.link, "closed"}
  /\ Asynchronous(s) /\ ~IsConnected(s) => ~IsConnected(r)

\* What a step that changed the target, the intent and the attempt has left.
LEMMA ConnectsFollowed ==
  ASSUME NEW s, NEW t, NEW q, NEW r, Base(s), Follows(q, r),
         q.kind = s.kind, q.available = s.available, q.auto = s.auto, q.target = t,
         q.link = s.link,
         t # NoTarget => q.wanted,
         Short(r), Dials(r), Gate(s) => Shown(r), Ticks(r),
         Aimed(s) /\ (t = s.target \/ Grounded(s)) => Aimed(r)
  PROVE  Connects(s, t, r)
<1>1. Shown(r) => Gate(r)
  BY DEF Shown, PhaseAllowed, Gate
<1>2. (Asynchronous(q) <=> Asynchronous(s)) /\ (IsConnected(q) <=> IsConnected(s))
  BY DEF Asynchronous, IsConnected
<1> QED
  BY <1>1, <1>2 DEF Connects, Follows, Same, Persists

\* connectTo() ends in a state of the promised shape, whatever a listener does meanwhile.
LEMMA ConnectToOK ==
  ASSUME NEW s, NEW Told, Base(s), Tells(Told), NEW t \in Target \cup {NoTarget}
  PROVE  Connects(s, t, ConnectTo(s, t, Told))
<1> DEFINE changed == t # s.target
           held == s.attempt /\ Asynchronous(s) /\ t = NoTarget
           want == t # NoTarget
           asked == [s EXCEPT !.target = t, !.wanted = want, !.attempt = held]
           next == SetPhase(asked, "Connecting")
           clear == IF changed THEN CloseTransportGracefully(next, Told) ELSE next
           off == [asked EXCEPT !.ticking = FALSE]
           r == ConnectTo(s, t, Told)
<1>1. /\ asked \in Dev
      /\ asked.kind = s.kind /\ asked.target = t /\ asked.wanted = (t # NoTarget)
      /\ asked.available = s.available /\ asked.reported = s.reported
      /\ asked.attempt \in BOOLEAN /\ (asked.attempt => s.attempt /\ t = NoTarget)
      /\ asked.phase = s.phase /\ asked.auto = s.auto /\ asked.link = s.link
      /\ asked.linkTarget = s.linkTarget /\ asked.posted = s.posted
      /\ asked.ticking = s.ticking
  <2>1. held \in BOOLEAN /\ (held => s.attempt /\ t = NoTarget) /\ want \in BOOLEAN
    BY DEF Base, Dev
  <2>2. s \in Dev
    BY DEF Base
  <2> HIDE DEF held, want
  <2>3. /\ asked \in Dev
        /\ asked.kind = s.kind /\ asked.target = t /\ asked.wanted = want
        /\ asked.available = s.available /\ asked.reported = s.reported
        /\ asked.attempt = held
        /\ asked.phase = s.phase /\ asked.auto = s.auto /\ asked.link = s.link
        /\ asked.linkTarget = s.linkTarget /\ asked.posted = s.posted
        /\ asked.ticking = s.ticking
    BY <2>1, <2>2 DEF Dev
  <2> QED
    BY <2>1, <2>3 DEF want
<1>2. r = CASE t = NoTarget -> ReportDown(CloseTransportGracefully(off, Told), Told)
            [] t # NoTarget /\ ~changed /\ s.wanted /\ s.available /\ (IsConnected(s) \/ s.attempt) ->
                 Arm(s)
            [] OTHER ->
                 IF ~s.available THEN SetPhase(asked, "Disconnected")
                 ELSE Arm(AttemptReconnect(clear, Told))
  BY DEF ConnectTo
<1> HIDE DEF asked, r
<1>3. Base(asked)
  BY <1>1 DEF Base, Asynchronous
<1>4. CASE t = NoTarget
  <2> DEFINE x == CloseTransportGracefully(off, Told)
  <2>1. r = ReportDown(x, Told)
    BY <1>2, <1>4
  <2>2. /\ off \in Dev
        /\ off.kind = s.kind /\ off.target = t /\ off.wanted = FALSE
        /\ off.available = s.available /\ off.reported = s.reported
        /\ off.attempt = asked.attempt
        /\ off.phase = s.phase /\ off.auto = s.auto /\ off.link = s.link
        /\ off.linkTarget = s.linkTarget /\ off.posted = s.posted
    BY <1>1, <1>4 DEF Dev
  <2> HIDE DEF off
  <2>3. Base(off) /\ Dials(off) /\ Ticks(off) /\ (Gate(s) => Gate(off))
    BY <1>1, <1>4, <2>2 DEF Base, Asynchronous, Dials, Begun, Ticks, Gate
  <2>4. Follows(off, x) /\ Aimed(x) /\ Short(x) /\ Dials(x)
    BY <2>3, CloseGracefullyOK
  <2>5. Base(x)
    BY <2>4 DEF Follows
  <2> HIDE DEF x
  <2>6. Follows(x, r) /\ Persists(x, r) /\ (Gate(x) => Shown(r))
    BY <2>1, <2>5, ReportDownOK
  <2>7. Follows(off, r) /\ Ticks(r) /\ Aimed(r)
    <3>1. Follows(off, r)
      BY <2>4, <2>6, FollowsChain
    <3> QED
      BY <2>3, <2>4, <2>6, <3>1 DEF Follows
  <2>8. Gate(s) => Shown(r)
    BY <2>3, <2>4, <2>6 DEF Follows
  <2>9. Short(r) /\ Dials(r)
    BY <2>4, <2>6 DEF Persists
  <2>10. Connects(s, t, r)
    BY <1>4, <2>2, <2>7, <2>8, <2>9, ConnectsFollowed
  <2> QED
    BY <2>10 DEF r
<1>5. CASE t # NoTarget /\ ~changed /\ s.wanted /\ s.available /\ (IsConnected(s) \/ s.attempt)
  <2>1. r = Arm(s)
    BY <1>2, <1>5
  <2>2. /\ Follows(s, r) /\ Persists(s, r) /\ (Shown(s) => Shown(r)) /\ Ticks(r)
        /\ r.reported = s.reported
    BY <2>1, ArmOK
  <2>3. Connects(s, t, r)
    BY <1>5, <2>2 DEF Connects, Follows, Same
  <2> QED
    BY <2>3 DEF r
<1>6. CASE /\ t # NoTarget
           /\ ~(~changed /\ s.wanted /\ s.available /\ (IsConnected(s) \/ s.attempt))
           /\ ~s.available
  <2>1. r = SetPhase(asked, "Disconnected")
    BY <1>2, <1>6
  <2>2. /\ r \in Dev
        /\ r.kind = s.kind /\ r.target = t /\ r.wanted = TRUE
        /\ r.available = s.available /\ r.reported = s.reported
        /\ r.attempt = FALSE /\ r.phase = "Disconnected" /\ r.auto = s.auto
        /\ r.link = s.link /\ r.linkTarget = s.linkTarget /\ r.posted = s.posted
    BY <1>1, <1>6, <2>1 DEF Dev, SetPhase, ConnectionPhase
  <2>3. Base(r)
    BY <1>6, <2>2 DEF Base, Asynchronous
  <2>4. Shown(r) /\ Gate(r) /\ Ticks(r) /\ Short(r) /\ Dials(r)
    BY <1>6, <2>2 DEF Shown, PhaseAllowed, PhaseReported, PhaseLinked, Talking, Gate, Ticks,
                      Short, Dials, Begun
  <2>5. Aimed(s) /\ (t = s.target \/ Grounded(s)) => Aimed(r)
    BY <1>6, <2>2 DEF Aimed, Grounded, Asynchronous, IsConnected
  <2>6. Follows(r, r)
    BY <2>3, FollowsItself
  <2>7. Connects(s, t, r)
    BY <2>2, <2>4, <2>5, <2>6, ConnectsFollowed
  <2> QED
    BY <2>7 DEF r
<1>7. CASE /\ t # NoTarget
           /\ ~(~changed /\ s.wanted /\ s.available /\ (IsConnected(s) \/ s.attempt))
           /\ s.available
  <2> DEFINE x == AttemptReconnect(clear, Told)
  <2>1. r = Arm(x)
    BY <1>2, <1>7
  <2>2. /\ next \in Dev
        /\ next.kind = s.kind /\ next.target = t /\ next.wanted = TRUE
        /\ next.available = TRUE /\ next.reported = s.reported
        /\ next.attempt = FALSE /\ next.phase = "Connecting" /\ next.auto = s.auto
        /\ next.link = s.link /\ next.linkTarget = s.linkTarget /\ next.posted = s.posted
    BY <1>1, <1>7 DEF Dev, SetPhase, ConnectionPhase, Base
  <2>3. clear = next \/ (changed /\ clear = CloseTransportGracefully(next, Told))
    OBVIOUS
  <2>4. ~changed => clear = next
    OBVIOUS
  <2>5. s.available = TRUE
    BY <1>7 DEF Base, Dev
  <2> HIDE DEF next, clear
  <2>6. Base(next) /\ Shown(next) /\ Dials(next)
    BY <1>7, <2>2 DEF Base, Asynchronous, Shown, PhaseAllowed, PhaseReported, PhaseLinked,
                      Talking, Dials, Begun
  <2>7. Follows(next, clear) /\ Shown(clear) /\ Dials(clear)
    BY <2>3, <2>6, CloseGracefullyOK, FollowsItself
  <2>8. Aimed(s) /\ (t = s.target \/ Grounded(s)) => Aimed(clear)
    <3>1. CASE changed
      <4>1. clear = CloseTransportGracefully(next, Told) \/ clear = next
        BY <2>3
      <4>2. clear = CloseTransportGracefully(next, Told)
        BY <3>1 DEF clear
      <4> QED
        BY <2>6, <4>2, CloseGracefullyOK
    <3>2. CASE ~changed
      BY <2>2, <2>4, <3>2 DEF Aimed, Asynchronous, IsConnected
    <3> QED
      BY <3>1, <3>2
  <2>9. Base(clear)
    BY <2>7 DEF Follows
  <2>10. Follows(clear, x) /\ Dials(x) /\ Shown(x)
    BY <2>7, <2>9, AttemptReconnectOK
  <2>11. Base(x)
    BY <2>10 DEF Follows
  <2> HIDE DEF x
  <2>12. Follows(x, r) /\ Persists(x, r) /\ (Shown(x) => Shown(r)) /\ Ticks(r)
    BY <2>1, <2>11, ArmOK
  <2>13. Follows(next, r)
    BY <2>7, <2>10, <2>12, FollowsChain
  <2>14. Dials(r) /\ Short(r) /\ Shown(r)
    <3>1. Dials(x) => Short(x)
      BY DEF Dials, Short, IsConnected
    <3> QED
      BY <2>10, <2>12, <3>1 DEF Persists
  <2>15. Aimed(clear) => Aimed(r)
    BY <2>10, <2>12 DEF Follows
  <2>16. Connects(s, t, r)
    BY <2>2, <2>5, <2>8, <2>12, <2>13, <2>14, <2>15, ConnectsFollowed
  <2> QED
    BY <2>16 DEF r
<1> QED
  BY <1>4, <1>5, <1>6, <1>7

\* A listener that does nothing.
LEMMA SilentTells == Tells(Silent)
<1>1. \A s \in Dev : Silent[s] = s
  BY DEF Silent
<1> QED
  BY <1>1, FollowsItself DEF Tells

\* The main window's: it applies the target in use again, and what that
\* reports it does not hear.
LEMMA ToldOnceTells == Tells(ToldOnce)
<1> SUFFICES ASSUME NEW s \in Dev, Base(s), ~s.reported
             PROVE  /\ Follows(s, ToldOnce[s])
                    /\ Persists(s, ToldOnce[s])
                    /\ Gate(s) /\ (ToldOnce[s].reported \/ Shown(s)) => Shown(ToldOnce[s])
  BY DEF Tells
<1> DEFINE q == [s EXCEPT !.paused = FALSE]
           r == ToldOnce[s]
<1>1. r = IF Wired THEN ConnectTo(q, s.target, Silent) ELSE s
  BY DEF ToldOnce
<1>2. /\ q \in Dev
      /\ q.kind = s.kind /\ q.target = s.target /\ q.wanted = s.wanted
      /\ q.available = s.available /\ q.attempt = s.attempt /\ q.reported = s.reported
      /\ q.phase = s.phase /\ q.auto = s.auto /\ q.link = s.link
      /\ q.linkTarget = s.linkTarget /\ q.posted = s.posted /\ q.ticking = s.ticking
  BY DEF Dev
<1> HIDE DEF q, r
<1>3. CASE ~Wired
  <2>1. r = s
    BY <1>1, <1>3
  <2> QED
    BY <2>1, FollowsItself DEF r
<1>4. CASE Wired
  <2>1. s.target \in Target \cup {NoTarget}
    BY DEF Dev
  <2>2. Base(q) /\ (Gate(s) => Gate(q)) /\ (Aimed(s) => Aimed(q)) /\ Persists(s, q)
        /\ (Shown(s) => Shown(q))
    BY <1>2 DEF Base, Asynchronous, Gate, Aimed, IsConnected, Persists, Short, Dials, Begun,
                Shown, PhaseAllowed, PhaseReported, PhaseLinked
  <2>3. Connects(q, s.target, r)
    BY <1>1, <1>4, <2>1, <2>2, SilentTells, ConnectToOK
  <2>4. s.wanted => r.wanted
    BY <2>3, TargetAssumption DEF Connects, Base
  <2>5. Follows(s, r)
    BY <1>2, <2>2, <2>3, <2>4 DEF Follows, Same, Connects, Asynchronous, IsConnected
  <2>6. Persists(s, r) /\ (Gate(s) /\ (r.reported \/ Shown(s)) => Shown(r))
    BY <1>2, <2>2, <2>3 DEF Connects, Persists
  <2> QED
    BY <2>5, <2>6 DEF r
<1> QED
  BY <1>3, <1>4

-----------------------------------------------------------------------------
\* Events.

\* A connection between two events.
Good(s) == Base(s) /\ Shown(s) /\ Dials(s) /\ Aimed(s) /\ Grounded(s)

\* What an event makes of it, unless it changes the availability itself.
Leads(s, r) == Good(r) /\ r.available = s.available /\ (Ticks(s) => Ticks(r))

\* An event alters the connection to q and runs handlers that end in r.
LEMMA LeadsFollowed ==
  ASSUME NEW s, NEW q, NEW r, Follows(q, r), Shown(r), Dials(r),
         Aimed(q), Grounded(q), q.available = s.available, Ticks(s) => Ticks(q)
  PROVE  Leads(s, r)
<1>1. Base(r) /\ Aimed(r)
  BY DEF Follows
<1>2. Grounded(r)
  BY DEF Follows, Same, Grounded, Asynchronous, IsConnected
<1> QED
  BY <1>1, <1>2 DEF Leads, Good, Follows, Same

\* A handler that is a connectTo() from a good state is a good step.
LEMMA LeadsConnected ==
  ASSUME NEW s, NEW q, NEW t, NEW r, Connects(q, t, r), Good(q), q.available = s.available
  PROVE  Leads(s, r)
<1>1. Gate(q) /\ Short(q)
  BY DEF Good, Shown, PhaseAllowed, Gate, Dials, Short, IsConnected
<1>2. Grounded(r)
  BY DEF Connects, Good, Grounded, Asynchronous, IsConnected
<1> QED
  BY <1>1, <1>2 DEF Leads, Good, Connects, Persists

\* Fields that no part of Good reads may change.
Twins(s, q) ==
  /\ q \in Dev
  /\ q.kind = s.kind /\ q.target = s.target /\ q.wanted = s.wanted
  /\ q.available = s.available /\ q.attempt = s.attempt /\ q.reported = s.reported
  /\ q.phase = s.phase /\ q.link = s.link
  /\ q.linkTarget = s.linkTarget /\ q.posted = s.posted

\* States alike in what the invariant looks at are good together.
LEMMA TwinsAreGood ==
  ASSUME NEW s, NEW q, Good(s), Twins(s, q)
  PROVE  Good(q)
BY DEF Twins, Good, Base, Asynchronous, Shown, PhaseAllowed, PhaseReported, PhaseLinked, Dials,
       Begun, Aimed, Grounded, IsConnected

\* The user edits the target.
LEMMA ConfigureLeads ==
  ASSUME Good(dev), NEW t \in Target \cup {NoTarget}, Configure(t)
  PROVE  Leads(dev, dev')
<1> DEFINE q == [dev EXCEPT !.paused = @ /\ ~Wired]
<1>1. dev' = ConnectTo(q, t, ToldOnce)
  BY DEF Configure
<1>2. Twins(dev, q)
  BY DEF Good, Base, Dev, Twins
<1> HIDE DEF q
<1>3. Good(q) /\ q.available = dev.available
  BY <1>2, TwinsAreGood DEF Twins
<1>4. Connects(q, t, dev')
  BY <1>1, <1>3, ToldOnceTells, ConnectToOK DEF Good
<1> QED
  BY <1>3, <1>4, LeadsConnected

\* The user asks to reconnect.
LEMMA ReconnectLeads ==
  ASSUME Good(dev), Reconnect
  PROVE  Leads(dev, dev')
<1>1. dev' = ConnectTo(dev, dev.target, ToldOnce) /\ dev.target \in Target \cup {NoTarget}
  BY DEF Reconnect, Good, Base, Dev
<1>2. Connects(dev, dev.target, dev')
  BY <1>1, ToldOnceTells, ConnectToOK DEF Good
<1> QED
  BY <1>2, LeadsConnected

\* disconnectFrom(), and the part of setAvailable(FALSE) that it shares: what is
\* closed under no intent, or no availability, is reported and shown as down.
LEMMA CloseDownOK ==
  ASSUME NEW s, Base(s), ~s.attempt
  PROVE  LET r == ReportDown(CloseTransportGracefully(s, ToldOnce), ToldOnce)
         IN /\ Follows(s, r) /\ Shown(r) /\ Dials(r) /\ Aimed(r)
            /\ ~s.available => ~IsConnected(r)
<1> DEFINE x == CloseTransportGracefully(s, ToldOnce)
           r == ReportDown(x, ToldOnce)
<1>1. Gate(s) /\ Dials(s)
  BY DEF Gate, Dials, Begun
<1>2. Follows(s, x) /\ Aimed(x) /\ Dials(x) /\ (~s.available => ~IsConnected(x))
  BY <1>1, ToldOnceTells, CloseGracefullyOK
<1>3. Base(x) /\ Gate(x)
  BY <1>1, <1>2 DEF Follows
<1> HIDE DEF x
<1>4. Follows(x, r) /\ Persists(x, r) /\ Shown(r)
  BY <1>3, ToldOnceTells, ReportDownOK
<1> HIDE DEF r
<1>5. Follows(s, r) /\ Aimed(r) /\ Dials(r)
  <2>1. Follows(s, r)
    BY <1>2, <1>4, FollowsChain
  <2> QED
    BY <1>2, <1>4, <2>1 DEF Follows, Persists
<1>6. ~s.available => ~IsConnected(r)
  BY <1>2, <1>4 DEF Follows, Same, IsConnected
<1> QED
  BY <1>4, <1>5, <1>6 DEF x, r

\* The user disconnects.
LEMMA DisconnectLeads ==
  ASSUME Good(dev), Disconnect
  PROVE  Leads(dev, dev')
<1> DEFINE off == [dev EXCEPT !.wanted = FALSE, !.attempt = FALSE, !.ticking = FALSE]
<1>1. dev' = ReportDown(CloseTransportGracefully(off, ToldOnce), ToldOnce)
  BY DEF Disconnect, DisconnectFrom
<1>2. /\ off \in Dev
      /\ off.kind = dev.kind /\ off.target = dev.target /\ off.wanted = FALSE
      /\ off.available = dev.available /\ off.attempt = FALSE
      /\ off.link = dev.link /\ off.linkTarget = dev.linkTarget /\ off.posted = dev.posted
  BY DEF Good, Base, Dev
<1> HIDE DEF off
<1>3. Base(off) /\ ~off.attempt /\ Aimed(off) /\ Grounded(off) /\ Ticks(off)
  BY <1>2 DEF Good, Base, Asynchronous, Aimed, Grounded, IsConnected, Ticks
<1>4. Follows(off, dev') /\ Shown(dev') /\ Dials(dev')
  BY <1>1, <1>3, CloseDownOK
<1> QED
  BY <1>2, <1>3, <1>4, LeadsFollowed

\* suspend() and resume(). A device that becomes available starts its timer,
\* unless a link is up already.
LEMMA ChangeAvailabilityLeads ==
  ASSUME Good(dev), NEW a \in BOOLEAN, ChangeAvailability(a)
  PROVE  /\ Good(dev')
         /\ ~Asynchronous(dev) => Ticks(dev')
<1> DEFINE q == [dev EXCEPT !.available = a, !.attempt = FALSE]
           off == [q EXCEPT !.ticking = FALSE]
           on == SetPhase(q, "Connecting")
           x == AttemptReconnect(on, ToldOnce)
<1>1. dev' = IF ~a THEN ReportDown(CloseTransportGracefully(off, ToldOnce), ToldOnce)
             ELSE IF q.wanted /\ ~IsConnected(q) THEN Arm(x) ELSE q
  BY DEF ChangeAvailability, SetAvailable
<1>2. dev.available # a
  BY DEF ChangeAvailability
<1>3. /\ q \in Dev
      /\ q.kind = dev.kind /\ q.target = dev.target /\ q.wanted = dev.wanted
      /\ q.available = a /\ q.attempt = FALSE /\ q.reported = dev.reported
      /\ q.phase = dev.phase /\ q.auto = dev.auto /\ q.link = dev.link
      /\ q.linkTarget = dev.linkTarget /\ q.posted = dev.posted
  BY DEF Good, Base, Dev
<1> HIDE DEF q
<1>4. CASE a = FALSE
  <2>1. dev' = ReportDown(CloseTransportGracefully(off, ToldOnce), ToldOnce)
    BY <1>1, <1>4
  <2>2. /\ off \in Dev
        /\ off.kind = dev.kind /\ off.target = dev.target /\ off.wanted = dev.wanted
        /\ off.available = FALSE /\ off.attempt = FALSE
        /\ off.link = dev.link /\ off.linkTarget = dev.linkTarget /\ off.posted = dev.posted
    BY <1>3, <1>4 DEF Dev
  <2> HIDE DEF off
  <2>3. Base(off) /\ ~off.attempt /\ ~off.available /\ Ticks(off)
    BY <2>2 DEF Good, Base, Asynchronous, Ticks
  <2>4. Follows(off, dev') /\ Shown(dev') /\ Dials(dev') /\ Aimed(dev') /\ ~IsConnected(dev')
    BY <2>1, <2>3, CloseDownOK
  <2>5. Base(dev') /\ Grounded(dev') /\ Ticks(dev')
    BY <2>3, <2>4 DEF Follows, Grounded
  <2> QED
    BY <2>4, <2>5 DEF Good
<1>5. CASE a = TRUE /\ q.wanted /\ ~IsConnected(q)
  <2>1. dev' = Arm(x)
    BY <1>1, <1>5
  <2>2. /\ on \in Dev
        /\ on.kind = dev.kind /\ on.target = dev.target /\ on.wanted = TRUE
        /\ on.available = TRUE /\ on.attempt = FALSE /\ on.reported = dev.reported
        /\ on.phase = "Connecting" /\ on.link = dev.link
        /\ on.linkTarget = dev.linkTarget /\ on.posted = dev.posted
    BY <1>3, <1>5 DEF Dev, SetPhase, ConnectionPhase
  <2> HIDE DEF on
  <2>3. Base(on) /\ Shown(on) /\ Dials(on) /\ Aimed(on) /\ Grounded(on)
    BY <1>3, <1>5, <2>2 DEF Good, Base, Asynchronous, Shown, PhaseAllowed, PhaseReported, PhaseLinked,
                      Talking, Dials, Begun, Aimed, Grounded, IsConnected
  <2>4. Follows(on, x) /\ Dials(x) /\ Shown(x)
    BY <2>3, ToldOnceTells, AttemptReconnectOK
  <2>5. Base(x)
    BY <2>4 DEF Follows
  <2> HIDE DEF x
  <2>6. Follows(x, dev') /\ Persists(x, dev') /\ Shown(dev') /\ Ticks(dev')
    BY <2>1, <2>4, <2>5, ArmOK
  <2>7. Base(dev') /\ Aimed(dev') /\ dev'.available = TRUE /\ Dials(dev')
    BY <2>2, <2>3, <2>4, <2>6 DEF Follows, Same, Persists
  <2>8. Grounded(dev')
    BY <2>7 DEF Grounded
  <2> QED
    BY <2>6, <2>7, <2>8 DEF Good
<1>6. CASE a = TRUE /\ ~(q.wanted /\ ~IsConnected(q))
  <2>1. dev' = q
    BY <1>1, <1>6
  <2>2. dev.available = FALSE
    BY <1>2, <1>6 DEF Good, Base, Dev
  <2>3. q.available = TRUE
    BY <1>3, <1>6
  <2>4. dev.phase = "Disconnected"
    BY <2>2 DEF Good, Shown, PhaseAllowed
  <2>5. Base(q) /\ Shown(q) /\ Dials(q) /\ Aimed(q) /\ Grounded(q)
    BY <1>3, <2>3, <2>4 DEF Good, Base, Asynchronous, Shown, PhaseAllowed, PhaseReported,
         PhaseLinked, Talking, Dials, Begun, Aimed, Grounded, IsConnected
  <2>6. ~Asynchronous(dev) => Ticks(q)
    BY <1>3, <1>6, <2>2 DEF Good, Grounded, Ticks, Asynchronous, IsConnected
  <2> QED
    BY <2>1, <2>5, <2>6 DEF Good
<1> QED
  BY <1>4, <1>5, <1>6

\* The preference for reconnecting changes.
LEMMA SetAutoReconnectLeads ==
  ASSUME Good(dev), NEW on \in BOOLEAN, SetAutoReconnect(on)
  PROVE  Leads(dev, dev')
<1> DEFINE tick == on /\ (dev.ticking \/ dev.wanted)
<1>1. dev' = [dev EXCEPT !.auto = on, !.ticking = tick]
  BY DEF SetAutoReconnect
<1>2. Twins(dev, dev') /\ Ticks(dev')
  <2>1. dev \in Dev /\ tick \in BOOLEAN /\ (dev.wanted /\ on => tick)
    BY DEF Good, Base, Dev
  <2> HIDE DEF tick
  <2>2. Twins(dev, dev') /\ dev'.auto = on /\ dev'.ticking = tick
    BY <1>1, <2>1 DEF Dev, Twins
  <2> QED
    BY <2>1, <2>2 DEF Twins, Ticks
<1> QED
  BY <1>2, TwinsAreGood DEF Leads, Twins

\* The configuration dialog opens or closes.
LEMMA DialogLeads ==
  ASSUME Good(dev), OpenDialog \/ CloseDialog
  PROVE  Leads(dev, dev')
<1>1. PICK p \in BOOLEAN : dev' = [dev EXCEPT !.paused = p]
  BY DEF OpenDialog, CloseDialog
<1>2. Twins(dev, dev') /\ (Ticks(dev) => Ticks(dev'))
  BY <1>1 DEF Good, Base, Dev, Twins, Ticks
<1> QED
  BY <1>2, TwinsAreGood DEF Leads, Twins

\* The retry timer fires.
LEMMA RetryTickLeads ==
  ASSUME Good(dev), RetryTick
  PROVE  Leads(dev, dev')
<1>1. dev' = AttemptReconnect(dev, ToldOnce)
  BY DEF RetryTick
<1>2. Follows(dev, dev') /\ Dials(dev') /\ Shown(dev')
  BY <1>1, ToldOnceTells, AttemptReconnectOK DEF Good
<1> QED
  BY <1>2, LeadsFollowed DEF Good

\* A link that is lost before anybody could say so: the phase is not backed
\* until the transport has reported it.
Lost(s) ==
  /\ Base(s) /\ PhaseAllowed(s) /\ PhaseReported(s) /\ Short(s) /\ Aimed(s) /\ Grounded(s)

\* A link that is gone is heard of by an error.
LEMMA LostByError ==
  ASSUME NEW s, NEW q, NEW r, Lost(q), q.available = s.available, Ticks(s) => Ticks(q),
         r = TransportError(q, ToldOnce)
  PROVE  Leads(s, r)
<1>1. Base(q)
  BY DEF Lost
<1>2. Follows(q, r) /\ Shown(r) /\ Dials(r)
  BY <1>1, ToldOnceTells, TransportErrorOK DEF Lost
<1> QED
  BY <1>2, LeadsFollowed DEF Lost

\* A link that is gone is heard of by its closing.
LEMMA LostByClose ==
  ASSUME NEW s, NEW q, NEW r, Lost(q), q.available = s.available, Ticks(s) => Ticks(q),
         r = TransportDown(q, ToldOnce)
  PROVE  Leads(s, r)
<1>1. Base(q)
  BY DEF Lost
<1>2. Follows(q, r) /\ Shown(r) /\ Dials(r)
  BY <1>1, ToldOnceTells, TransportDownOK DEF Lost
<1> QED
  BY <1>2, LeadsFollowed DEF Lost

\* The link of a connection is closed, or comes up, by itself.
LEMMA LinkClosed ==
  ASSUME NEW s, Good(s)
  PROVE  LET q == [s EXCEPT !.link = "closed"]
         IN Lost(q) /\ q.available = s.available /\ (Ticks(s) => Ticks(q)) /\ q.kind = s.kind
<1> DEFINE q == [s EXCEPT !.link = "closed"]
<1>1. /\ q \in Dev
      /\ q.kind = s.kind /\ q.target = s.target /\ q.wanted = s.wanted
      /\ q.available = s.available /\ q.attempt = s.attempt /\ q.reported = s.reported
      /\ q.phase = s.phase /\ q.auto = s.auto /\ q.link = "closed"
      /\ q.linkTarget = s.linkTarget /\ q.posted = s.posted /\ q.ticking = s.ticking
  BY DEF Good, Base, Dev, LinkState
<1> HIDE DEF q
<1>2. Lost(q) /\ (Ticks(s) => Ticks(q))
  BY <1>1 DEF Good, Lost, Base, Asynchronous, Shown, PhaseAllowed, PhaseReported, Short, Dials,
              Begun, Aimed, Grounded, IsConnected, Ticks
<1> QED
  BY <1>1, <1>2 DEF q

\* A host lookup ends.
LEMMA ResolveLeads ==
  ASSUME Good(dev), Resolve
  PROVE  Leads(dev, dev')
<1>1. CASE port = "opens"
  <2>1. dev' = [dev EXCEPT !.link = "dialing"] /\ dev.link = "looking"
    BY <1>1 DEF Resolve
  <2>2. /\ dev' \in Dev
        /\ dev'.kind = dev.kind /\ dev'.target = dev.target /\ dev'.wanted = dev.wanted
        /\ dev'.available = dev.available /\ dev'.attempt = dev.attempt
        /\ dev'.reported = dev.reported
        /\ dev'.phase = dev.phase /\ dev'.auto = dev.auto /\ dev'.link = "dialing"
        /\ dev'.linkTarget = dev.linkTarget /\ dev'.posted = dev.posted
        /\ dev'.ticking = dev.ticking
    BY <2>1 DEF Good, Base, Dev, LinkState
  <2>3. Base(dev') /\ Shown(dev') /\ Dials(dev') /\ Aimed(dev') /\ Grounded(dev')
        /\ (Ticks(dev) => Ticks(dev'))
    BY <2>1, <2>2 DEF Good, Base, Asynchronous, Shown, PhaseAllowed, PhaseReported, PhaseLinked,
                      Dials, Begun, Aimed, Grounded, IsConnected, Ticks
  <2> QED
    BY <2>2, <2>3 DEF Leads, Good
<1>2. CASE port # "opens"
  <2>1. dev' = TransportError([dev EXCEPT !.link = "closed"], ToldOnce)
    BY <1>2 DEF Resolve
  <2> QED
    BY <2>1, LinkClosed, LostByError
<1> QED
  BY <1>1, <1>2

\* A dial ends, one way or the other.
LEMMA DialEndsLeads ==
  ASSUME Good(dev), DialEnds
  PROVE  Leads(dev, dev')
<1>1. CASE port = "opens"
  <2> DEFINE q == [dev EXCEPT !.link = "open"]
  <2>1. dev' = TransportUp(q) /\ dev.link = "dialing"
    BY <1>1 DEF DialEnds
  <2>2. /\ q \in Dev
        /\ q.kind = dev.kind /\ q.target = dev.target /\ q.wanted = dev.wanted
        /\ q.available = dev.available /\ q.attempt = dev.attempt /\ q.reported = dev.reported
        /\ q.phase = dev.phase /\ q.auto = dev.auto /\ q.link = "open"
        /\ q.linkTarget = dev.linkTarget /\ q.posted = dev.posted /\ q.ticking = dev.ticking
    BY DEF Good, Base, Dev, LinkState
  <2> HIDE DEF q
  <2>3. /\ Base(q) /\ IsConnected(q) /\ Shown(q) /\ Begun(q) /\ Aimed(q) /\ Grounded(q)
        /\ (Ticks(dev) => Ticks(q))
    BY <2>1, <2>2 DEF Good, Base, Asynchronous, Shown, PhaseAllowed, PhaseReported, PhaseLinked,
                      Dials, Begun, Aimed, Grounded, IsConnected, Ticks
  <2>4. Follows(q, dev') /\ Shown(dev') /\ Dials(dev')
    BY <2>1, <2>3, TransportUpOK
  <2> QED
    BY <2>2, <2>3, <2>4, LeadsFollowed
<1>2. CASE port # "opens"
  <2>1. dev' = TransportError([dev EXCEPT !.link = "closed"], ToldOnce)
    BY <1>2 DEF DialEnds
  <2> QED
    BY <2>1, LinkClosed, LostByError
<1> QED
  BY <1>1, <1>2

\* A serial port that closes by itself raises an error as well.
LEMMA DropLeads ==
  ASSUME Good(dev), Drop
  PROVE  Leads(dev, dev')
<1> DEFINE q == [dev EXCEPT !.link = "closed"]
           d == TransportDown(q, ToldOnce)
<1>1. dev' = IF dev.kind = "Serial" THEN TransportError(d, ToldOnce) ELSE d
  BY DEF Drop
<1>2. Lost(q) /\ q.available = dev.available /\ (Ticks(dev) => Ticks(q))
  BY LinkClosed
<1> HIDE DEF q
<1>3. Leads(dev, d)
  BY <1>2, LostByClose
<1> HIDE DEF d
<1>4. CASE dev' = d
  BY <1>3, <1>4
<1>5. CASE dev' = TransportError(d, ToldOnce)
  <2>1. Lost(d) /\ d.available = dev.available /\ (Ticks(dev) => Ticks(d))
    BY <1>3 DEF Leads, Good, Lost, Shown, Dials, Short, IsConnected
  <2> QED
    BY <1>5, <2>1, LostByError
<1> QED
  BY <1>1, <1>4, <1>5

\* A BLE link that fails raises the error first.
LEMMA GattFailsLeads ==
  ASSUME Good(dev), GattFails
  PROVE  Leads(dev, dev')
<1> DEFINE q == [dev EXCEPT !.link = "closed"]
           e == TransportError(q, ToldOnce)
<1>1. dev' = TransportDown(e, ToldOnce)
  BY DEF GattFails
<1>2. Lost(q) /\ q.available = dev.available /\ (Ticks(dev) => Ticks(q))
  BY LinkClosed
<1> HIDE DEF q
<1>3. Leads(dev, e)
  BY <1>2, LostByError
<1> HIDE DEF e
<1>4. Lost(e) /\ e.available = dev.available /\ (Ticks(dev) => Ticks(e))
  BY <1>3 DEF Leads, Good, Lost, Shown, Dials, Short, IsConnected
<1> QED
  BY <1>1, <1>4, LostByClose

\* The USB reader says what happened later.
LEMMA ReaderLeads ==
  ASSUME Good(dev), ReadFails \/ ReaderEnds
  PROVE  Leads(dev, dev')
<1> DEFINE news == {"error", "down"}
<1>1. PICK state \in {"dying", "exited"}, n \in news :
        /\ dev' = [dev EXCEPT !.link = state, !.posted = Append(@, n)]
        /\ state = "dying" => dev.link = "open"
        /\ state = "exited" => dev.link = "dying"
        /\ dev.kind = "UsbHid"
  BY DEF ReadFails, ReaderEnds, Good, Base
<1>2. dev.posted \in Seq(news)
  BY DEF Good, Base, Dev
<1> HIDE DEF news
<1>3. Append(dev.posted, n) \in Seq(news) /\ Append(dev.posted, n) # <<>>
  BY <1>2, AppendProperties
<1>4. /\ dev' \in Dev
      /\ dev'.kind = dev.kind /\ dev'.target = dev.target /\ dev'.wanted = dev.wanted
      /\ dev'.available = dev.available /\ dev'.attempt = dev.attempt
      /\ dev'.reported = dev.reported
      /\ dev'.phase = dev.phase /\ dev'.auto = dev.auto /\ dev'.link = state
      /\ dev'.linkTarget = dev.linkTarget /\ dev'.posted # <<>>
      /\ dev'.ticking = dev.ticking
  <2>1. \A p \in Seq(news) : [dev EXCEPT !.link = state, !.posted = p] \in Dev
    BY DEF Good, Base, Dev, LinkState, news
  <2>2. dev' = [dev EXCEPT !.link = state, !.posted = Append(dev.posted, n)]
    BY <1>1
  <2>3. dev' \in Dev
    BY <1>3, <2>1, <2>2
  <2>4. dev \in Dev
    BY DEF Good, Base
  <2> QED
    BY <1>3, <2>2, <2>3, <2>4 DEF Dev
<1>5. Base(dev') /\ Shown(dev') /\ Dials(dev') /\ Aimed(dev') /\ Grounded(dev')
      /\ (Ticks(dev) => Ticks(dev'))
  BY <1>1, <1>4 DEF Good, Base, Asynchronous, Shown, PhaseAllowed, PhaseReported, PhaseLinked,
                    Dials, Begun, Aimed, Grounded, IsConnected, Ticks
<1> QED
  BY <1>4, <1>5 DEF Leads, Good

\* The event loop delivers a posted signal.
LEMMA DeliverLeads ==
  ASSUME Good(dev), Deliver
  PROVE  Leads(dev, dev')
<1> DEFINE news == {"error", "down"}
           q == [dev EXCEPT !.posted = Tail(@)]
<1>1. /\ dev.posted # <<>>
      /\ dev' = TransportError(q, ToldOnce) \/ dev' = TransportDown(q, ToldOnce)
  BY DEF Deliver
<1>2. dev.posted \in Seq(news)
  BY DEF Good, Base, Dev
<1> HIDE DEF news
<1>3. Tail(dev.posted) \in Seq(news)
  BY <1>1, <1>2, HeadTailProperties
<1>4. /\ q \in Dev
      /\ q.kind = dev.kind /\ q.target = dev.target /\ q.wanted = dev.wanted
      /\ q.available = dev.available /\ q.attempt = dev.attempt /\ q.reported = dev.reported
      /\ q.phase = dev.phase /\ q.auto = dev.auto /\ q.link = dev.link
      /\ q.linkTarget = dev.linkTarget /\ q.ticking = dev.ticking
  <2>1. \A p \in Seq(news) : [dev EXCEPT !.posted = p] \in Dev
    BY DEF Good, Base, Dev, news
  <2>2. dev \in Dev
    BY DEF Good, Base
  <2>3. q \in Dev
    BY <1>3, <2>1
  <2> QED
    BY <2>2, <2>3 DEF Dev
<1>5. dev.kind = "UsbHid"
  BY <1>1 DEF Good, Base
<1> HIDE DEF q
<1>6. Lost(q) /\ (Ticks(dev) => Ticks(q))
  BY <1>4, <1>5 DEF Good, Lost, Base, Asynchronous, Shown, PhaseAllowed, PhaseReported, Short,
                    Begun, Aimed, Grounded, IsConnected, Ticks
<1> QED
  BY <1>1, <1>4, <1>6, LostByError, LostByClose

\* The session is established: the main window applies the target first.
LEMMA HelloAnsweredLeads ==
  ASSUME Good(dev), HelloAnswered
  PROVE  Leads(dev, dev')
<1> DEFINE q == [dev EXCEPT !.session = "up"]
           a == [q EXCEPT !.paused = FALSE]
           r == Reapply(q)
<1>1. dev' = IF r.wanted /\ r.phase = "NegotiatingBtp" THEN SetPhase(r, "Ready") ELSE r
  BY DEF HelloAnswered
<1>2. Twins(dev, q) /\ q.ticking = dev.ticking /\ q.auto = dev.auto
  BY DEF Good, Base, Dev, Twins
<1>3. Good(q)
  BY <1>2, TwinsAreGood
<1>4. r = IF Wired THEN ConnectTo(a, q.target, ToldOnce) ELSE q
  BY DEF Reapply
<1> HIDE DEF q
<1>5. Twins(q, a)
  BY <1>2 DEF Dev, Twins
<1> HIDE DEF a, r
<1>6. Leads(dev, r)
  <2>1. CASE Wired
    <3>1. Good(a) /\ q.target \in Target \cup {NoTarget}
      BY <1>2, <1>3, <1>5, TwinsAreGood DEF Twins, Dev
    <3>2. Connects(a, q.target, r)
      BY <1>4, <2>1, <3>1, ToldOnceTells, ConnectToOK DEF Good
    <3> QED
      BY <1>2, <1>5, <3>1, <3>2, LeadsConnected DEF Twins
  <2>2. CASE ~Wired
    BY <1>2, <1>3, <1>4, <2>2 DEF Leads, Twins, Ticks
  <2> QED
    BY <2>1, <2>2
<1>7. CASE ~(r.wanted /\ r.phase = "NegotiatingBtp")
  BY <1>1, <1>6, <1>7
<1>8. CASE r.wanted /\ r.phase = "NegotiatingBtp"
  <2>1. dev' = [r EXCEPT !.phase = "Ready"]
    BY <1>1, <1>8 DEF SetPhase
  <2>2. /\ dev' \in Dev
        /\ dev'.kind = r.kind /\ dev'.target = r.target /\ dev'.wanted = r.wanted
        /\ dev'.available = r.available /\ dev'.attempt = r.attempt
        /\ dev'.reported = r.reported
        /\ dev'.phase = "Ready" /\ dev'.auto = r.auto /\ dev'.link = r.link
        /\ dev'.linkTarget = r.linkTarget /\ dev'.posted = r.posted
        /\ dev'.ticking = r.ticking
    BY <1>6, <2>1 DEF Leads, Good, Base, Dev, ConnectionPhase
  <2>3. Good(r)
    BY <1>6 DEF Leads
  <2>4. Base(dev') /\ Shown(dev') /\ Dials(dev') /\ Aimed(dev') /\ Grounded(dev')
        /\ (Ticks(r) => Ticks(dev'))
    BY <1>8, <2>2, <2>3 DEF Good, Base, Asynchronous, Shown, PhaseAllowed, PhaseReported,
         PhaseLinked, Talking, Dials, Begun, Aimed, Grounded, IsConnected, Ticks
  <2> QED
    BY <1>6, <2>2, <2>4 DEF Leads, Good
<1> QED
  BY <1>7, <1>8

\* A session in trouble on a link that is up: the link is closed.
LEMMA SessionTroubleLeads ==
  ASSUME Good(dev), NEW after \in {"none", "hello", "up"}, SessionTrouble(after)
  PROVE  Leads(dev, dev')
<1> DEFINE d == [dev EXCEPT !.session = after]
<1>1. /\ IsConnected(dev)
      /\ dev' = CloseLink(d, ToldOnce) \/ dev' = d
  BY DEF SessionTrouble
<1>2. Twins(dev, d) /\ (Ticks(dev) => Ticks(d))
  BY DEF Good, Base, Dev, Twins, Ticks
<1> HIDE DEF d
<1>3. Good(d) /\ d.available = dev.available /\ IsConnected(d)
  BY <1>1, <1>2, TwinsAreGood DEF Twins, IsConnected
<1>4. CASE dev' = d
  BY <1>2, <1>3, <1>4 DEF Leads
<1>5. CASE dev' = CloseLink(d, ToldOnce)
  <2>1. Begun(d)
    BY <1>3 DEF Good, Dials
  <2>2. Follows(d, dev') /\ Dials(dev') /\ Shown(dev')
    BY <1>3, <1>5, <2>1, ToldOnceTells, CloseLinkOK DEF Good
  <2> QED
    BY <1>2, <1>3, <2>2, LeadsFollowed DEF Good
<1> QED
  BY <1>1, <1>4, <1>5

-----------------------------------------------------------------------------
\* The theorems.

\* A dial is not suspended: it would survive that, and its link find the timer
\* stopped.
DialsAreNotSuspended == "suspend" \in Uses => Kinds \cap {"Tcp", "Ble"} = {}

\* The inductive invariant: the connection is Good between two events.
IInv ==
  /\ Good(dev)
  /\ port \in PortState
  /\ editing \in BOOLEAN
  /\ spent \in [command : 0..MaxCommand, fault : 0..MaxFault]
  /\ "suspend" \notin Uses => dev.available
  /\ DialsAreNotSuspended => Ticks(dev)

\* The initial state has the inductive invariant.
LEMMA InitIInv == Init => IInv
<1> SUFFICES ASSUME Init PROVE IInv
  OBVIOUS
<1>1. PICK k \in Kinds :
       dev = [kind |-> k, target |-> NoTarget, wanted |-> FALSE, available |-> TRUE,
              paused |-> FALSE, attempt |-> FALSE, reported |-> FALSE, phase |-> "Disconnected",
              ticking |-> FALSE, auto |-> TRUE, link |-> "closed", linkTarget |-> NoTarget,
              posted |-> <<>>, session |-> "none"]
  BY DEF Init
<1>2. dev \in Dev
  <2>1. <<>> \in Seq({"error", "down"})
    BY EmptySeq
  <2> QED
    BY <1>1, <2>1 DEF Dev, ConnectionPhase, LinkState
<1>3. Good(dev) /\ Ticks(dev) /\ dev.available
  BY <1>1, <1>2 DEF Good, Base, Asynchronous, Shown, PhaseAllowed, PhaseReported, PhaseLinked,
                    Talking, Dials, Begun, Aimed, Grounded, IsConnected, Ticks
<1>4. spent \in [command : 0..MaxCommand, fault : 0..MaxFault]
  BY BoundAssumption DEF Init
<1> QED
  BY <1>3, <1>4 DEF Init, IInv

\* The world and the bounds keep their types whatever the event.
LEMMA WorldKeepsType ==
  ASSUME IInv, Next
  PROVE  /\ port' \in PortState
         /\ editing' \in BOOLEAN
         /\ spent' \in [command : 0..MaxCommand, fault : 0..MaxFault]
<1>1. Command => spent' \in [command : 0..MaxCommand, fault : 0..MaxFault] /\ port' = port
  BY BoundAssumption DEF IInv, Command
<1>2. Fault => spent' \in [command : 0..MaxCommand, fault : 0..MaxFault]
  BY BoundAssumption DEF IInv, Fault
<1>3. /\ port \in PortState /\ editing \in BOOLEAN
      /\ spent \in [command : 0..MaxCommand, fault : 0..MaxFault]
  BY DEF IInv
<1>4. \/ Command /\ (editing' = editing \/ editing' = FALSE \/ editing' = TRUE)
      \/ Fault /\ UNCHANGED <<port, editing>>
      \/ Quiet
      \/ editing' = FALSE /\ UNCHANGED <<port, spent>>
      \/ (spent' = spent \/ Fault) /\ port' \in PortState /\ editing' = editing
  BY DEF Next, Configure, Disconnect, Reconnect, ChangeAvailability, SetAutoReconnect, OpenDialog,
         CloseDialog, RetryTick, PortChanges, Resolve, DialEnds, Drop, GattFails, ReadFails,
         ReaderEnds, Deliver, HelloAnswered, SessionTrouble
<1> QED
  BY <1>1, <1>2, <1>3, <1>4 DEF Quiet

\* Every step preserves it: one case per action.
LEMMA NextIInv == IInv /\ [Next]_vars => IInv'
<1> SUFFICES ASSUME IInv, [Next]_vars PROVE IInv'
  OBVIOUS
<1>1. Good(dev)
  BY DEF IInv
<1>2. CASE UNCHANGED vars
  <2>1. UNCHANGED <<dev, port, editing, spent>>
    BY <1>2 DEF vars
  <2> QED
    BY <2>1 DEF IInv
<1>3. CASE Next
  <2>1. CASE Leads(dev, dev')
    BY <1>3, <2>1, WorldKeepsType DEF Leads, IInv
  <2>2. CASE \E a \in BOOLEAN : ChangeAvailability(a)
    <3>1. Good(dev') /\ (~Asynchronous(dev) => Ticks(dev')) /\ "suspend" \in Uses
      BY <1>1, <2>2, ChangeAvailabilityLeads DEF ChangeAvailability
    <3>2. DialsAreNotSuspended => ~Asynchronous(dev)
      BY <1>1, <3>1 DEF DialsAreNotSuspended, Asynchronous, Good, Base, Dev
    <3> QED
      BY <1>3, <3>1, <3>2, WorldKeepsType DEF IInv
  <2>3. CASE \E p \in PortState : PortChanges(p)
    <3>1. dev' = dev
      BY <2>3 DEF PortChanges
    <3> QED
      BY <1>3, <3>1, WorldKeepsType DEF IInv
  <2>4. ASSUME \/ \E t \in Target \cup {NoTarget} : Configure(t)
               \/ Disconnect \/ Reconnect
               \/ \E on \in BOOLEAN : SetAutoReconnect(on)
               \/ OpenDialog \/ CloseDialog
               \/ RetryTick
        PROVE  Leads(dev, dev')
    BY <1>1, <2>4, ConfigureLeads, DisconnectLeads, ReconnectLeads, SetAutoReconnectLeads,
       DialogLeads, RetryTickLeads
  <2>5. ASSUME \/ Resolve \/ DialEnds \/ Drop \/ GattFails
               \/ ReadFails \/ ReaderEnds \/ Deliver
               \/ HelloAnswered
               \/ \E after \in {"none", "hello", "up"} : SessionTrouble(after)
        PROVE  Leads(dev, dev')
    BY <1>1, <2>5, ResolveLeads, DialEndsLeads, DropLeads, GattFailsLeads, ReaderLeads,
       DeliverLeads, HelloAnsweredLeads, SessionTroubleLeads
  <2> QED
    BY <1>3, <2>1, <2>2, <2>3, <2>4, <2>5 DEF Next
<1> QED
  BY <1>2, <1>3

\* Between two events the connection is Good.
THEOREM Invariant == Spec => []IInv
<1> QED
  BY InitIInv, NextIInv, PTL DEF Spec

\* Every field keeps its type, and the transport is never opened towards a
\* target that is not configured.
THEOREM TypeCorrect == Spec => []TypeOK
<1>1. IInv => TypeOK
  BY DEF IInv, Good, Base, TypeOK
<1> QED
  BY <1>1, Invariant, PTL

\* What is shown as Ready is wanted, available, reported and linked, for every
\* transport, whatever a listener does inside a report and however late the
\* reader thread speaks.
THEOREM ReadyMeansTalkingHolds == Spec => []ReadyMeansTalking
<1>1. IInv => ReadyMeansTalking
  BY DEF IInv, Good, Shown, PhaseReported, PhaseLinked, Talking, ReadyMeansTalking
<1> QED
  BY <1>1, Invariant, PTL

\* No path leaves a connection that is to be online without its timer, as long
\* as no dial is suspended.
THEOREM TicksWhileOnlineHolds ==
  ASSUME DialsAreNotSuspended
  PROVE  Spec => []TicksWhileOnline
<1>1. IInv => TicksWhileOnline
  BY DEF IInv, Ticks, TicksWhileOnline, Online
<1> QED
  BY <1>1, Invariant, PTL

\* A transport that opens at once is linked to the target in use.
THEOREM LinkIsToTargetHolds ==
  ASSUME Kinds \cap {"Tcp", "Ble"} = {}
  PROVE  Spec => []LinkIsToTarget
<1>1. IInv => LinkIsToTarget
  BY DEF IInv, Good, Base, Dev, Aimed, Asynchronous, LinkIsToTarget
<1> QED
  BY <1>1, Invariant, PTL

\* Every transport but USB HID, which may fail to open without a word, gives an
\* attempt an outcome, also in the instances that suspend and disconnect.
THEOREM AttemptHasOutcomeHolds ==
  ASSUME "UsbHid" \notin Kinds
  PROVE  Spec => []AttemptHasOutcome
<1>1. IInv => AttemptHasOutcome
  BY DEF IInv, Good, Base, Dev, Dials, AttemptHasOutcome
<1> QED
  BY <1>1, Invariant, PTL

-----------------------------------------------------------------------------
\* A session that is established and shown.  What follows is about connections
\* that are neither switched off nor suspended, and about serial targets that
\* open() does not complain of: deviations are known of the others.

NothingWarns == "Serial" \in Kinds => Warned = {}

Dialing(s) == s.link \in {"looking", "dialing"}

Plain(s) ==
  /\ s \in Dev
  /\ s.available
  /\ s.wanted <=> s.target # NoTarget
  /\ Dialing(s) => Asynchronous(s)
  /\ s.link \in {"dying", "exited"} => s.kind = "UsbHid"

\* A dial in use has its phase, and a link in use that carries a session is
\* reported and shown; what is established is shown as Ready.
ShownAsItIs(s) ==
  s.reported /\ s.phase \in Talking /\ (s.session = "up" => s.phase = "Ready")

Calm(s) ==
  /\ s.reported => s.wanted /\ ~Dialing(s)
  /\ s.wanted /\ Dialing(s) => s.phase = "PreparingTransport"
  /\ s.wanted /\ IsConnected(s) /\ s.session # "none" => ShownAsItIs(s)

Stays(s, r) ==
  /\ Plain(r)
  /\ r.kind = s.kind /\ r.target = s.target
  /\ ~s.paused => ~r.paused

\* Nothing is dialed but in an attempt.
Marked(r) == r.wanted /\ Dialing(r) => r.attempt

\* A transport that dials has no link at once.
Waits(s, r) ==
  Asynchronous(s) /\ ~IsConnected(s) => ~IsConnected(r) /\ (~s.reported => ~r.reported)

\* A serial port that can be opened is opened, or left to its attempt.
Opens(s, r) ==
  s.kind = "Serial" /\ port = "opens" /\ s.wanted /\ s.phase = "PreparingTransport" =>
    \/ r.phase = s.phase
    \/ r.reported /\ r.phase \in Talking

\* What is asked of a listener that is told of a link which is gone.
Calms(Told) ==
  \A s \in Dev :
    Plain(s) /\ Calm(s) /\ ~s.reported /\ ~Dialing(s) =>
      LET r == Told[s]
      IN Stays(s, r) /\ Calm(r) /\ Marked(r) /\ Waits(s, r) /\ Opens(s, r)

\* Kinds and links, once more.
LEMMA PlainLinks ==
  ASSUME NEW s, Plain(s)
  PROVE  /\ s.kind \in {"Serial", "UsbHid", "Tcp", "Ble"}
         /\ s.link \in LinkState
         /\ IsConnected(s) <=> s.link \in {"open", "dying"}
         /\ Asynchronous(s) <=> s.kind \in {"Tcp", "Ble"}
         /\ IsConnected(s) => ~Dialing(s)
BY KindAssumption DEF Plain, Dev, LinkState, IsConnected, Asynchronous, Dialing

\* A report of a link that carries no established session.
LEMMA ReportUpCalm ==
  ASSUME NEW s, Plain(s), s.wanted, IsConnected(s), s.session # "up"
  PROVE  LET r == ReportUp(s)
         IN /\ Stays(s, r) /\ Calm(r)
            /\ r.reported /\ r.phase \in Talking /\ r.link = s.link
<1> DEFINE told == IF s.reported \/ ~Wired THEN [s EXCEPT !.reported = TRUE]
                   ELSE [s EXCEPT !.reported = TRUE, !.paused = FALSE, !.ticking = @ \/ s.auto]
           r == ReportUp(s)
<1>1. s \in Dev
  BY DEF Plain
<1>2. /\ told \in Dev
      /\ told.kind = s.kind /\ told.target = s.target /\ told.wanted = s.wanted
      /\ told.available = s.available /\ told.reported = TRUE
      /\ told.phase = s.phase /\ told.link = s.link /\ told.session = s.session
      /\ ~s.paused => ~told.paused
  BY <1>1 DEF Dev
<1>3. r = IF told.phase \in {"NegotiatingBtp", "Ready"} THEN told ELSE SetPhase(told, "NegotiatingBtp")
  BY DEF ReportUp
<1> HIDE DEF told, r
<1>4. /\ r \in Dev
      /\ r.kind = s.kind /\ r.target = s.target /\ r.wanted = s.wanted
      /\ r.available = s.available /\ r.reported = TRUE
      /\ r.phase \in Talking /\ r.link = s.link /\ r.session = s.session
      /\ ~s.paused => ~r.paused
  BY <1>2, <1>3 DEF Dev, SetPhase, Talking, ConnectionPhase
<1>5. Stays(s, r) /\ Calm(r)
  BY <1>4, PlainLinks DEF Plain, Stays, Calm, ShownAsItIs, Asynchronous, IsConnected, Dialing
<1> QED
  BY <1>4, <1>5 DEF r

\* A report that a link is gone, of a connection that has no other.
LEMMA ReportDownCalm ==
  ASSUME NEW s, NEW Told, Plain(s), Calms(Told),
         Dialing(s) => ~s.reported /\ ~s.wanted,
         s.wanted /\ IsConnected(s) => s.session = "none"
  PROVE  LET r == ReportDown(s, Told)
         IN /\ Stays(s, r) /\ Calm(r) /\ Marked(r)
            /\ Asynchronous(s) /\ ~IsConnected(s) => ~IsConnected(r) /\ ~r.reported
<1> DEFINE quiet == [s EXCEPT !.reported = FALSE]
           told == IF s.reported THEN Told[quiet] ELSE s
           r == ReportDown(s, Told)
<1>1. /\ quiet \in Dev
      /\ quiet.kind = s.kind /\ quiet.target = s.target /\ quiet.wanted = s.wanted
      /\ quiet.available = s.available /\ quiet.reported = FALSE /\ quiet.paused = s.paused
      /\ quiet.phase = s.phase /\ quiet.link = s.link /\ quiet.session = s.session
  BY DEF Plain, Dev
<1>2. r = IF told.reported \/ (told.attempt /\ told.phase = "PreparingTransport") THEN told
          ELSE SetPhase(told, "Disconnected")
  BY DEF ReportDown
<1> HIDE DEF quiet
<1>3. /\ Stays(s, told)
      /\ told.reported => Calm(told)
      /\ Marked(told)
      /\ told.wanted /\ Dialing(told) => told.phase = "PreparingTransport" /\ ~told.reported
      /\ told.wanted /\ IsConnected(told) /\ ~told.reported => told.session = "none"
      /\ Asynchronous(s) /\ ~IsConnected(s) => ~IsConnected(told) /\ ~told.reported
  <2>1. CASE s.reported
    <3>1. told = Told[quiet]
      BY <2>1
    <3> HIDE DEF told
    <3>2. Plain(quiet) /\ Calm(quiet) /\ ~Dialing(quiet)
      BY <1>1, <2>1 DEF Plain, Calm, Asynchronous, IsConnected, Dialing
    <3>3. Stays(quiet, told) /\ Calm(told) /\ Marked(told) /\ Waits(quiet, told)
      BY <1>1, <3>1, <3>2 DEF Calms
    <3>4. Stays(s, told)
      BY <1>1, <3>3 DEF Stays
    <3>5. Asynchronous(s) /\ ~IsConnected(s) => ~IsConnected(told) /\ ~told.reported
      BY <1>1, <3>3 DEF Waits, Asynchronous, IsConnected
    <3> QED
      BY <3>3, <3>4, <3>5 DEF Calm, ShownAsItIs
  <2>2. CASE ~s.reported
    <3>1. told = s
      BY <2>2
    <3> QED
      BY <2>2, <3>1 DEF Stays, Marked
  <2> QED
    BY <2>1, <2>2
<1> HIDE DEF told, r
<1>4. CASE r = told
  <2>1. Calm(told)
    BY <1>2, <1>3, <1>4 DEF Calm
  <2> QED
    BY <1>3, <1>4, <2>1 DEF r
<1>5. CASE /\ r = SetPhase(told, "Disconnected") /\ ~told.reported
           /\ ~(told.attempt /\ told.phase = "PreparingTransport")
  <2>1. /\ r \in Dev
        /\ r.kind = told.kind /\ r.target = told.target /\ r.wanted = told.wanted
        /\ r.available = told.available /\ r.reported = told.reported /\ r.paused = told.paused
        /\ r.attempt = told.attempt /\ r.link = told.link /\ r.session = told.session
    BY <1>3, <1>5 DEF Stays, Plain, Dev, SetPhase, ConnectionPhase
  <2>2. ~(told.wanted /\ Dialing(told))
    BY <1>3, <1>5 DEF Marked
  <2>3. Stays(s, r)
    BY <1>3, <2>1 DEF Stays, Plain, Asynchronous, Dialing
  <2>4. Calm(r) /\ Marked(r)
    BY <1>3, <1>5, <2>1, <2>2 DEF Calm, Marked, IsConnected, Dialing
  <2> QED
    BY <1>3, <2>1, <2>3, <2>4 DEF IsConnected, r
<1> QED
  BY <1>2, <1>4, <1>5

\* A link that comes up in its phase, or under one that was reported already.
LEMMA TransportUpCalm ==
  ASSUME NEW s, Plain(s), IsConnected(s), s.reported => s.wanted,
         s.wanted => s.phase = "PreparingTransport" \/ (s.reported /\ s.phase \in Talking)
  PROVE  LET r == TransportUp(s)
         IN /\ Stays(s, r) /\ Calm(r) /\ r.link = s.link
            /\ s.wanted => r.reported /\ r.phase \in Talking
<1> DEFINE b == [s EXCEPT !.session = "hello"]
           c == [b EXCEPT !.attempt = FALSE]
           r == TransportUp(s)
<1>1. /\ b \in Dev
      /\ b.kind = s.kind /\ b.target = s.target /\ b.wanted = s.wanted
      /\ b.available = s.available /\ b.reported = s.reported /\ b.paused = s.paused
      /\ b.phase = s.phase /\ b.link = s.link /\ b.session = "hello"
  BY DEF Plain, Dev
<1>2. r = IF b.wanted /\ b.phase = "PreparingTransport" THEN ReportUp(c) ELSE b
  BY DEF TransportUp
<1> HIDE DEF b
<1>3. /\ c \in Dev
      /\ c.kind = s.kind /\ c.target = s.target /\ c.wanted = s.wanted
      /\ c.available = s.available /\ c.reported = s.reported /\ c.paused = s.paused
      /\ c.phase = s.phase /\ c.link = s.link /\ c.session = "hello"
  BY <1>1 DEF Dev
<1> HIDE DEF c, r
<1>4. Stays(s, b) /\ Stays(s, c)
  BY <1>1, <1>3 DEF Stays, Plain, Asynchronous, Dialing
<1>5. CASE b.wanted /\ b.phase = "PreparingTransport"
  <2>1. Plain(c) /\ IsConnected(c) /\ c.wanted /\ c.session # "up"
    BY <1>1, <1>3, <1>4, <1>5 DEF Stays, IsConnected
  <2>2. /\ Stays(c, r) /\ Calm(r) /\ r.link = c.link
        /\ r.reported /\ r.phase \in Talking
    BY <1>2, <1>5, <2>1, ReportUpCalm
  <2> QED
    BY <1>3, <1>4, <2>2 DEF Stays, r
<1>6. CASE ~(b.wanted /\ b.phase = "PreparingTransport")
  <2>1. r = b
    BY <1>2, <1>6
  <2>2. Calm(b)
    BY <1>1, <1>6, PlainLinks DEF Calm, ShownAsItIs, IsConnected, Dialing
  <2> QED
    BY <1>1, <1>4, <1>6, <2>1, <2>2 DEF r
<1> QED
  BY <1>5, <1>6

\* A link that goes down, maybe under the next dial.
LEMMA TransportDownCalm ==
  ASSUME NEW s, NEW Told, Plain(s), Calms(Told),
         Dialing(s) => ~s.reported /\ (s.wanted => s.phase = "PreparingTransport")
  PROVE  LET r == TransportDown(s, Told)
         IN Stays(s, r) /\ Calm(r) /\ Waits(s, r) /\ Opens(s, r)
<1> DEFINE b == [s EXCEPT !.session = "none", !.attempt = FALSE]
           c == [b EXCEPT !.reported = FALSE]
           r == TransportDown(s, Told)
<1>1. /\ b \in Dev
      /\ b.kind = s.kind /\ b.target = s.target /\ b.wanted = s.wanted
      /\ b.available = s.available /\ b.reported = s.reported /\ b.paused = s.paused
      /\ b.phase = s.phase /\ b.link = s.link /\ b.session = "none"
  BY DEF Plain, Dev
<1>2. r = IF b.wanted /\ b.phase \in {"Connecting", "PreparingTransport"}
          THEN IF b.reported THEN Told[c] ELSE b
          ELSE ReportDown(b, Told)
  BY DEF TransportDown
<1> HIDE DEF b
<1>3. /\ c \in Dev
      /\ c.kind = s.kind /\ c.target = s.target /\ c.wanted = s.wanted
      /\ c.available = s.available /\ c.reported = FALSE /\ c.paused = s.paused
      /\ c.phase = s.phase /\ c.link = s.link /\ c.session = "none"
  BY <1>1 DEF Dev
<1> HIDE DEF c, r
<1>4. Stays(s, b) /\ Stays(s, c)
  BY <1>1, <1>3 DEF Stays, Plain, Asynchronous, Dialing
<1>5. CASE ~(b.wanted /\ b.phase \in {"Connecting", "PreparingTransport"})
  <2>1. Plain(b) /\ (Dialing(b) => ~b.reported /\ ~b.wanted)
    BY <1>1, <1>4, <1>5 DEF Stays, Dialing
  <2>2. /\ Stays(b, r) /\ Calm(r)
        /\ Asynchronous(b) /\ ~IsConnected(b) => ~IsConnected(r) /\ ~r.reported
    BY <1>1, <1>2, <1>5, <2>1, ReportDownCalm
  <2>3. Waits(s, r) /\ Opens(s, r)
    BY <1>1, <1>5, <2>2 DEF Waits, Opens, Asynchronous, IsConnected
  <2> QED
    BY <1>1, <2>2, <2>3 DEF Stays, r
<1>6. CASE b.wanted /\ b.phase \in {"Connecting", "PreparingTransport"} /\ ~b.reported
  <2>1. r = b
    BY <1>2, <1>6
  <2>2. Calm(b)
    BY <1>1, <1>6 DEF Calm, Dialing
  <2>3. Waits(s, b) /\ Opens(s, b)
    BY <1>1 DEF Waits, Opens, IsConnected
  <2> QED
    BY <1>4, <2>1, <2>2, <2>3 DEF r
<1>7. CASE b.wanted /\ b.phase \in {"Connecting", "PreparingTransport"} /\ b.reported
  <2>1. r = Told[c]
    BY <1>2, <1>7
  <2>2. Plain(c) /\ Calm(c) /\ ~Dialing(c)
    BY <1>1, <1>3, <1>4, <1>7 DEF Stays, Calm, Dialing
  <2>3. Stays(c, r) /\ Calm(r) /\ Waits(c, r) /\ Opens(c, r)
    BY <1>3, <2>1, <2>2 DEF Calms
  <2>4. Waits(s, r) /\ Opens(s, r)
    BY <1>3, <2>3 DEF Waits, Opens, Asynchronous, IsConnected
  <2> QED
    BY <1>3, <2>3, <2>4 DEF Stays, r
<1> QED
  BY <1>5, <1>6, <1>7

\* An error on a connection that is calm and dials nothing.
LEMMA TransportErrorCalm ==
  ASSUME NEW s, NEW Told, Plain(s), Calms(Told), Calm(s), ~Dialing(s)
  PROVE  Stays(s, TransportError(s, Told)) /\ Calm(TransportError(s, Told))
<1> DEFINE b == [s EXCEPT !.attempt = FALSE]
           r == TransportError(s, Told)
<1>1. /\ b \in Dev
      /\ b.kind = s.kind /\ b.target = s.target /\ b.wanted = s.wanted
      /\ b.available = s.available /\ b.reported = s.reported /\ b.paused = s.paused
      /\ b.phase = s.phase /\ b.link = s.link /\ b.session = s.session
  BY DEF Plain, Dev
<1>2. r = s \/ (~IsConnected(s) /\ r = ReportDown(b, Told))
  BY DEF TransportError
<1> HIDE DEF b, r
<1>3. CASE r = s
  BY <1>3 DEF Stays, r
<1>4. CASE ~IsConnected(s) /\ r = ReportDown(b, Told)
  <2>1. Plain(b) /\ ~Dialing(b) /\ ~IsConnected(b)
    BY <1>1, <1>4 DEF Plain, Asynchronous, IsConnected, Dialing
  <2>2. Stays(b, r) /\ Calm(r)
    BY <1>4, <2>1, ReportDownCalm
  <2> QED
    BY <1>1, <2>2 DEF Stays, r
<1> QED
  BY <1>2, <1>3, <1>4

\* A link that is closed, of a target that may just have been given up.
LEMMA CloseLinkCalm ==
  ASSUME NEW s, NEW Told, Plain(s), Calms(Told)
  PROVE  LET r == CloseLink(s, Told)
         IN /\ Stays(s, r)
            /\ (s.reported => s.wanted) => Calm(r)
            /\ r.link = "closed" \/ Calm(r)
            /\ Waits(s, r) /\ Opens(s, r)
<1> DEFINE news == {"error", "down"}
           more == IF IsConnected(s) THEN Append(s.posted, "down") ELSE s.posted
           u == [s EXCEPT !.link = "closed", !.posted = more]
           c == [s EXCEPT !.link = "closed"]
           r == CloseLink(s, Told)
<1>1. /\ c \in Dev
      /\ c.kind = s.kind /\ c.target = s.target /\ c.wanted = s.wanted
      /\ c.available = s.available /\ c.reported = s.reported /\ c.paused = s.paused
      /\ c.phase = s.phase /\ c.link = "closed" /\ c.session = s.session
  BY DEF Plain, Dev, LinkState
<1>2. /\ u \in Dev
      /\ u.kind = s.kind /\ u.target = s.target /\ u.wanted = s.wanted
      /\ u.available = s.available /\ u.reported = s.reported /\ u.paused = s.paused
      /\ u.phase = s.phase /\ u.link = "closed" /\ u.session = s.session
  <2>1. s.posted \in Seq(news)
    BY DEF Plain, Dev
  <2> HIDE DEF news
  <2>2. "down" \in news => more \in Seq(news)
    BY <2>1, AppendProperties
  <2>3. \A p \in Seq(news) : [s EXCEPT !.link = "closed", !.posted = p] \in Dev
    BY DEF Plain, Dev, LinkState, news
  <2>4. u \in Dev /\ s \in Dev
    BY <2>2, <2>3 DEF news, Plain
  <2> QED
    BY <2>4 DEF Dev
<1>3. r = IF s.kind = "UsbHid" THEN u
          ELSE IF IsConnected(s) THEN TransportDown(c, Told) ELSE c
  BY DEF CloseLink
<1> HIDE DEF c, u, r
<1>4. Stays(s, c) /\ Stays(s, u)
  BY <1>1, <1>2 DEF Stays, Plain, Asynchronous, Dialing
<1>5. CASE r = c \/ r = u
  BY <1>1, <1>2, <1>4, <1>5 DEF Calm, Waits, Opens, IsConnected, Dialing, r
<1>6. CASE IsConnected(s) /\ r = TransportDown(c, Told)
  <2>1. Plain(c) /\ ~Dialing(c)
    BY <1>1, <1>4 DEF Stays, Dialing
  <2>2. Stays(c, r) /\ Calm(r) /\ Waits(c, r) /\ Opens(c, r)
    BY <1>6, <2>1, TransportDownCalm
  <2>3. Waits(s, r) /\ Opens(s, r)
    BY <1>1, <1>6, <2>2 DEF Waits, Opens
  <2> QED
    BY <1>1, <2>2, <2>3 DEF Stays, r
<1> QED
  BY <1>3, <1>5, <1>6

-----------------------------------------------------------------------------
\* The next attempt, of a calm connection.

\* A port that opens at once.
LEMMA OpenNowCalm ==
  ASSUME NEW s, NEW Told, Plain(s), Calms(Told), NothingWarns, s.kind \in Kinds,
         ~Asynchronous(s), s.wanted, s.phase = "PreparingTransport"
  PROVE  LET r == OpenNow(s, Told)
         IN /\ Stays(s, r) /\ Calm(r)
            /\ s.kind = "Serial" /\ port = "opens" => r.reported /\ r.phase \in Talking
<1> DEFINE c == CloseLink(s, Told)
           w == IF s.kind = "Serial" /\ s.target \in Warned THEN TransportError(c, Told) ELSE c
           r == OpenNow(s, Told)
<1>1. /\ \/ r = Opened(w) /\ port = "opens"
         \/ r = w /\ s.kind = "UsbHid"
         \/ r = TransportError(w, Told) /\ port # "opens"
  BY DEF OpenNow
<1>2. w = c
  BY DEF NothingWarns
<1> HIDE DEF w
<1>3. Stays(s, c) /\ Calm(c) /\ Opens(s, c)
  BY CloseLinkCalm
<1>4. s.kind = "UsbHid" => c.phase = s.phase
  BY DEF CloseLink, Plain, Dev
<1> HIDE DEF c, r
<1>5. Plain(w) /\ Calm(w) /\ w.kind = s.kind /\ w.wanted /\ ~Dialing(w)
  BY <1>2, <1>3 DEF Stays, Plain, Asynchronous
<1>6. CASE r = Opened(w) /\ port = "opens"
  <2> DEFINE o == [w EXCEPT !.link = "open", !.linkTarget = w.target]
  <2>1. r = TransportUp(o)
    BY <1>6 DEF Opened
  <2>2. /\ o \in Dev
        /\ o.kind = w.kind /\ o.target = w.target /\ o.wanted = w.wanted
        /\ o.available = w.available /\ o.reported = w.reported /\ o.paused = w.paused
        /\ o.phase = w.phase /\ o.link = "open" /\ o.session = w.session
    BY <1>5 DEF Plain, Dev, LinkState
  <2> HIDE DEF o
  <2>3. Stays(w, o) /\ IsConnected(o)
    BY <1>5, <2>2 DEF Stays, Plain, Asynchronous, Dialing, IsConnected
  <2>4. w.phase = "PreparingTransport" \/ (w.reported /\ w.phase \in Talking)
    <3>1. s.kind \in {"Serial", "UsbHid"}
      BY PlainLinks
    <3> QED
      BY <1>2, <1>3, <1>4, <1>6, <3>1 DEF Opens
  <2>5. Plain(o) /\ o.wanted
    BY <1>5, <2>2, <2>3 DEF Stays
  <2>6. Stays(o, r) /\ Calm(r) /\ r.reported /\ r.phase \in Talking
    BY <2>1, <2>2, <2>3, <2>4, <2>5, TransportUpCalm
  <2> QED
    BY <1>2, <1>3, <2>3, <2>6 DEF Stays, r
<1>7. CASE r = w /\ s.kind = "UsbHid"
  BY <1>2, <1>3, <1>5, <1>7 DEF r
<1>8. CASE r = TransportError(w, Told) /\ port # "opens"
  <2>1. Stays(w, r) /\ Calm(r)
    BY <1>5, <1>8, TransportErrorCalm
  <2> QED
    BY <1>2, <1>3, <1>8, <2>1 DEF Stays, r
<1> QED
  BY <1>1, <1>6, <1>7, <1>8

\* A dial that starts, or the one before it.
LEMMA StartDialCalm ==
  ASSUME NEW s, Plain(s), Asynchronous(s), ~IsConnected(s), ~s.reported,
         s.attempt, s.phase = "PreparingTransport"
  PROVE  LET r == StartDial(s)
         IN Stays(s, r) /\ Calm(r) /\ r.attempt /\ ~r.reported /\ ~IsConnected(r)
<1> DEFINE state == IF s.target \in Named THEN "looking" ELSE "dialing"
           o == [s EXCEPT !.link = state, !.linkTarget = s.target]
           r == StartDial(s)
<1>1. r = s \/ r = o
  BY DEF StartDial
<1>2. state \in {"looking", "dialing"}
  OBVIOUS
<1> HIDE DEF state
<1>3. /\ o \in Dev
      /\ o.kind = s.kind /\ o.target = s.target /\ o.wanted = s.wanted
      /\ o.available = s.available /\ o.reported = s.reported /\ o.paused = s.paused
      /\ o.attempt = s.attempt /\ o.phase = s.phase /\ o.link \in {"looking", "dialing"}
  BY <1>2 DEF Plain, Dev, LinkState
<1> HIDE DEF o, r
<1>4. CASE r = s
  BY <1>4 DEF Stays, Calm, r
<1>5. CASE r = o
  <2>1. Stays(s, o) /\ Calm(o) /\ ~IsConnected(o)
    BY <1>3 DEF Stays, Plain, Calm, Asynchronous, Dialing, IsConnected
  <2> QED
    BY <1>3, <1>5, <2>1 DEF r
<1> QED
  BY <1>1, <1>4, <1>5

\* What an attempt may start from: a connection that is calm but for the phase of
\* a dial that has no attempt.
Startable(s) ==
  /\ s.reported => s.wanted /\ ~Dialing(s)
  /\ s.wanted /\ Dialing(s) /\ (s.paused \/ s.attempt) => s.phase = "PreparingTransport"
  /\ s.wanted /\ IsConnected(s) /\ s.session # "none" => ShownAsItIs(s)

\* Both ways of opening a link.
LEMMA OpenLinkCalm ==
  ASSUME NEW s, NEW Told, Plain(s), Calms(Told), NothingWarns, s.kind \in Kinds,
         s.wanted, s.attempt, s.phase = "PreparingTransport",
         Asynchronous(s) => ~IsConnected(s) /\ ~s.reported
  PROVE  LET r == OpenLink(s, Told)
         IN /\ Stays(s, r) /\ Calm(r) /\ Marked(r)
            /\ Asynchronous(s) => ~IsConnected(r) /\ ~r.reported
            /\ s.kind = "Serial" /\ port = "opens" => r.reported /\ r.phase \in Talking
<1> DEFINE r == OpenLink(s, Told)
<1>1. CASE Asynchronous(s)
  <2>1. r = StartDial(s)
    BY <1>1 DEF OpenLink
  <2> HIDE DEF r
  <2>2. Stays(s, r) /\ Calm(r) /\ r.attempt /\ ~r.reported /\ ~IsConnected(r)
    BY <1>1, <2>1, StartDialCalm
  <2> QED
    BY <1>1, <2>2 DEF Marked, Asynchronous, r
<1>2. CASE ~Asynchronous(s)
  <2>1. r = OpenNow(s, Told)
    BY <1>2 DEF OpenLink
  <2> HIDE DEF r
  <2>2. /\ Stays(s, r) /\ Calm(r)
        /\ s.kind = "Serial" /\ port = "opens" => r.reported /\ r.phase \in Talking
    BY <1>2, <2>1, OpenNowCalm
  <2>3. Marked(r)
    BY <1>2, <2>2 DEF Marked, Stays, Plain, Asynchronous
  <2> QED
    BY <1>2, <2>2, <2>3 DEF r
<1> QED
  BY <1>1, <1>2

\* attemptReconnect() leaves a calm connection.
LEMMA AttemptReconnectCalm ==
  ASSUME NEW s, NEW Told, Plain(s), Calms(Told), NothingWarns, s.kind \in Kinds, Startable(s)
  PROVE  LET r == AttemptReconnect(s, Told)
         IN /\ Stays(s, r) /\ Calm(r)
            /\ ~Dialing(s) => Marked(r)
            /\ Waits(s, r)
            /\ s.kind = "Serial" /\ port = "opens" /\ s.wanted /\ ~s.paused
                 /\ ~s.reported /\ ~s.attempt => r.reported /\ r.phase \in Talking
<1> DEFINE r == AttemptReconnect(s, Told)
<1>1. CASE ~s.wanted \/ s.paused
  <2>1. r = s
    BY <1>1 DEF AttemptReconnect
  <2>2. Calm(s)
    BY <1>1 DEF Startable, Calm
  <2> QED
    BY <1>1, <2>1, <2>2 DEF Stays, Marked, Waits
<1>2. CASE s.wanted /\ ~s.paused /\ IsConnected(s)
  <2> DEFINE b == [s EXCEPT !.attempt = FALSE]
  <2>1. r = IF s.reported THEN s ELSE ReportUp(b)
    BY <1>2 DEF AttemptReconnect, Plain
  <2>2. /\ b \in Dev
        /\ b.kind = s.kind /\ b.target = s.target /\ b.wanted = s.wanted
        /\ b.available = s.available /\ b.reported = s.reported /\ b.paused = s.paused
        /\ b.link = s.link /\ b.session = s.session
    BY DEF Plain, Dev
  <2> HIDE DEF b, r
  <2>3. ~Dialing(s)
    BY <1>2, PlainLinks
  <2>4. CASE s.reported /\ r = s
    <3>1. Calm(s)
      BY <1>2, <2>3 DEF Startable, Calm
    <3> QED
      BY <2>3, <2>4, <3>1 DEF Stays, Marked, Waits, r
  <2>5. CASE ~s.reported /\ r = ReportUp(b)
    <3>1. Plain(b) /\ b.wanted /\ IsConnected(b) /\ b.session # "up"
      BY <1>2, <2>2, <2>5 DEF Startable, ShownAsItIs, Plain, Asynchronous, Dialing, IsConnected
    <3>2. Stays(b, r) /\ Calm(r) /\ r.reported /\ r.phase \in Talking /\ r.link = b.link
      BY <2>5, <3>1, ReportUpCalm
    <3>3. Stays(s, r) /\ Marked(r) /\ Waits(s, r)
      BY <1>2, <2>2, <2>3, <3>2 DEF Stays, Marked, Dialing, Waits
    <3> QED
      BY <3>2, <3>3 DEF r
  <2> QED
    BY <2>1, <2>4, <2>5
<1>3. CASE s.wanted /\ ~s.paused /\ ~IsConnected(s)
  <2> DEFINE m == IF s.reported /\ ~s.attempt THEN ReportDown(s, Told) ELSE s
             b == [m EXCEPT !.attempt = TRUE, !.phase = "PreparingTransport"]
  <2>1. r = IF m.attempt THEN m ELSE OpenLink(b, Told)
    BY <1>3 DEF AttemptReconnect, Plain
  <2>2. (m = s /\ ~(s.reported /\ ~s.attempt)) \/ (m = ReportDown(s, Told) /\ s.reported)
    OBVIOUS
  <2> HIDE DEF m, r
  <2>3. /\ Stays(s, m) /\ (m.attempt => Calm(m))
        /\ ~Dialing(s) => Marked(m)
        /\ Asynchronous(s) => ~IsConnected(m) /\ (s.reported /\ ~m.attempt => ~m.reported)
        /\ Waits(s, m)
        /\ ~s.reported => m = s
    <3>1. CASE m = s /\ ~(s.reported /\ ~s.attempt)
      <4>1. m.attempt => Calm(m)
        BY <1>3, <3>1 DEF Startable, Calm
      <4> QED
        BY <1>3, <3>1, <4>1 DEF Stays, Marked, Waits
    <3>2. CASE m = ReportDown(s, Told) /\ s.reported
      <4>1. ~Dialing(s)
        BY <3>2 DEF Startable
      <4>2. /\ Stays(s, m) /\ Calm(m) /\ Marked(m)
            /\ Asynchronous(s) => ~IsConnected(m) /\ ~m.reported
        BY <1>3, <3>2, <4>1, ReportDownCalm
      <4> QED
        BY <3>2, <4>2 DEF Waits
    <3> QED
      BY <2>2, <3>1, <3>2
  <2>4. CASE m.attempt
    <3>1. r = m
      BY <2>1, <2>4
    <3> QED
      BY <2>3, <2>4, <3>1 DEF r
  <2>5. CASE ~m.attempt
    <3>1. r = OpenLink(b, Told)
      BY <2>1, <2>5
    <3>2. Plain(m) /\ m.wanted /\ m.kind = s.kind
      BY <1>3, <2>3 DEF Stays, Plain
    <3>3. /\ b \in Dev
          /\ b.kind = m.kind /\ b.target = m.target /\ b.wanted = m.wanted
          /\ b.available = m.available /\ b.attempt = TRUE /\ b.reported = m.reported
          /\ b.phase = "PreparingTransport" /\ b.link = m.link /\ b.paused = m.paused
      BY <3>2 DEF Plain, Dev, ConnectionPhase
    <3> HIDE DEF b
    <3>4. Stays(m, b) /\ b.wanted /\ b.kind \in Kinds
      BY <3>2, <3>3 DEF Stays, Plain, Asynchronous, Dialing
    <3>5. Asynchronous(b) => ~IsConnected(b) /\ ~b.reported
      BY <2>3, <2>5, <3>2, <3>3 DEF Asynchronous, IsConnected
    <3>6. /\ Stays(b, r) /\ Calm(r) /\ Marked(r)
          /\ Asynchronous(b) => ~IsConnected(r) /\ ~r.reported
          /\ b.kind = "Serial" /\ port = "opens" => r.reported /\ r.phase \in Talking
      BY <3>1, <3>3, <3>4, <3>5, OpenLinkCalm DEF Stays
    <3>7. Stays(s, r)
      BY <2>3, <3>4, <3>6 DEF Stays
    <3>8. Waits(s, r)
      BY <3>2, <3>3, <3>6 DEF Waits, Asynchronous
    <3> QED
      BY <3>2, <3>3, <3>6, <3>7, <3>8 DEF r
  <2>6. QED
    BY <2>4, <2>5
<1> QED
  BY <1>1, <1>2, <1>3

\* A timer that is started.
LEMMA ArmCalm ==
  ASSUME NEW s, Plain(s)
  PROVE  LET r == Arm(s)
         IN /\ Stays(s, r) /\ (Calm(s) => Calm(r)) /\ (Marked(s) => Marked(r))
            /\ r.reported = s.reported /\ r.phase = s.phase /\ r.link = s.link
            /\ r.attempt = s.attempt
<1> DEFINE r == Arm(s)
<1>1. /\ r \in Dev
      /\ r.kind = s.kind /\ r.target = s.target /\ r.wanted = s.wanted
      /\ r.available = s.available /\ r.attempt = s.attempt /\ r.reported = s.reported
      /\ r.phase = s.phase /\ r.link = s.link /\ r.session = s.session /\ r.paused = s.paused
  BY DEF Arm, Plain, Dev
<1> HIDE DEF r
<1>2. Stays(s, r) /\ (Calm(s) => Calm(r)) /\ (Marked(s) => Marked(r))
  BY <1>1 DEF Stays, Plain, Asynchronous, Calm, ShownAsItIs, Marked, IsConnected, Dialing
<1> QED
  BY <1>1, <1>2 DEF r

-----------------------------------------------------------------------------
\* The commands and the listener, of a calm connection.

\* connectTo() from a calm connection ends in a calm one, and if it is told the
\* target in use it does what is asked of a listener.
LEMMA ConnectToCalm ==
  ASSUME NEW s, NEW Told, Plain(s), Calms(Told), NothingWarns, s.kind \in Kinds, Calm(s),
         NEW t \in Target \cup {NoTarget}, t = NoTarget \/ ~s.paused
  PROVE  LET r == ConnectTo(s, t, Told)
         IN /\ Plain(r) /\ r.kind = s.kind /\ r.target = t /\ (~s.paused => ~r.paused)
            /\ Calm(r)
            /\ t = s.target /\ ~s.reported /\ ~Dialing(s) =>
                 Marked(r) /\ Waits(s, r) /\ Opens(s, r)
<1> DEFINE changed == t # s.target
           held == s.attempt /\ Asynchronous(s) /\ t = NoTarget
           want == t # NoTarget
           asked == [s EXCEPT !.target = t, !.wanted = want, !.attempt = held]
           next == SetPhase(asked, "Connecting")
           clear == IF changed THEN CloseTransportGracefully(next, Told) ELSE next
           off == [asked EXCEPT !.ticking = FALSE]
           r == ConnectTo(s, t, Told)
<1>1. /\ asked \in Dev
      /\ asked.kind = s.kind /\ asked.target = t /\ asked.wanted = want
      /\ asked.available = s.available /\ asked.reported = s.reported
      /\ asked.attempt = held /\ asked.paused = s.paused
      /\ asked.phase = s.phase /\ asked.link = s.link /\ asked.session = s.session
  <2>1. held \in BOOLEAN /\ want \in BOOLEAN
    BY DEF Plain, Dev
  <2>2. s \in Dev
    BY DEF Plain
  <2> HIDE DEF held, want
  <2> QED
    BY <2>1, <2>2 DEF Dev
<1>2. r = CASE t = NoTarget -> ReportDown(CloseTransportGracefully(off, Told), Told)
            [] t # NoTarget /\ ~changed /\ s.wanted /\ s.available /\ (IsConnected(s) \/ s.attempt) ->
                 Arm(s)
            [] OTHER ->
                 IF ~s.available THEN SetPhase(asked, "Disconnected")
                 ELSE Arm(AttemptReconnect(clear, Told))
  BY DEF ConnectTo
<1> HIDE DEF asked, r
<1>3. s.available
  BY DEF Plain
<1>4. CASE t = NoTarget
  <2> DEFINE x == CloseTransportGracefully(off, Told)
  <2>1. r = ReportDown(x, Told)
    BY <1>2, <1>4
  <2>2. /\ off \in Dev
        /\ off.kind = s.kind /\ off.target = t /\ off.wanted = FALSE
        /\ off.available = s.available /\ off.reported = s.reported /\ off.paused = s.paused
        /\ off.link = s.link /\ off.session = s.session
    BY <1>1, <1>4 DEF Dev
  <2> HIDE DEF off
  <2>3. Plain(off) /\ ~off.wanted
    BY <1>4, <2>2 DEF Plain, Asynchronous, Dialing
  <2>4. (IsConnected(off) <=> IsConnected(s)) /\ (Dialing(off) <=> Dialing(s))
    BY <2>2 DEF IsConnected, Dialing
  <2>5. Stays(off, x) /\ (Dialing(x) => ~x.reported) /\ Waits(off, x)
    <3>1. CASE IsConnected(off)
      <4>1. x = CloseLink(off, Told)
        BY <3>1 DEF CloseTransportGracefully
      <4> HIDE DEF x
      <4>2. Stays(off, x) /\ (x.link = "closed" \/ Calm(x))
        BY <2>3, <4>1, CloseLinkCalm
      <4> QED
        BY <3>1, <4>2 DEF Waits, Calm, Dialing
    <3>2. CASE ~IsConnected(off)
      <4>1. x = off
        BY <3>2 DEF CloseTransportGracefully
      <4> QED
        BY <2>2, <2>3, <2>4, <4>1 DEF Stays, Calm, Waits
    <3> QED
      BY <3>1, <3>2
  <2> HIDE DEF x
  <2>6. Plain(x) /\ ~x.wanted
    BY <1>4, <2>2, <2>5 DEF Stays, Plain
  <2>7. /\ Stays(x, r) /\ Calm(r) /\ Marked(r)
        /\ Asynchronous(x) /\ ~IsConnected(x) => ~IsConnected(r) /\ ~r.reported
    BY <2>1, <2>5, <2>6, ReportDownCalm
  <2>8. Plain(r) /\ r.kind = s.kind /\ r.target = t /\ (~s.paused => ~r.paused)
    BY <2>2, <2>5, <2>7 DEF Stays
  <2>9. Waits(s, r)
    BY <2>2, <2>4, <2>5, <2>7 DEF Waits, Stays, Asynchronous
  <2>10. t = s.target => Opens(s, r)
    BY <1>4 DEF Plain, Opens
  <2> QED
    BY <2>7, <2>8, <2>9, <2>10 DEF r
<1>5. CASE t # NoTarget /\ ~changed /\ s.wanted /\ s.available /\ (IsConnected(s) \/ s.attempt)
  <2>1. r = Arm(s)
    BY <1>2, <1>5
  <2>2. /\ Stays(s, r) /\ Calm(r) /\ (Marked(s) => Marked(r))
        /\ r.reported = s.reported /\ r.phase = s.phase /\ r.link = s.link
    BY <2>1, ArmCalm
  <2>3. ~Dialing(s) => Marked(s)
    BY DEF Marked
  <2>4. Waits(s, r) /\ Opens(s, r)
    BY <2>2 DEF Waits, Opens, IsConnected
  <2> QED
    BY <1>5, <2>2, <2>3, <2>4 DEF Stays, r
<1>6. CASE /\ t # NoTarget
           /\ ~(~changed /\ s.wanted /\ s.available /\ (IsConnected(s) \/ s.attempt))
  <2> DEFINE x == AttemptReconnect(clear, Told)
  <2>1. r = Arm(x)
    BY <1>2, <1>3, <1>6
  <2>2. /\ next \in Dev
        /\ next.kind = s.kind /\ next.target = t /\ next.wanted = TRUE
        /\ next.available = s.available /\ next.reported = s.reported /\ ~next.paused
        /\ ~next.attempt /\ next.phase = "Connecting"
        /\ next.link = s.link /\ next.session = s.session
    <3>1. s.paused = FALSE
      BY <1>6 DEF Plain, Dev
    <3> QED
      BY <1>1, <1>6, <3>1 DEF Dev, SetPhase, ConnectionPhase
  <2>3. ~changed => clear = next
    OBVIOUS
  <2>4. clear = next \/ (IsConnected(next) /\ clear = CloseLink(next, Told))
    BY DEF CloseTransportGracefully
  <2>5. changed /\ IsConnected(next) => clear = CloseLink(next, Told)
    BY DEF CloseTransportGracefully
  <2> HIDE DEF next, clear
  <2>6. Plain(next) /\ (IsConnected(next) <=> IsConnected(s)) /\ (Dialing(next) <=> Dialing(s))
    BY <1>3, <1>6, <2>2 DEF Plain, Asynchronous, Dialing, IsConnected
  <2>7. Stays(next, clear) /\ Startable(clear) /\ (~changed => ~clear.attempt)
    <3>1. CASE IsConnected(next) /\ clear = CloseLink(next, Told)
      <4>1. Stays(next, clear) /\ Calm(clear)
        BY <2>2, <2>6, <3>1, CloseLinkCalm
      <4>2. ~clear.paused
        BY <2>2, <4>1 DEF Stays
      <4>3. Startable(clear)
        BY <4>1 DEF Calm, Startable
      <4> QED
        BY <2>2, <2>3, <4>1, <4>3
    <3>2. CASE clear = next /\ ~IsConnected(next)
      <4>1. Startable(next)
        BY <2>2, <2>6, <3>2 DEF Calm, Startable
      <4> QED
        BY <2>2, <2>6, <3>2, <4>1 DEF Stays
    <3>3. CASE ~changed /\ IsConnected(next)
      <4>1. s.wanted /\ IsConnected(s)
        BY <1>6, <2>6, <3>3 DEF Plain
      <4> QED
        BY <1>3, <1>6, <3>3, <4>1
    <3> QED
      BY <2>4, <2>5, <3>1, <3>2, <3>3
  <2>8. Plain(clear) /\ clear.kind = s.kind /\ clear.target = t /\ ~clear.paused
    BY <2>2, <2>7 DEF Stays
  <2>9. /\ Stays(clear, x) /\ Calm(x)
        /\ ~Dialing(clear) => Marked(x)
        /\ Waits(clear, x)
        /\ clear.kind = "Serial" /\ port = "opens" /\ clear.wanted /\ ~clear.paused
             /\ ~clear.reported /\ ~clear.attempt => x.reported /\ x.phase \in Talking
    BY <2>7, <2>8, AttemptReconnectCalm
  <2> HIDE DEF x
  <2>10. /\ Stays(x, r) /\ Calm(r) /\ (Marked(x) => Marked(r))
         /\ r.reported = x.reported /\ r.phase = x.phase /\ r.link = x.link
    BY <2>1, <2>9, ArmCalm DEF Stays
  <2>11. Plain(r) /\ r.kind = s.kind /\ r.target = t /\ ~r.paused
    BY <2>8, <2>9, <2>10 DEF Stays
  <2>12. ASSUME t = s.target, ~s.reported, ~Dialing(s)
         PROVE  Marked(r) /\ Waits(s, r) /\ Opens(s, r)
    <3>1. clear = next
      BY <2>3, <2>12
    <3>2. Marked(r)
      BY <2>6, <2>9, <2>10, <2>12, <3>1
    <3>3. Waits(s, r)
      BY <2>2, <2>6, <2>9, <2>10, <3>1 DEF Waits, Asynchronous, IsConnected
    <3>4. Opens(s, r)
      BY <2>2, <2>9, <2>10, <2>12, <3>1 DEF Opens
    <3> QED
      BY <3>2, <3>3, <3>4
  <2> QED
    BY <2>10, <2>11, <2>12 DEF r
<1> QED
  BY <1>4, <1>5, <1>6

\* A listener that does nothing is calm.
LEMMA SilentCalms == Calms(Silent)
<1>1. \A s \in Dev : Silent[s] = s
  BY DEF Silent
<1> QED
  BY <1>1 DEF Calms, Stays, Marked, Waits, Opens

\* So is the main window.
LEMMA ToldOnceCalms ==
  ASSUME NothingWarns
  PROVE  Calms(ToldOnce)
<1> SUFFICES ASSUME NEW s \in Dev, Plain(s), Calm(s), ~s.reported, ~Dialing(s)
             PROVE  LET r == ToldOnce[s]
                    IN Stays(s, r) /\ Calm(r) /\ Marked(r) /\ Waits(s, r) /\ Opens(s, r)
  BY DEF Calms
<1> DEFINE a == [s EXCEPT !.paused = FALSE]
           r == ToldOnce[s]
<1>1. r = IF Wired THEN ConnectTo(a, s.target, Silent) ELSE s
  BY DEF ToldOnce
<1>2. /\ a \in Dev
      /\ a.kind = s.kind /\ a.target = s.target /\ a.wanted = s.wanted
      /\ a.available = s.available /\ a.reported = s.reported /\ ~a.paused
      /\ a.phase = s.phase /\ a.link = s.link /\ a.session = s.session
  BY DEF Dev
<1> HIDE DEF a, r
<1>3. Plain(a) /\ Calm(a) /\ ~Dialing(a)
  BY <1>2 DEF Plain, Calm, ShownAsItIs, Asynchronous, IsConnected, Dialing
<1>4. CASE Wired
  <2>1. s.target \in Target \cup {NoTarget} /\ a.kind \in Kinds
    BY <1>2 DEF Dev
  <2>2. r = ConnectTo(a, s.target, Silent)
    BY <1>1, <1>4
  <2>3. /\ Plain(r) /\ r.kind = a.kind /\ r.target = s.target /\ (~a.paused => ~r.paused)
        /\ Calm(r) /\ Marked(r) /\ Waits(a, r) /\ Opens(a, r)
    BY <1>2, <1>3, <2>1, <2>2, SilentCalms, ConnectToCalm
  <2>4. Stays(s, r) /\ Waits(s, r) /\ Opens(s, r)
    BY <1>2, <2>3 DEF Stays, Waits, Opens, Asynchronous, IsConnected
  <2> QED
    BY <2>3, <2>4 DEF r
<1>5. CASE ~Wired
  <2>1. r = s
    BY <1>1, <1>5
  <2> QED
    BY <2>1 DEF Stays, Marked, Waits, Opens, r
<1> QED
  BY <1>4, <1>5


-----------------------------------------------------------------------------
\* Events, of a calm connection.

\* Between two events; only the dialog of a device suspends its retries.
Settled(s) == Plain(s) /\ Calm(s) /\ (s.paused => Wired)

\* Fields that neither Plain nor Calm reads may change.
Likes(s, q) ==
  /\ q \in Dev
  /\ q.kind = s.kind /\ q.target = s.target /\ q.wanted = s.wanted
  /\ q.available = s.available /\ q.reported = s.reported /\ q.phase = s.phase
  /\ q.link = s.link /\ q.session = s.session

\* Connections alike are plain and calm together.
LEMMA LikesCalm ==
  ASSUME NEW s, NEW q, Plain(s), Likes(s, q)
  PROVE  Plain(q) /\ (Calm(s) => Calm(q))
BY DEF Likes, Plain, Asynchronous, Dialing, Calm, ShownAsItIs, IsConnected

\* A handler that was given a connection with no pause of its own.
LEMMA StaysSettled ==
  ASSUME NEW s, NEW r, Stays(s, r), Calm(r), s.paused => Wired, s.paused \in BOOLEAN
  PROVE  Settled(r)
BY DEF Stays, Settled, Plain, Dev

\* The user edits the target.
LEMMA ConfigureSettles ==
  ASSUME NothingWarns, Settled(dev), NEW t \in Target \cup {NoTarget}, Configure(t)
  PROVE  Settled(dev')
<1> DEFINE q == [dev EXCEPT !.paused = @ /\ ~Wired]
<1>1. dev' = ConnectTo(q, t, ToldOnce)
  BY DEF Configure
<1>2. Likes(dev, q) /\ ~q.paused
  BY WiredAssumption DEF Settled, Plain, Dev, Likes
<1> HIDE DEF q
<1>3. Plain(q) /\ Calm(q) /\ q.kind \in Kinds
  BY <1>2, LikesCalm DEF Settled, Likes, Dev
<1>4. Plain(dev') /\ ~dev'.paused /\ Calm(dev')
  BY <1>1, <1>2, <1>3, ToldOnceCalms, ConnectToCalm
<1> QED
  BY <1>4 DEF Settled

\* What is not wanted has no target to reconnect to.
LEMMA ReconnectSettles ==
  ASSUME NothingWarns, Settled(dev), Reconnect
  PROVE  Settled(dev')
<1>1. dev' = ConnectTo(dev, NoTarget, ToldOnce) /\ Wired /\ dev.kind \in Kinds
  BY DEF Reconnect, Settled, Plain, Dev
<1>2. Plain(dev) /\ Calm(dev)
  BY DEF Settled
<1>3. Plain(dev') /\ Calm(dev')
  BY <1>1, <1>2, ToldOnceCalms, ConnectToCalm
<1> QED
  BY <1>1, <1>3 DEF Settled

\* The preference and the dialog.
LEMMA SettingsSettle ==
  ASSUME Settled(dev),
         (\E on \in BOOLEAN : SetAutoReconnect(on)) \/ OpenDialog \/ CloseDialog
  PROVE  Settled(dev')
<1>1. Likes(dev, dev') /\ (dev'.paused => dev.paused \/ Wired)
  BY DEF Settled, Plain, Dev, SetAutoReconnect, OpenDialog, CloseDialog, Likes
<1> QED
  BY <1>1, LikesCalm DEF Settled

\* The retry timer fires.
LEMMA RetryTickSettles ==
  ASSUME NothingWarns, Settled(dev), RetryTick
  PROVE  Settled(dev')
<1>1. dev' = AttemptReconnect(dev, ToldOnce)
  BY DEF RetryTick
<1>2. Plain(dev) /\ Startable(dev) /\ dev.kind \in Kinds /\ dev.paused \in BOOLEAN
  BY DEF Settled, Calm, Startable, Plain, Dev
<1>3. Stays(dev, dev') /\ Calm(dev')
  BY <1>1, <1>2, ToldOnceCalms, AttemptReconnectCalm
<1> QED
  BY <1>2, <1>3, StaysSettled DEF Settled

\* A connection whose link has ended, and nobody was told.
LEMMA LinkGone ==
  ASSUME NEW s, Settled(s)
  PROVE  LET q == [s EXCEPT !.link = "closed"]
         IN Settled(q) /\ ~Dialing(q) /\ q.kind = s.kind /\ q.paused \in BOOLEAN
<1> DEFINE q == [s EXCEPT !.link = "closed"]
<1>1. /\ q \in Dev
      /\ q.kind = s.kind /\ q.target = s.target /\ q.wanted = s.wanted
      /\ q.available = s.available /\ q.reported = s.reported /\ q.paused = s.paused
      /\ q.phase = s.phase /\ q.link = "closed" /\ q.session = s.session
  BY DEF Settled, Plain, Dev, LinkState
<1> HIDE DEF q
<1>2. Settled(q) /\ ~Dialing(q) /\ q.paused \in BOOLEAN
  BY <1>1 DEF Settled, Plain, Calm, Asynchronous, Dialing, IsConnected, Dev
<1> QED
  BY <1>1, <1>2 DEF q

\* An error, then maybe a close, of a link that has ended.
LEMMA ErrorSettles ==
  ASSUME NothingWarns, NEW s, Settled(s), ~Dialing(s)
  PROVE  Settled(TransportError(s, ToldOnce))
<1>1. Plain(s) /\ Calm(s) /\ (s.paused => Wired) /\ s.paused \in BOOLEAN
  BY DEF Settled, Plain, Dev
<1>2. Stays(s, TransportError(s, ToldOnce)) /\ Calm(TransportError(s, ToldOnce))
  BY <1>1, ToldOnceCalms, TransportErrorCalm
<1> QED
  BY <1>1, <1>2, StaysSettled

\* A close that is reported by a settled connection.
LEMMA DownSettles ==
  ASSUME NothingWarns, NEW s, Settled(s)
  PROVE  LET r == TransportDown(s, ToldOnce)
         IN Settled(r) /\ r.kind = s.kind
<1> DEFINE r == TransportDown(s, ToldOnce)
<1>1. Plain(s) /\ (s.paused => Wired) /\ s.paused \in BOOLEAN
  BY DEF Settled, Plain, Dev
<1>2. Dialing(s) => ~s.reported /\ (s.wanted => s.phase = "PreparingTransport")
  BY DEF Settled, Calm
<1>3. Stays(s, r) /\ Calm(r)
  BY <1>1, <1>2, ToldOnceCalms, TransportDownCalm
<1>4. Settled(r)
  BY <1>1, <1>3, StaysSettled
<1> QED
  BY <1>3, <1>4 DEF Stays

\* A dial ends, or its lookup does.
LEMMA DialSettles ==
  ASSUME NothingWarns, Settled(dev), Resolve \/ DialEnds
  PROVE  Settled(dev')
<1> DEFINE q == [dev EXCEPT !.link = "closed"]
           d == [dev EXCEPT !.link = "dialing"]
           o == [dev EXCEPT !.link = "open"]
<1>1. \/ dev' = TransportError(q, ToldOnce)
      \/ dev.link = "looking" /\ dev' = d
      \/ dev.link = "dialing" /\ dev' = TransportUp(o)
  BY DEF Resolve, DialEnds
<1>2. CASE dev' = TransportError(q, ToldOnce)
  <2>1. Settled(q) /\ ~Dialing(q)
    BY LinkGone
  <2> HIDE DEF q
  <2> QED
    BY <1>2, <2>1, ErrorSettles
<1>3. CASE dev.link = "looking" /\ dev' = d
  <2>1. /\ d \in Dev
        /\ d.kind = dev.kind /\ d.target = dev.target /\ d.wanted = dev.wanted
        /\ d.available = dev.available /\ d.reported = dev.reported /\ d.paused = dev.paused
        /\ d.phase = dev.phase /\ d.link = "dialing" /\ d.session = dev.session
    BY DEF Settled, Plain, Dev, LinkState
  <2> HIDE DEF d
  <2> QED
    BY <1>3, <2>1 DEF Settled, Plain, Calm, Asynchronous, Dialing, IsConnected
<1>4. CASE dev.link = "dialing" /\ dev' = TransportUp(o)
  <2>1. /\ o \in Dev
        /\ o.kind = dev.kind /\ o.target = dev.target /\ o.wanted = dev.wanted
        /\ o.available = dev.available /\ o.reported = dev.reported /\ o.paused = dev.paused
        /\ o.phase = dev.phase /\ o.link = "open" /\ o.session = dev.session
    BY DEF Settled, Plain, Dev, LinkState
  <2> HIDE DEF o
  <2>2. /\ Plain(o) /\ IsConnected(o) /\ ~o.reported
        /\ o.wanted => o.phase = "PreparingTransport"
    BY <1>4, <2>1 DEF Settled, Plain, Calm, Asynchronous, Dialing, IsConnected
  <2>3. Stays(o, dev') /\ Calm(dev')
    BY <1>4, <2>2, TransportUpCalm
  <2>4. (o.paused => Wired) /\ o.paused \in BOOLEAN
    BY <2>1 DEF Settled, Dev
  <2> QED
    BY <2>3, <2>4, StaysSettled
<1> QED
  BY <1>1, <1>2, <1>3, <1>4

\* A link in use is lost, in the order its transport says so.
LEMMA LossSettles ==
  ASSUME NothingWarns, Settled(dev), Drop \/ GattFails
  PROVE  Settled(dev')
<1> DEFINE q == [dev EXCEPT !.link = "closed"]
           d == TransportDown(q, ToldOnce)
           e == TransportError(q, ToldOnce)
<1>1. \/ dev.kind = "Serial" /\ dev' = TransportError(d, ToldOnce)
      \/ dev' = d
      \/ dev' = TransportDown(e, ToldOnce)
  BY DEF Drop, GattFails
<1>2. Settled(q) /\ ~Dialing(q) /\ q.kind = dev.kind
  BY LinkGone DEF Settled
<1> HIDE DEF q
<1>3. Settled(d) /\ d.kind = dev.kind
  BY <1>2, DownSettles
<1>4. Settled(e)
  BY <1>2, ErrorSettles
<1> HIDE DEF d, e
<1>5. CASE dev.kind = "Serial" /\ dev' = TransportError(d, ToldOnce)
  <2>1. ~Dialing(d)
    BY <1>3, <1>5 DEF Settled, Plain, Asynchronous
  <2> QED
    BY <1>3, <1>5, <2>1, ErrorSettles
<1>6. CASE dev' = TransportDown(e, ToldOnce)
  BY <1>4, <1>6, DownSettles
<1> QED
  BY <1>1, <1>3, <1>5, <1>6

\* The USB reader thread fails and ends; what it says comes later.
LEMMA ReaderSettles ==
  ASSUME Settled(dev), ReadFails \/ ReaderEnds
  PROVE  Settled(dev')
<1> DEFINE news == {"error", "down"}
<1>1. /\ dev.kind = "UsbHid" /\ dev.link \in {"open", "dying"}
      /\ \E l \in {"dying", "exited"}, n \in news :
           /\ dev' = [dev EXCEPT !.link = l, !.posted = Append(@, n)]
           /\ l = "dying" => dev.link = "open"
  BY DEF ReadFails, ReaderEnds, Settled, Plain
<1>2. PICK l \in {"dying", "exited"}, n \in news :
           dev' = [dev EXCEPT !.link = l, !.posted = Append(@, n)]
  BY <1>1
<1>3. Append(dev.posted, n) \in Seq(news)
  <2>1. dev.posted \in Seq(news)
    BY DEF Settled, Plain, Dev
  <2> HIDE DEF news
  <2> QED
    BY <2>1, AppendProperties
<1>4. /\ dev' \in Dev
      /\ dev'.kind = dev.kind /\ dev'.target = dev.target /\ dev'.wanted = dev.wanted
      /\ dev'.available = dev.available /\ dev'.reported = dev.reported
      /\ dev'.paused = dev.paused /\ dev'.phase = dev.phase
      /\ dev'.link = l /\ dev'.session = dev.session
  BY <1>2, <1>3 DEF Settled, Plain, Dev, LinkState
<1> QED
  BY <1>1, <1>4 DEF Settled, Plain, Calm, ShownAsItIs, Asynchronous, Dialing, IsConnected

\* What the reader said is delivered, under whatever link there is by then: a
\* USB connection never dials.
LEMMA DeliverSettles ==
  ASSUME NothingWarns, IInv, Settled(dev), Deliver
  PROVE  Settled(dev')
<1> DEFINE d == [dev EXCEPT !.posted = Tail(@)]
<1>1. /\ dev.posted # <<>>
      /\ dev' = TransportError(d, ToldOnce) \/ dev' = TransportDown(d, ToldOnce)
  BY DEF Deliver
<1>2. dev.kind = "UsbHid"
  BY <1>1 DEF IInv, Good, Base
<1>3. Tail(dev.posted) \in Seq({"error", "down"})
  BY <1>1 DEF Settled, Plain, Dev
<1>4. Likes(dev, d) /\ d.paused = dev.paused
  BY <1>3 DEF Settled, Plain, Dev, Likes
<1> HIDE DEF d
<1>5. Settled(d) /\ ~Dialing(d)
  BY <1>2, <1>4, LikesCalm DEF Likes, Settled, Plain, Asynchronous
<1> QED
  BY <1>1, <1>5, ErrorSettles, DownSettles

\* The session is established: what is wanted only has its timer armed, and is
\* shown as Ready; what is not wanted is told so again.
LEMMA HelloAnsweredSettles ==
  ASSUME NothingWarns, Settled(dev), HelloAnswered
  PROVE  Settled(dev')
<1> DEFINE q == [dev EXCEPT !.session = "up"]
           a == [q EXCEPT !.paused = FALSE]
           r == Reapply(q)
<1>1. /\ IsConnected(dev) /\ dev.session = "hello"
      /\ dev' = IF r.wanted /\ r.phase = "NegotiatingBtp" THEN SetPhase(r, "Ready") ELSE r
  BY DEF HelloAnswered
<1>2. /\ q \in Dev
      /\ q.kind = dev.kind /\ q.target = dev.target /\ q.wanted = dev.wanted
      /\ q.available = dev.available /\ q.reported = dev.reported /\ q.paused = dev.paused
      /\ q.attempt = dev.attempt /\ q.phase = dev.phase /\ q.link = dev.link
      /\ q.session = "up"
  BY DEF Settled, Plain, Dev
<1>3. r = IF Wired THEN ConnectTo(a, q.target, ToldOnce) ELSE q
  BY DEF Reapply
<1> HIDE DEF q
<1>4. Likes(q, a) /\ ~a.paused
  BY <1>2 DEF Dev, Likes
<1> HIDE DEF a, r
<1>5. Plain(q) /\ Plain(a) /\ IsConnected(a)
  <2>1. Plain(q)
    BY <1>2 DEF Settled, Plain, Asynchronous, Dialing
  <2> QED
    BY <1>1, <1>2, <1>4, <2>1, LikesCalm DEF Likes, IsConnected
<1>6. CASE dev.wanted
  <2>1. /\ Plain(r) /\ r.wanted /\ IsConnected(r) /\ ~Dialing(r)
        /\ r.reported /\ r.phase \in Talking
        /\ r.paused => Wired
    <3>1. q.wanted /\ q.target # NoTarget /\ q.reported /\ q.phase \in Talking
      BY <1>1, <1>2, <1>5, <1>6 DEF Settled, Calm, ShownAsItIs, Plain
    <3>2. CASE Wired
      <4>1. r = Arm(a)
        BY <1>3, <1>4, <1>5, <3>1, <3>2 DEF ConnectTo, Likes, Plain
      <4>2. Stays(a, r) /\ r.reported = a.reported /\ r.phase = a.phase /\ r.link = a.link
        BY <1>5, <4>1, ArmCalm
      <4> QED
        BY <1>4, <1>5, <3>1, <3>2, <4>2, PlainLinks DEF Likes, Stays, Plain, IsConnected
    <3>3. CASE ~Wired
      BY <1>1, <1>2, <1>3, <1>5, <3>1, <3>3, PlainLinks DEF Settled, IsConnected
    <3> QED
      BY <3>2, <3>3
  <2>2. /\ dev' \in Dev
        /\ dev'.kind = r.kind /\ dev'.target = r.target /\ dev'.wanted = r.wanted
        /\ dev'.available = r.available /\ dev'.reported = r.reported
        /\ dev'.paused = r.paused /\ dev'.link = r.link /\ dev'.phase = "Ready"
    BY <1>1, <2>1 DEF Plain, Dev, SetPhase, ConnectionPhase, Talking
  <2> QED
    BY <2>1, <2>2 DEF Settled, Plain, Calm, ShownAsItIs, Talking, Asynchronous, Dialing,
                      IsConnected
<1>7. CASE ~dev.wanted
  <2>1. ~q.wanted /\ q.target = NoTarget /\ Calm(q)
    BY <1>2, <1>7 DEF Settled, Plain, Calm, Dialing
  <2>2. Calm(a) /\ a.kind \in Kinds
    BY <1>4, <1>5, <2>1, LikesCalm DEF Likes, Dev
  <2>3. Plain(r) /\ r.target = NoTarget /\ Calm(r) /\ (r.paused => Wired)
    <3>1. CASE Wired
      <4>1. r = ConnectTo(a, NoTarget, ToldOnce)
        BY <1>3, <2>1, <3>1
      <4> QED
        BY <1>5, <2>2, <3>1, <4>1, ToldOnceCalms, ConnectToCalm
    <3>2. CASE ~Wired
      BY <1>2, <1>3, <1>5, <2>1, <3>2 DEF Settled
    <3> QED
      BY <3>1, <3>2
  <2>4. dev' = r
    BY <1>1, <2>3 DEF Plain
  <2> QED
    BY <2>3, <2>4 DEF Settled
<1> QED
  BY <1>6, <1>7

\* A session in trouble: it is given up, or the link with it.
LEMMA SessionTroubleSettles ==
  ASSUME NothingWarns, Settled(dev), NEW after \in {"none", "hello", "up"}, SessionTrouble(after)
  PROVE  Settled(dev')
<1> DEFINE d == [dev EXCEPT !.session = after]
<1>1. /\ dev.session # "none" /\ after \in {"none", dev.session}
      /\ dev' = CloseLink(d, ToldOnce) \/ dev' = d
  BY DEF SessionTrouble
<1>2. /\ d \in Dev
      /\ d.kind = dev.kind /\ d.target = dev.target /\ d.wanted = dev.wanted
      /\ d.available = dev.available /\ d.reported = dev.reported /\ d.paused = dev.paused
      /\ d.phase = dev.phase /\ d.link = dev.link /\ d.session = after
  BY DEF Settled, Plain, Dev
<1> HIDE DEF d
<1>3. Settled(d) /\ d.paused \in BOOLEAN
  BY <1>1, <1>2 DEF Settled, Plain, Calm, ShownAsItIs, Asynchronous, Dialing, IsConnected, Dev
<1>4. CASE dev' = CloseLink(d, ToldOnce)
  <2>1. Plain(d) /\ (d.reported => d.wanted) /\ (d.paused => Wired)
    BY <1>3 DEF Settled, Calm
  <2>2. Stays(d, dev') /\ Calm(dev')
    BY <1>4, <2>1, ToldOnceCalms, CloseLinkCalm
  <2> QED
    BY <1>3, <2>1, <2>2, StaysSettled
<1> QED
  BY <1>1, <1>3, <1>4

\* Neither a disconnect nor a suspension is used.
NeverOff == Uses \cap {"off", "suspend"} = {}

\* The initial state is settled.
LEMMA InitSettled == Init => Settled(dev)
<1> SUFFICES ASSUME Init PROVE Settled(dev)
  OBVIOUS
<1>1. dev \in Dev
  BY InitIInv DEF IInv, Good, Base
<1>2. /\ dev.target = NoTarget /\ dev.wanted = FALSE /\ dev.available = TRUE
      /\ dev.paused = FALSE /\ dev.reported = FALSE /\ dev.link = "closed"
  BY DEF Init
<1> QED
  BY <1>1, <1>2 DEF Settled, Plain, Calm, Dialing

\* Every step leaves a settled connection settled: one case per action.
LEMMA NextSettled ==
  ASSUME NothingWarns, NeverOff
  PROVE  IInv /\ Settled(dev) /\ [Next]_vars => Settled(dev')
<1> SUFFICES ASSUME IInv, Settled(dev), [Next]_vars PROVE Settled(dev')
  OBVIOUS
<1>1. CASE UNCHANGED vars \/ \E p \in PortState : PortChanges(p)
  BY <1>1 DEF vars, PortChanges
<1>2. CASE \/ \E t \in Target \cup {NoTarget} : Configure(t)
           \/ Disconnect \/ Reconnect
           \/ \E a \in BOOLEAN : ChangeAvailability(a)
  <2>1. ~Disconnect /\ ~(\E a \in BOOLEAN : ChangeAvailability(a))
    BY DEF NeverOff, Disconnect, ChangeAvailability
  <2> QED
    BY <1>2, <2>1, ConfigureSettles, ReconnectSettles
<1>3. CASE \/ \E on \in BOOLEAN : SetAutoReconnect(on)
           \/ OpenDialog \/ CloseDialog
           \/ RetryTick
  BY <1>3, SettingsSettle, RetryTickSettles
<1>4. CASE Resolve \/ DialEnds \/ Drop \/ GattFails \/ ReadFails \/ ReaderEnds \/ Deliver
  BY <1>4, DialSettles, LossSettles, ReaderSettles, DeliverSettles
<1>5. CASE HelloAnswered \/ \E after \in {"none", "hello", "up"} : SessionTrouble(after)
  BY <1>5, HelloAnsweredSettles, SessionTroubleSettles
<1> QED
  BY <1>1, <1>2, <1>3, <1>4, <1>5 DEF Next

\* An established session on a reported link is shown as Ready, on every
\* transport, under changes of the target, of the preferences and of the dialog,
\* and whatever the listener does inside a report; a connection that is never
\* disconnected or suspended, and whose serial target draws no complaint.
THEOREM EstablishedIsReadyHolds ==
  ASSUME NothingWarns, NeverOff
  PROVE  Spec => []EstablishedIsReady
<1>1. IInv /\ Settled(dev) => EstablishedIsReady
  BY DEF Settled, Calm, ShownAsItIs, EstablishedIsReady, Online
<1>2. IInv /\ Settled(dev) /\ [Next]_vars => Settled(dev)'
  BY NextSettled
<1> QED
  BY <1>1, <1>2, InitSettled, Invariant, PTL DEF Spec
=============================================================================
