------------------------------ MODULE OtaClient ------------------------------
(***************************************************************************)
(* Firmware upload and reachability over HTTP: the tab (OtaTab), the       *)
(* client that owns the requests (OtaClient) and the multicast resolver it *)
(* asks for names that end in ".local" (MdnsResolver).                     *)
(*                                                                         *)
(* The three run in one thread and call each other back.  A failed upload  *)
(* ends in a message box with an event loop of its own, and that box may   *)
(* be opened from inside the loop with which the resolver walks its table; *)
(* the walks and boxes under way are the stack "frames".                   *)
(*                                                                         *)
(* One step of the clock, Second, is one poll of the tab.  The address of  *)
(* a device does not change here, and every ".local" device has a name of  *)
(* its own.                                                                *)
(***************************************************************************)
EXTENDS Naturals, Sequences, FiniteSets

CONSTANTS Plain,         \* devices addressed by an IP or an ordinary name
          Local,         \* devices addressed by a ".local" name
          Slow,          \* devices that answer a status request as late as they can
          Unreadable,    \* devices whose firmware file may fail to open
          StatusSeconds, \* the transfer timeout of a status request
          LookupSeconds  \* how long a lookup waits for an answer

ASSUME DevicesAssumption == /\ Plain \cap Local = {}
                            /\ Slow \cup Unreadable \subseteq Plain \cup Local
ASSUME SecondsAssumption == {StatusSeconds, LookupSeconds} \subseteq Nat \ {0}

Device == Plain \cup Local
Request == {"status", "upload"} \X Device
Status(d) == <<"status", d>>
Upload(d) == <<"upload", d>>

\* POSTs of one device are told apart by a number; two are enough to see
\* whether a second ever runs beside the first.
Post == Device \X {1, 2}

VARIABLES
    active,    \* the tab is in front and its poll timer runs
    listed,    \* the devices with a row
    uploading, \* the rows locked by an upload (OtaTab::m_uploading)
    statusAge, \* the age of the status request of each device, 0: none
    posts,     \* the POSTs that run
    current,   \* the POST the client takes for the device's own, 0: none
    pending,   \* what the client waits for (OtaClient::m_pendingResolutions)
    queryAge,  \* the resolver's table with the age of every query, 0: none
    cached,    \* the devices whose address is remembered
    frames,    \* the walks and message boxes under way, the innermost last
    defined    \* no stale iterator has been used yet

vars == <<active, listed, uploading, statusAge, posts, current, pending,
          queryAge, cached, frames, defined>>

tab == <<active, listed>>

-----------------------------------------------------------------------------
\* The call stack.

\* A walk of the resolver over an answer or on its timer, or "none": a box.  It
\* visits "todo"; "at" is the request whose handler has a box open; it is sound
\* until the table changes under it.
Top == frames[Len(frames)]
Below == SubSeq(frames, 1, Len(frames) - 1)
Walking == frames # <<>> /\ Top.at = {}
EventLoop == defined /\ ~Walking
Unblocked == defined /\ frames = <<>>
Inside(walk) == \E i \in 1 .. Len(frames) : frames[i].walk = walk

\* The table has changed under every walk that is suspended in "stack".
Disturbed(stack) == [i \in 1 .. Len(stack) |-> [stack[i] EXCEPT !.sound = FALSE]]
Box(d) == [walk |-> "none", todo |-> {}, at |-> {Upload(d)}, sound |-> TRUE]

Asked == {r \in Request : queryAge[r] # 0}

-----------------------------------------------------------------------------
\* Status requests.

\* Mistake: a request that waits for its lookup is not seen.
InFlightReplies(d) == statusAge[d] # 0

InFlight(d) == statusAge[d] # 0 \/ Status(d) \in pending

Polled == {d \in listed \ uploading : ~InFlight(d)}
NeedsLookup(d) == d \in Local \ cached

Older(age, limit) == IF age \in 1 .. limit - 1 THEN age + 1 ELSE age

\* OtaTab::refreshNow() on the given ages: each polled row starts a request, or
\* the lookup it needs first (a query that is still there is replaced).
Refresh(polled, statuses, queries) ==
  LET lookups == {Status(d) : d \in {e \in polled : NeedsLookup(e)}}
  IN /\ statusAge' = [d \in Device |->
          IF d \in polled /\ ~NeedsLookup(d) THEN 1 ELSE statuses[d]]
     /\ pending' = pending \cup lookups
     /\ queryAge' = [r \in Request |-> IF r \in lookups THEN 1 ELSE queries[r]]
     /\ frames' = IF lookups = {} THEN frames ELSE Disturbed(frames)

\* One second: what is under way grows older, and the tab in front polls every
\* row that is neither locked nor waiting.
Second ==
  /\ EventLoop
  /\ Refresh(IF active THEN Polled ELSE {},
             [d \in Device |-> Older(statusAge[d], StatusSeconds)],
             [r \in Request |-> Older(queryAge[r], LookupSeconds)])
  /\ UNCHANGED <<tab, uploading, posts, current, cached, defined>>

\* A reply, or the transfer timeout.
StatusEnds(d) ==
  /\ EventLoop
  /\ statusAge[d] >= (IF d \in Slow THEN StatusSeconds ELSE 1)
  /\ statusAge' = [statusAge EXCEPT ![d] = 0]
  /\ UNCHANGED <<tab, uploading, posts, current, pending, queryAge, cached, frames, defined>>

-----------------------------------------------------------------------------
\* Uploads.

\* Mistake: the POST of an earlier upload is forgotten but goes on.
AbortedNever(d) == {}

Aborted(d) == {p \in posts : p = <<d, current[d]>>}

\* Mistake: only a success unlocks the row.
UnlockedOnSuccess(locked, d, ok) == IF ok THEN locked \ {d} ELSE locked

\* OtaTab::onUploadFinished() unlocks the row whatever the outcome; a failure
\* of a row that is still there opens a box.
Unlocked(locked, d, ok) == locked \ {d}

Complains(d, ok) == d \in listed /\ ~ok

\* sendUploadRequest(): the file opens and a POST starts, or the failure is
\* reported before the call returns.
SendUpload(d, opens, running, held, locked) ==
  LET n == CHOOSE m \in {1, 2} : <<d, m>> \notin running
  IN /\ opens \/ d \in Unreadable
     /\ posts' = IF opens THEN running \cup {<<d, n>>} ELSE running
     /\ current' = IF opens THEN [held EXCEPT ![d] = n] ELSE held
     /\ uploading' = IF opens THEN locked ELSE Unlocked(locked, d, FALSE)

\* The user picks a file; OtaClient::uploadFirmware() drops the device's
\* earlier POST first.
StartUpload(d) ==
  LET running == posts \ Aborted(d)
      held == [current EXCEPT ![d] = 0]
      locked == uploading \cup {d}
  IN /\ Unblocked
     /\ d \in listed \ uploading
     /\ \/ /\ NeedsLookup(d)
           /\ posts' = running /\ current' = held /\ uploading' = locked
           /\ pending' = pending \cup {Upload(d)}
           /\ queryAge' = [queryAge EXCEPT ![Upload(d)] = 1]
           /\ frames' = frames
        \/ \E opens \in BOOLEAN :
           /\ ~NeedsLookup(d)
           /\ SendUpload(d, opens, running, held, locked)
           /\ frames' = IF Complains(d, opens) THEN <<Box(d)>> ELSE frames
           /\ UNCHANGED <<pending, queryAge>>
     /\ UNCHANGED <<tab, statusAge, cached, defined>>

PostEnds(d, ok) ==
  /\ EventLoop
  /\ \E p \in posts :
       /\ p[1] = d
       /\ posts' = posts \ {p}
       /\ IF current[d] = p[2]
          THEN /\ current' = [current EXCEPT ![d] = 0]
               /\ uploading' = Unlocked(uploading, d, ok)
               /\ frames' = IF Complains(d, ok) THEN Append(frames, Box(d)) ELSE frames
          ELSE UNCHANGED <<current, uploading, frames>>
  /\ UNCHANGED <<tab, statusAge, pending, queryAge, cached, defined>>

-----------------------------------------------------------------------------
\* The resolver.

\* An answer, asked for or announced, resolves every query for its name.
AnswerArrives(d) ==
  LET matching == {r \in Asked : r[2] = d}
  IN /\ EventLoop
     /\ ~Inside("answer")
     /\ matching # {}
     /\ frames' = Append(frames, [walk |-> "answer", todo |-> matching, at |-> {}, sound |-> TRUE])
     /\ UNCHANGED <<tab, uploading, statusAge, posts, current, pending, queryAge, cached, defined>>

\* The timer of the table finds the queries past their deadline.
LookupTick ==
  LET late == {r \in Asked : queryAge[r] = LookupSeconds}
  IN /\ EventLoop
     /\ ~Inside("tick")
     /\ late # {}
     /\ frames' = Append(frames, [walk |-> "tick", todo |-> late, at |-> {}, sound |-> TRUE])
     /\ UNCHANGED <<tab, uploading, statusAge, posts, current, pending, queryAge, cached, defined>>

\* Mistake: a lookup that fails has no second way.
FallsBackNever(r) == Top.walk = "answer"

\* An answer gives the address; without one the request goes to the operating
\* system's resolver under the same name.
FallsBack(r) == TRUE

\* The row of the table is erased when its handler has returned.
Erased(r, todo) ==
  /\ queryAge' = [queryAge EXCEPT ![r] = 0]
  /\ frames' = Disturbed(Below) \o
               (IF todo = {} THEN <<>> ELSE <<[Top EXCEPT !.todo = todo, !.at = {}]>>)

\* One row of the walk: the outcome is reported, and the client goes on with
\* the request that waits for it.
Visit(r) ==
  LET d == r[2]
      todo == Top.todo \ {r}
      waits == r \in pending
      opensBox(opens) == r = Upload(d) /\ waits /\ Complains(d, opens)
  IN /\ defined /\ Walking
     /\ r \in Top.todo
     /\ pending' = pending \ {r}
     /\ cached' = IF waits /\ Top.walk = "answer" THEN cached \cup {d} ELSE cached
     /\ statusAge' = IF waits /\ r = Status(d) THEN [statusAge EXCEPT ![d] = 1] ELSE statusAge
     /\ \E opens \in BOOLEAN :
          /\ IF waits /\ r = Upload(d) /\ FallsBack(r)
             THEN SendUpload(d, opens, posts, current, uploading)
             ELSE opens /\ UNCHANGED <<posts, current, uploading>>
          /\ IF opensBox(opens)
             THEN /\ frames' = Append(Below, [Top EXCEPT !.todo = todo, !.at = {r}])
                  /\ queryAge' = queryAge
             ELSE Erased(r, todo)
     /\ UNCHANGED <<tab, defined>>

\* The user closes the innermost box.  A walk goes on with its iterator; when
\* the table changed meanwhile, what that does is undefined.
CloseBox ==
  /\ defined /\ frames # <<>> /\ ~Walking
  /\ defined' = (Top.walk = "none" \/ Top.sound)
  /\ IF Top.walk # "none" /\ Top.sound
     THEN \E r \in Top.at : Erased(r, Top.todo)
     ELSE frames' = Below /\ queryAge' = queryAge
  /\ UNCHANGED <<tab, uploading, statusAge, posts, current, pending, cached>>

CacheExpires(d) ==
  /\ EventLoop
  /\ d \in cached
  /\ cached' = cached \ {d}
  /\ UNCHANGED <<tab, uploading, statusAge, posts, current, pending, queryAge, frames, defined>>

-----------------------------------------------------------------------------
\* The window.

\* OtaTab::setActive(): coming to the front polls at once.
SetActive(front) ==
  /\ Unblocked
  /\ front # active
  /\ active' = front
  /\ IF front THEN Refresh(Polled, statusAge, queryAge)
     ELSE UNCHANGED <<statusAge, pending, queryAge, frames>>
  /\ UNCHANGED <<listed, uploading, posts, current, cached, defined>>

\* OtaTab::setDevices() after a removal or its undo: a lock survives only with
\* its row; nothing under way is cancelled.
RemoveDevice(d) ==
  /\ Unblocked
  /\ d \in listed
  /\ listed' = listed \ {d}
  /\ uploading' = uploading \ {d}
  /\ UNCHANGED <<active, statusAge, posts, current, pending, queryAge, cached, frames, defined>>

RestoreDevice(d) ==
  /\ Unblocked
  /\ d \in Device \ listed
  /\ listed' = listed \cup {d}
  /\ UNCHANGED <<active, uploading, statusAge, posts, current, pending, queryAge, cached,
                 frames, defined>>

-----------------------------------------------------------------------------
Init ==
  /\ active = TRUE
  /\ listed = Device
  /\ uploading = {} /\ posts = {} /\ pending = {} /\ cached = {}
  /\ statusAge = [d \in Device |-> 0]
  /\ current = [d \in Device |-> 0]
  /\ queryAge = [r \in Request |-> 0]
  /\ frames = <<>>
  /\ defined = TRUE

Next ==
  \/ Second \/ LookupTick \/ CloseBox
  \/ \E front \in BOOLEAN : SetActive(front)
  \/ \E r \in Request : Visit(r)
  \/ \E d \in Device :
       \/ StatusEnds(d) \/ StartUpload(d) \/ AnswerArrives(d) \/ CacheExpires(d)
       \/ RemoveDevice(d) \/ RestoreDevice(d)
       \/ \E ok \in BOOLEAN : PostEnds(d, ok)

Spec == Init /\ [][Next]_vars

\* Handlers run to their end, the user closes a box that is open, and the event
\* loop serves every timer and socket that is ready again and again, whatever
\* walk keeps it busy in between: strong fairness.  That a POST ends is up to
\* the network: it has no timeout of its own.
FairSpec ==
  /\ Spec
  /\ WF_vars(CloseBox)
  /\ \A r \in Request : WF_vars(Visit(r))
  /\ SF_vars(Second) /\ SF_vars(LookupTick)
  /\ \A d \in Device : SF_vars(StatusEnds(d)) /\ SF_vars(\E ok \in BOOLEAN : PostEnds(d, ok))

-----------------------------------------------------------------------------
\* A locked row has something under way that will unlock it: the POST the
\* client takes for its own, or a lookup both the client and the resolver know
\* of.  The button comes back in no other way.
LockedRowIsServed ==
  \A d \in uploading :
    \/ <<d, current[d]>> \in posts
    \/ Upload(d) \in pending /\ queryAge[Upload(d)] # 0

\* Two firmware images are never written to one device at the same time, also
\* when its row was removed and brought back during an upload.
OnePostPerDevice == \A d \in Device : Cardinality({p \in posts : p[1] = d}) <= 1

\* Every upload gives its row back.
RowIsReleased == \A d \in Device : d \in uploading ~> (d \notin uploading \/ ~defined)

\* A status request, or the lookup before it, comes to an end however slowly
\* the device answers, while the tab goes on polling every second.
PollIsAnswered ==
  \A d \in Device :
    (statusAge[d] # 0 \/ Status(d) \in pending)
      ~> ((statusAge[d] = 0 /\ Status(d) \notin pending) \/ ~defined)

=============================================================================
