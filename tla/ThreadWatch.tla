------------------------------ MODULE ThreadWatch ------------------------------
(***************************************************************************)
(* watchThread (api/threadWatch.ts): a live view of one thread that        *)
(* survives the sockets it is carried by, and ThreadProjectionTracker      *)
(* (api/threadTracker.ts), which derives requests and settlements from it. *)
(*                                                                         *)
(* The server holds a log of domain events, numbered from 1.  It answers a *)
(* subscription with a snapshot or a replay, may repeat events at or below *)
(* the point it was asked to resume after, and sends frames that this      *)
(* client may fail to decode.  The stream below keeps its order and hands  *)
(* over what it buffered before its error (RpcConnection).  Events of      *)
(* types this build does not know, which leave the projection as it is,    *)
(* and the text of assistant messages are left out.                        *)
(*                                                                         *)
(* ShellApi.watch (api/shell.ts) is the same loop without a tracker, over  *)
(* another subscription: `api` tells which of the two a behaviour is about. *)
(*                                                                         *)
(* What the consumer was told is kept in `view`, a history that nothing    *)
(* reads but the properties.                                               *)
(***************************************************************************)
EXTENDS Integers, SequencesExt

CONSTANTS
  Apis,                  \* the watches tried, among "thread" and "shell"
  Runs,
  Requests, UserInputs,  \* runtime requests; those of kind user_input
  HasLoader,             \* whether the caller gave a snapshotLoader
  StartAfter,            \* the afterSequence options tried, Off for none
  Opaque,                \* sequences of events this client may be unable to decode
  SlowConsumer,          \* whether the consumer may be busy while a socket reopens
  MaxEvents,             \* bound: events in the server's log
  MaxOverlap,            \* bound: events repeated by a resumed subscription
  MaxQueue,              \* bound: frames the stream buffers
  MaxDrops               \* bound: drops of the socket

Off == -1  \* no afterSequence

ASSUME ConstantsAssumption ==
  /\ Apis \subseteq {"thread", "shell"}
  /\ UserInputs \subseteq Requests /\ Opaque \subseteq Nat
  /\ HasLoader \in BOOLEAN /\ SlowConsumer \in BOOLEAN
  /\ MaxEvents \in Nat /\ StartAfter \subseteq {Off} \cup 0..MaxEvents
  /\ MaxOverlap \in Nat /\ MaxQueue \in Nat \ {0} /\ MaxDrops \in Nat

VARIABLES
  api,        \* whose watch it is
  log,        \* the server's events for the thread
  link,       \* the transport's state
  drops,
  oversized,  \* whether the thread's snapshot is too large for a frame
  opaque,     \* sequences of the events this client cannot decode
  stream,     \* the stream of the current subscription
  queue,      \* frames it holds for the consumer
  sent,       \* sequence of the last event the server sent on it
  marked,     \* whether it carried its completion marker
  cursor,     \* afterSequence
  resumed,
  received,
  tracker,    \* the ThreadProjectionTracker
  held,       \* the frame in hand while the snapshotLoader runs
  watch,      \* where the generator stands
  aborted,    \* the caller's signal
  view        \* what the consumer was told

server == <<api, log, oversized, opaque>>
socket == <<link, drops>>
wire   == <<stream, queue, sent, marked>>
client == <<cursor, resumed, received, tracker, held, watch, view>>
vars   == <<server, socket, wire, client, aborted>>

-----------------------------------------------------------------------------
(* The server's log *)

Event(type, id, status) == [type |-> type, id |-> id, status |-> status]

Events ==
  {Event("run", r, s) : r \in Runs, s \in {"running", "completed"}}
  \cup {Event("request", q, s) : q \in Requests, s \in {"pending", "resolved"}}
  \cup {Event("item", q, "known") : q \in UserInputs}

\* The status of an entity after the events of l whose sequence is in seen.
StatusIn(l, seen, type, id) ==
  LET about == {n \in seen \cap DOMAIN l : l[n].type = type /\ l[n].id = id}
  IN IF about = {} THEN "none" ELSE l[Max(about)].status

Projection(l, seen) ==
  [runs     |-> [r \in Runs |-> StatusIn(l, seen, "run", r)],
   requests |-> [q \in Requests |-> StatusIn(l, seen, "request", q)],
   items    |-> {q \in UserInputs : StatusIn(l, seen, "item", q) = "known"}]

Prefix(n) == 1..n

\* A run completes after it was created and is then only sent again; a request is
\* raised once and resolved once.
MayFollow(l, e) ==
  LET status == StatusIn(l, DOMAIN l, e.type, e.id)
  IN CASE e.type = "run"     -> /\ status = "none" => e.status = "running"
                                /\ status = "completed" => e.status = "completed"
       [] e.type = "request" -> status = IF e.status = "pending" THEN "none" ELSE "pending"
       [] OTHER              -> TRUE

Legal(l) == \A n \in DOMAIN l : MayFollow(SubSeq(l, 1, n - 1), l[n])

Snapshot(n) == [kind |-> "snapshot", sequence |-> n, projection |-> Projection(log, Prefix(n))]
Marker      == [kind |-> "synchronized"]
EventFrame(n) == [kind |-> IF n \in opaque THEN "undecodable" ELSE "event", sequence |-> n]

-----------------------------------------------------------------------------
(* ThreadProjectionTracker: each step yields the requests it resolves and  *)
(* announces and the runs it settles.                                      *)

NewTracker == [seeded |-> FALSE, projection |-> Projection(<<>>, {}), sequence |-> 0,
               announced |-> {}, settled |-> {}]

IsRunTerminalStatus(status) == status = "completed"

\* Mutant: a user-input request is announced without its questions.
PendingRequests_WithoutQuestions(p) == {q \in Requests : p.requests[q] = "pending"}

\* The open requests that #reconcileRequests may announce: a user-input request
\* waits for its questions.
PendingRequests(p) ==
  {q \in Requests : p.requests[q] = "pending" /\ (q \in UserInputs => q \in p.items)}

\* #reconcileRequests of tracker t, whose projection is in place.
Reconcile(t, settles) ==
  LET open == {q \in Requests : t.projection.requests[q] = "pending"}
      new  == PendingRequests(t.projection) \ t.announced
  IN [tracker  |-> [t EXCEPT !.announced = (@ \cap open) \cup new],
      resolved |-> t.announced \ open, requested |-> new, settles |-> settles]

SettledRuns(p) == {r \in Runs : IsRunTerminalStatus(p.runs[r])}

\* Mutants: the snapshot's sequence, or the runs it shows settled, are not kept.
Seed_ForgetsTheSequence(t, s) ==
  Reconcile([t EXCEPT !.seeded = TRUE, !.projection = s.projection,
                      !.settled = @ \cup SettledRuns(s.projection)], {})
Seed_ForgetsSettledRuns(t, s) ==
  Reconcile([t EXCEPT !.seeded = TRUE, !.projection = s.projection,
                      !.sequence = Max({@, s.sequence})], {})

Seed(t, s) ==
  Reconcile([t EXCEPT !.seeded = TRUE, !.projection = s.projection,
                      !.sequence = Max({@, s.sequence}),
                      !.settled = @ \cup SettledRuns(s.projection)], {})

\* applyThreadEvent
ApplyThreadEvent(p, e) ==
  CASE e.type = "run"     -> [p EXCEPT !.runs[e.id] = e.status]
    [] e.type = "request" -> [p EXCEPT !.requests[e.id] = e.status]
    [] OTHER              -> [p EXCEPT !.items = @ \cup {e.id}]

Quiet(t) == [tracker |-> t, resolved |-> {}, requested |-> {}, settles |-> {}]

\* apply, with #settle
Apply(t, n, e) ==
  LET settles == IF e.type = "run" /\ IsRunTerminalStatus(e.status) THEN {e.id} \ t.settled ELSE {}
  IN IF ~t.seeded \/ n <= t.sequence THEN Quiet(t)
     ELSE Reconcile([t EXCEPT !.projection = ApplyThreadEvent(@, e), !.sequence = n,
                              !.settled = @ \cup settles], settles)

-----------------------------------------------------------------------------
Nothing == [kind |-> "none"]

\* The calls' afterSequence is known from what the server had already told the
\* caller, such as the receipt of a dispatch.
Init ==
  /\ api \in Apis
  /\ cursor \in StartAfter
  /\ log \in {l \in [Prefix(Max({cursor, 0})) -> Events] : Legal(l)}
  /\ link = "connecting" /\ drops = 0
  /\ oversized \in BOOLEAN /\ opaque \in SUBSET Opaque
  /\ stream = "none" /\ queue = <<>> /\ sent = 0 /\ marked = FALSE
  /\ resumed = FALSE /\ received = FALSE
  /\ tracker = NewTracker /\ held = Nothing
  /\ watch = "waiting" /\ aborted = FALSE
  /\ view = [shown |-> <<>>, undecoded |-> {}, covered |-> Max({cursor, 0}), seededAt |-> 0,
             open |-> {}, settlements |-> [r \in Runs |-> 0], found |-> {},
             reconnects |-> 0, tries |-> 0, cause |-> "none"]

\* What a step of the tracker tells the consumer.
Told(v, step) ==
  [v EXCEPT !.open = (@ \ step.resolved) \cup step.requested,
            !.settlements = [r \in Runs |-> IF r \in step.settles THEN @[r] + 1 ELSE @[r]]]

\* A snapshot the consumer is shown; `found` holds the runs it is the first to show
\* settled.
Shown(v, s) ==
  [v EXCEPT !.seededAt = s.sequence, !.undecoded = {n \in @ : n > s.sequence},
            !.found = @ \cup {r \in SettledRuns(s.projection) : v.settlements[r] = 0}]

\* What the generator does next once it has yielded an item.
AfterYield == IF SlowConsumer THEN "busy" ELSE "waiting"

-----------------------------------------------------------------------------
(* The server and the socket, while there is a watch to tell *)

Over == watch \in {"ended", "failed"}

Emit ==
  /\ ~Over /\ Len(log) < MaxEvents
  /\ \E e \in Events : MayFollow(log, e) /\ log' = Append(log, e)
  /\ UNCHANGED <<api, oversized, opaque, socket, wire, client, aborted>>

\* The socket opens in a task of its own, at least the reconnect delay after the
\* drop; the microtasks of a consumer that waits in next() have run by then.
Reconnect ==
  /\ ~Over /\ link = "connecting"
  /\ watch = "waiting" => queue = <<>> /\ stream = "none"
  /\ link' = "open"
  /\ UNCHANGED <<drops, server, wire, client, aborted>>

\* The stream of a subscription fails; what it holds is still handed over.
Break(why) ==
  /\ stream' = IF stream \in {"asked", "live"} THEN why ELSE stream
  /\ UNCHANGED <<queue, sent, marked>>

Drop ==
  /\ ~Over /\ link = "open" /\ drops < MaxDrops
  /\ drops' = drops + 1 /\ link' = "connecting"
  /\ \E why \in {"dropped", "too_large"} : Break(why)
  /\ UNCHANGED <<server, client, aborted>>

\* close() of the client, or a close the transport treats as final.
CloseForGood ==
  /\ ~Over /\ link # "closed"
  /\ link' = "closed"
  /\ stream' = IF stream \in {"none", "asked", "live"} THEN "closed" ELSE stream
  /\ UNCHANGED <<drops, queue, sent, marked, server, client, aborted>>

\* The server ends or fails the stream.
ServerStops ==
  /\ ~Over /\ link = "open" /\ stream = "live"
  /\ \E why \in {"rpc_error", "interrupted", "finished"} : Break(why)
  /\ UNCHANGED <<server, socket, client, aborted>>

\* Events up to `from` are not sent again, up to MaxOverlap of them aside.
Overlap(from) == Max({from - MaxOverlap, 0})..from

\* A snapshot, or a replay after the cursor the subscription named.
Answer ==
  /\ ~Over /\ link = "open" /\ stream = "asked"
  /\ \/ /\ ~oversized
        /\ stream' = "live" /\ queue' = <<Snapshot(Len(log))>>
        /\ sent' \in Overlap(Len(log))
        /\ UNCHANGED <<link, view>>
     \/ /\ cursor # Off
        /\ stream' = "live" /\ sent' \in Overlap(sent)
        /\ UNCHANGED <<link, queue, view>>
     \/ /\ oversized
        /\ stream' = "too_large" /\ link' = "connecting"
        /\ view' = [view EXCEPT !.tries = @ + 1]
        /\ UNCHANGED <<queue, sent>>
  /\ marked' = FALSE
  /\ UNCHANGED <<drops, server, cursor, resumed, received, tracker, held, watch, aborted>>

Send ==
  /\ ~Over /\ link = "open" /\ stream = "live" /\ Len(queue) < MaxQueue
  /\ \/ /\ sent < Len(log)
        /\ queue' = Append(queue, EventFrame(sent + 1))
        /\ sent' = sent + 1
        /\ UNCHANGED marked
     \/ /\ sent = Len(log) /\ ~marked
        /\ queue' = Append(queue, Marker) /\ marked' = TRUE
        /\ UNCHANGED sent
  /\ UNCHANGED <<stream, server, socket, client, aborted>>

-----------------------------------------------------------------------------
(* The watch *)

\* Mutant: the server is taken to start at the sequence it is given.
ResumeAfter_Inclusive == IF cursor = Off THEN Off ELSE cursor + 1

\* The afterSequence of the subscription's payload.
ResumeAfter == cursor

\* rpc.stream() past its connect(): the request names the cursor.
Subscribe ==
  /\ watch = "waiting" /\ stream = "none" /\ link = "open"
  /\ stream' = "asked" /\ sent' = Max({ResumeAfter, 0})
  /\ UNCHANGED <<queue, marked, server, socket, client, aborted>>

\* Mutant: the event at the cursor is shown again.
IsOverlap_Below(n) == n < cursor

\* Replay overlap, which is skipped.
IsOverlap(n) == n <= cursor

\* An event frame, or the marker, once the tracker is seeded as far as it will be.
Accept(frame, t, v) ==
  LET step == Apply(t, frame.sequence, log[frame.sequence])
  IN IF frame.kind = "synchronized"
     THEN /\ tracker' = t /\ view' = v /\ watch' = AfterYield
          /\ UNCHANGED cursor
     ELSE IF IsOverlap(frame.sequence)
     THEN /\ tracker' = t /\ view' = v /\ UNCHANGED cursor
          /\ watch' = IF watch = "waiting" /\ v = view THEN "waiting" ELSE AfterYield
     ELSE /\ cursor' = frame.sequence /\ tracker' = step.tracker
          /\ view' = Told([v EXCEPT !.shown = Append(@, frame.sequence)], step)
          /\ watch' = AfterYield

Pull ==
  /\ api = "thread" /\ watch = "waiting" /\ queue # <<>>
  /\ queue' = Tail(queue) /\ received' = TRUE
  /\ LET frame == Head(queue)
         step  == Seed(tracker, frame)
         v     == IF resumed /\ ~received THEN [view EXCEPT !.reconnects = @ + 1] ELSE view
     IN \/ /\ frame.kind = "undecodable"
           /\ view' = [v EXCEPT !.undecoded = @ \cup {frame.sequence}]
           /\ watch' = AfterYield
           /\ UNCHANGED <<cursor, tracker, held>>
        \/ /\ frame.kind = "snapshot"
           /\ cursor' = Max({cursor, frame.sequence})
           /\ tracker' = step.tracker
           /\ view' = Told([Shown(v, frame) EXCEPT !.covered = Max({@, frame.sequence})], step)
           /\ watch' = AfterYield
           /\ UNCHANGED held
        \/ /\ frame.kind \in {"event", "synchronized"}
           /\ ~tracker.seeded /\ HasLoader
           /\ held' = frame /\ watch' = "loading" /\ view' = v
           /\ UNCHANGED <<cursor, tracker>>
        \/ /\ frame.kind \in {"event", "synchronized"}
           /\ tracker.seeded \/ ~HasLoader
           /\ Accept(frame, tracker, v)
           /\ UNCHANGED held
  /\ UNCHANGED <<stream, sent, marked, server, socket, resumed, aborted>>

\* Mutant: the shell's watch does not look for replay overlap.
ShellPasses_Overlap(frame) == frame.kind \in {"event", "synchronized"}

\* The frames that the shell's watch passes on and takes its cursor from.
ShellPasses(frame) ==
  frame.kind = "synchronized" \/ (frame.kind = "event" /\ ~IsOverlap(frame.sequence))

\* The loop of the shell's watch.
ShellPull ==
  /\ api = "shell" /\ watch = "waiting" /\ queue # <<>>
  /\ queue' = Tail(queue) /\ received' = TRUE
  /\ LET frame == Head(queue)
         v     == IF resumed /\ ~received THEN [view EXCEPT !.reconnects = @ + 1] ELSE view
     IN \/ /\ frame.kind = "undecodable"
           /\ view' = [v EXCEPT !.undecoded = @ \cup {frame.sequence}]
           /\ watch' = AfterYield /\ UNCHANGED cursor
        \/ /\ frame.kind = "snapshot"
           /\ cursor' = Max({cursor, frame.sequence})
           /\ view' = [Shown(v, frame) EXCEPT !.covered = Max({@, frame.sequence})]
           /\ watch' = AfterYield
        \/ /\ frame.kind = "event" /\ ~ShellPasses(frame)
           /\ view' = v /\ watch' = IF v = view THEN "waiting" ELSE AfterYield
           /\ UNCHANGED cursor
        \/ /\ ShellPasses(frame)
           /\ cursor' = IF frame.kind = "event" THEN frame.sequence ELSE cursor
           /\ view' = IF frame.kind = "event" THEN [v EXCEPT !.shown = Append(@, frame.sequence)] ELSE v
           /\ watch' = AfterYield
  /\ UNCHANGED <<tracker, held, stream, sent, marked, server, socket, resumed, aborted>>

\* The consumer comes back to next().
Consume ==
  /\ watch = "busy"
  /\ watch' = "waiting"
  /\ UNCHANGED <<server, socket, wire, cursor, resumed, received, tracker, held, view, aborted>>

\* The HTTP detail may be older than the frame in hand, never older than the cursor.
Loaded ==
  /\ watch = "loading"
  /\ \E n \in Max({cursor, 0})..Len(log) :
       LET step == Seed(tracker, Snapshot(n))
       IN Accept(held, step.tracker, Told(Shown(view, Snapshot(n)), step))
  /\ held' = Nothing
  /\ UNCHANGED <<server, socket, wire, resumed, received, aborted>>

ConnectionErrors == {"dropped", "too_large", "closed", "load_connection"}

\* Mutants: any failure of a connection that reconnects is tried again, or none
\* before the first frame.
ShouldResubscribe_Always(error) == error \in ConnectionErrors /\ link = "connecting"
ShouldResubscribe_OnceReceived(error) ==
  error \in ConnectionErrors /\ link = "connecting" /\ received

ShouldResubscribe(error) ==
  /\ error \in ConnectionErrors
  /\ link = "connecting"
  /\ received \/ error # "too_large"

\* Mutant: the frame in hand survives its subscription.
LeaveStream_KeepsTheFrame ==
  /\ stream' = "none" /\ queue' = <<>> /\ sent' = 0 /\ marked' = FALSE
  /\ UNCHANGED held

\* Leaving the `for await` returns the stream and drops what it held.
LeaveStream ==
  /\ stream' = "none" /\ queue' = <<>> /\ sent' = 0 /\ marked' = FALSE
  /\ held' = Nothing

\* The catch block.
Catch(error) ==
  LET quiet == aborted \/ error = "interrupted"
      again == ~quiet /\ ShouldResubscribe(error)
  IN /\ watch' = IF quiet THEN "ended" ELSE IF again THEN "waiting" ELSE "failed"
     /\ resumed' = (resumed \/ again) /\ received' = (received /\ ~again)
     /\ view' = IF watch' = "failed" THEN [view EXCEPT !.cause = error] ELSE view
     /\ LeaveStream
     /\ UNCHANGED <<cursor, tracker>>

LoadFails ==
  /\ watch = "loading"
  /\ \E error \in {"load_connection", "load_error"} : Catch(error)
  /\ UNCHANGED <<server, socket, aborted>>

Fails ==
  /\ watch = "waiting" /\ queue = <<>>
  /\ stream \notin {"none", "asked", "live", "finished"}
  /\ Catch(stream)
  /\ UNCHANGED <<server, socket, aborted>>

Finishes ==
  /\ watch = "waiting" /\ queue = <<>> /\ stream = "finished"
  /\ watch' = "ended"
  /\ UNCHANGED <<server, socket, wire, cursor, resumed, received, tracker, held, view, aborted>>

\* Mutant: the signal is not passed on to the stream.
Abort_BetweenFrames ==
  /\ ~Over /\ ~aborted
  /\ aborted' = TRUE
  /\ UNCHANGED <<server, socket, wire, client>>

\* The caller's signal fires.
Abort ==
  /\ ~Over /\ ~aborted
  /\ aborted' = TRUE
  /\ stream' = IF stream \in {"none", "asked", "live"} THEN "interrupted" ELSE stream
  /\ UNCHANGED <<queue, sent, marked, server, socket, client>>

World == Emit \/ Drop \/ CloseForGood \/ ServerStops \/ Abort
Work  == Reconnect \/ Answer \/ Send \/ Subscribe \/ Pull \/ ShellPull \/ Consume \/ Loaded \/ Fails \/ Finishes
Next  == World \/ LoadFails \/ Work

Spec     == Init /\ [][Next]_vars
\* The event loop runs what is ready, and the server answers a live socket.
FairSpec == Spec /\ WF_vars(Work)

-----------------------------------------------------------------------------
(* Properties *)

RunStatus     == {"none", "running", "completed"}
RequestStatus == {"none", "pending", "resolved"}
Failures      == ConnectionErrors \cup {"rpc_error", "interrupted", "load_error"}

\* Every variable keeps to its type, and the bounds hold.
TypeOK ==
  /\ api \in Apis /\ (api = "shell" => ~tracker.seeded)
  /\ Len(log) <= MaxEvents /\ \A n \in DOMAIN log : log[n] \in Events
  /\ link \in {"connecting", "open", "closed"} /\ drops \in 0..MaxDrops
  /\ stream \in {"none", "asked", "live", "finished"} \cup Failures
  /\ Len(queue) <= MaxQueue /\ sent \in Nat /\ marked \in BOOLEAN
  /\ cursor \in {Off} \cup 0..Len(log)
  /\ resumed \in BOOLEAN /\ received \in BOOLEAN /\ aborted \in BOOLEAN
  /\ watch \in {"waiting", "busy", "loading", "ended", "failed"}
  /\ watch = "loading" <=> held # Nothing
  /\ tracker.sequence \in 0..Len(log)
  /\ tracker.projection.runs \in [Runs -> RunStatus]
  /\ tracker.projection.requests \in [Requests -> RequestStatus]
  /\ tracker.announced \subseteq Requests /\ tracker.settled \subseteq Runs
  /\ view.cause \in Failures \cup {"none"}

\* The event frames that reached the consumer, as frames it could not decode count.
Accounted(n) ==
  \/ n <= view.covered
  \/ n \in view.undecoded
  \/ n \in ToSet(view.shown)

\* Across drops, replays and late snapshots no event is skipped: each one up to the
\* resume cursor was shown, reported as undecodable, or is part of a snapshot of the
\* stream (threadWatch.ts:79, 105, 124).
NothingMissed == \A n \in Prefix(cursor) : Accounted(n) \/ n <= view.seededAt

\* Events are shown in the server's order and at most once, whatever a resumed
\* subscription repeats (threadWatch.ts:123).
ShownInOrder == \A i, j \in DOMAIN view.shown : i < j => view.shown[i] < view.shown[j]

\* The consumer of either watch gets each event once.
EachEventOnce == TypeOK /\ NothingMissed /\ ShownInOrder

\* The events the tracker has taken account of.
Seen == {n \in Prefix(tracker.sequence) : n <= view.seededAt \/ n \notin view.undecoded}

\* The projection that the client builds event by event, over snapshots newer than
\* the events that follow them, is the server's at the sequence it claims
\* (threadTracker.ts:59-84).
ProjectionFollowsLog == tracker.seeded => tracker.projection = Projection(log, Seen)

\* The requests the consumer was told are open are those the server has open then,
\* with their questions (threadTracker.ts:122-148).
RequestsAnnounced ==
  tracker.seeded =>
    view.open = {q \in Requests :
                   /\ StatusIn(log, Seen, "request", q) = "pending"
                   /\ q \in UserInputs => StatusIn(log, Seen, "item", q) = "known"}

\* Every run that is settled as far as the tracker knows was reported once: it was
\* announced, or a snapshot showed it settled first and it is never announced
\* (threadTracker.ts:64-68, 110-120).
SettledOnce ==
  tracker.seeded =>
    \A r \in Runs :
      view.settlements[r] + (IF r \in view.found THEN 1 ELSE 0)
        = IF StatusIn(log, Seen, "run", r) = "completed" THEN 1 ELSE 0

\* The consumer is told of each request that opens or closes, and each run that ends.
AnnouncedOnce == RequestsAnnounced /\ SettledOnce

\* A snapshot that is too large for a frame is asked for once: the watch does not
\* repeat a subscription that can never deliver (watchRetry.ts:3-5).
OversizedTriedOnce == view.tries <= 1

\* A dropped socket does not end the watch unless the client is closed: it subscribes
\* again once the transport has reconnected (threadWatch.ts:9, library-facades.yml:135).
SurvivesDrops == view.cause = "dropped" => link = "closed"

\* Once drops stop, a watch that is not over has accounted for every event.
CatchesUp ==
  <>[](\/ watch = "ended" \/ (watch = "failed" /\ ~(view.cause = "dropped" /\ link # "closed"))
       \/ \A n \in DOMAIN log : Accounted(n))

\* An aborted watch ends.
AbortEnds == aborted ~> Over

\* A watch gets somewhere: to the end of the log, or to its own.
WatchProgresses == CatchesUp /\ AbortEnds

\* The tracker knows what the server knows, and its consumer was told of it once.
TrackerCorrect == ProjectionFollowsLog /\ AnnouncedOnce

\* A drop neither ends a watch nor costs it an event.
WatchGoesOn == []SurvivesDrops /\ WatchProgresses
=============================================================================
