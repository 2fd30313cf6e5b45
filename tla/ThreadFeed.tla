------------------------------- MODULE ThreadFeed -------------------------------
(***************************************************************************)
(* What ThreadsApi.watch (api/threads.ts) promises its consumer, and no    *)
(* more: the watch of one thread with its sockets, cursors and retries     *)
(* left out.  ThreadWatch models those.                                    *)
(*                                                                         *)
(* The server keeps a log of domain events.  The watch hands over the      *)
(* events after a receipt, in order, each at most once; before the first,  *)
(* and after a reconnect, it hands over a snapshot.  A snapshot that       *)
(* snapshotLoader fetched may be newer than the events that follow it:     *)
(* they are handed over all the same.  A run that ends is announced after  *)
(* its event, unless a snapshot showed its end first.                      *)
(*                                                                         *)
(* Markers, text deltas, `reconnected` and the request items the tracker   *)
(* derives are left out: no consumer modelled here reads them.             *)
(***************************************************************************)
EXTENDS Integers, SequencesExt

CONSTANTS
  Runs,          \* run ids, which are also their ordinals
  OurRuns,       \* runs whose userMessageId is the message we sent
  Requests,      \* runtime requests
  UserInputs,    \* those of kind user_input; the others are approvals
  RequestRun,    \* the run each request belongs to
  Opaque,        \* sequences of events this client cannot decode
  RunEnds,       \* the terminal statuses tried, among TerminalStatus
  InitialLogs,   \* the log when the watch is asked for
  MaxEvents,     \* bound: events in the log
  MaxSnapshots,  \* bound: snapshots the server sends
  Ends           \* the ways the watch may stop, among Endings

NoRun   == 0
Off     == -1   \* no afterSequence
Endings == {"finished", "connection", "rpc"}

RunStatus       == {"none", "queued", "running", "completed", "interrupted", "failed"}
TerminalStatus  == {"completed", "interrupted", "failed"}

ASSUME FeedAssumption ==
  /\ Runs \subseteq Nat \ {NoRun} /\ OurRuns \subseteq Runs
  /\ UserInputs \subseteq Requests /\ RequestRun \in [Requests -> Runs]
  /\ Opaque \subseteq Nat /\ Ends \subseteq Endings
  /\ RunEnds \subseteq TerminalStatus
  /\ MaxEvents \in Nat /\ MaxSnapshots \in Nat

VARIABLES
  log,   \* the server's events for the thread
  feed   \* the watch: its cursor, its tracker and the items it is to yield

-----------------------------------------------------------------------------
(* The thread *)

Event(type, id, status) == [type |-> type, id |-> id, status |-> status]

Events ==
  {Event("run", r, s) : r \in Runs, s \in RunStatus \ {"none"}}
  \cup {Event("message", r, "linked") : r \in Runs}
  \cup {Event("request", q, s) : q \in Requests, s \in {"pending", "resolved"}}
  \cup {Event("item", q, "known") : q \in Requests}

EmptyThread ==
  [runs |-> [r \in Runs |-> "none"], message |-> NoRun,
   requests |-> [q \in Requests |-> "none"], items |-> {}]

\* Every event carries the whole record it changed.
ApplyThreadEvent(p, e) ==
  CASE e.type = "run"     -> [p EXCEPT !.runs[e.id] = e.status]
    [] e.type = "message" -> [p EXCEPT !.message = e.id]
    [] e.type = "request" -> [p EXCEPT !.requests[e.id] = e.status]
    [] OTHER              -> [p EXCEPT !.items = @ \cup {e.id}]

\* Those of the first n events of l that are about one thing.
About(l, n, type, id) == {i \in 1..n : l[i].type = type /\ l[i].id = id}

\* What the last of them said of it.
StatusAt(l, n, type, id) ==
  LET about == About(l, n, type, id) IN IF about = {} THEN "none" ELSE l[Max(about)].status

\* The run that our message was linked to.
LinkAt(l, n) ==
  LET links == {i \in 1..n : l[i].type = "message"}
  IN IF links = {} THEN NoRun ELSE l[Max(links)].id

\* The thread after the first n events of l.
ThreadAt(l, n) ==
  [runs     |-> [r \in Runs |-> StatusAt(l, n, "run", r)],
   message  |-> LinkAt(l, n),
   requests |-> [q \in Requests |-> StatusAt(l, n, "request", q)],
   items    |-> {q \in Requests : StatusAt(l, n, "item", q) = "known"}]
Thread == ThreadAt(log, Len(log))

\* The runs that took our message: the run it started, or the run it was steered into.
Took(p) == {r \in OurRuns : p.runs[r] # "none"} \cup ({p.message} \ {NoRun})

Settled(p) == {r \in Runs : p.runs[r] \in TerminalStatus}

\* The server links our message to one run before that run ends.
MayFollow(p, e) ==
  CASE e.type = "run" ->
         /\ e.status \in CASE p.runs[e.id] = "none"    -> {"queued", "running"}
                           [] p.runs[e.id] = "queued"  -> {"running"}
                           [] p.runs[e.id] = "running" -> RunEnds
                           [] OTHER                    -> {}
         /\ (e.id \in OurRuns /\ p.runs[e.id] = "none") => Took(p) = {}
    [] e.type = "message" -> p.runs[e.id] = "running" /\ e.id \notin OurRuns /\ Took(p) = {}
    [] e.type = "request" ->
         IF e.status = "pending" THEN p.requests[e.id] = "none" /\ p.runs[RequestRun[e.id]] = "running"
                                 ELSE p.requests[e.id] = "pending"
    [] OTHER -> p.requests[e.id] # "none" /\ e.id \notin p.items

\* The logs that the server may have written.
Histories == {l \in Seq(Events) : \A i \in DOMAIN l : MayFollow(ThreadAt(l, i - 1), l[i])}

ASSUME LogsAssumption == \A l \in InitialLogs : l \in Histories /\ Len(l) <= MaxEvents

Emit ==
  /\ Len(log) < MaxEvents
  /\ \E e \in Events : MayFollow(Thread, e) /\ log' = Append(log, e)
  /\ UNCHANGED feed

-----------------------------------------------------------------------------
(* The watch *)

Item(kind, n) == [kind |-> kind, at |-> n]

NewFeed(cursor) ==
  [state |-> "idle", cursor |-> cursor, seeded |-> FALSE, projected |-> 0,
   settled |-> {}, out |-> <<>>, snapshots |-> 0]

\* The generator stands at a `yield`, or waits for a frame.
Waiting == feed.state = "open" /\ feed.out = <<>>

Seeded(n) ==
  [feed EXCEPT !.seeded = TRUE, !.projected = Max({@, n}),
               !.settled = @ \cup Settled(ThreadAt(log, n)), !.out = <<Item("snapshot", n)>>]

\* The server sends a snapshot: at the start, or on the socket that follows a drop.
FeedSnapshot ==
  /\ Waiting /\ feed.snapshots < MaxSnapshots
  /\ \E n \in Max({feed.cursor, feed.projected, 0})..Len(log) :
       feed' = [Seeded(n) EXCEPT !.cursor = n, !.snapshots = @ + 1]
  /\ UNCHANGED log

\* The server replays events instead, and snapshotLoader seeds the projection.
FeedLoads ==
  /\ Waiting /\ ~feed.seeded /\ feed.cursor # Off
  /\ \E n \in feed.cursor..Len(log) : feed' = Seeded(n)
  /\ UNCHANGED log

FeedEvent ==
  /\ Waiting /\ feed.seeded /\ feed.cursor < Len(log)
  /\ LET n       == feed.cursor + 1
         e       == log[n]
         applied == n > feed.projected /\ n \notin Opaque
         settles == applied /\ e.type = "run" /\ e.status \in TerminalStatus
                      /\ e.id \notin feed.settled
     IN feed' = [feed EXCEPT
          !.cursor    = n,
          !.projected = IF applied THEN n ELSE @,
          !.settled   = IF settles THEN @ \cup {e.id} ELSE @,
          !.out       = IF n \in Opaque THEN <<Item("decode-error", n)>>
                        ELSE IF settles THEN <<Item("event", n), Item("turn-settled", n)>>
                        ELSE <<Item("event", n)>>]
  /\ UNCHANGED log

\* The watch returns, or throws, once its consumer has what it yielded before.
FeedStops ==
  /\ feed.state = "open"
  /\ \E how \in Ends : feed' = [feed EXCEPT !.state = how]
  /\ UNCHANGED log

Feeds == FeedSnapshot \/ FeedLoads \/ FeedEvent

FeedTypeOK ==
  /\ Len(log) <= MaxEvents /\ \A n \in DOMAIN log : log[n] \in Events
  /\ feed.state \in {"idle", "open"} \cup Endings
  /\ feed.cursor \in {Off} \cup 0..Len(log)
  /\ feed.projected \in 0..Len(log) /\ feed.settled \subseteq Runs
  /\ Len(feed.out) <= 2 /\ \A i \in DOMAIN feed.out : feed.out[i].at \in 0..Len(log)
=============================================================================
