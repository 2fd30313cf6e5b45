----------------------------- MODULE RpcConnection -----------------------------
(***************************************************************************)
(* Request correlation and stream backpressure over the logical connection *)
(* (transport/rpcConnection.ts, with the push-to-pull channel of           *)
(* internal/asyncIterable.ts).  Each request is a call() or a stream()     *)
(* made once, with its own AbortSignal; its RequestId is the request       *)
(* itself.  The transport below is LogicalConnection, which                *)
(* SocketTransport is checked to implement; the server is modelled from    *)
(* what the client needs of it: it answers requests, sends a chunk only    *)
(* when the previous one is acknowledged, and stops on Interrupt.          *)
(*                                                                         *)
(* One action is one turn of the event loop.  A turn that resumes after    *)
(* `await connect()` is its own action, since calls of other requests,     *)
(* reconnect() or close() may run between the socket's opening and it.     *)
(*                                                                         *)
(* The values of a stream are 1, 2, 3, ... in the order the server         *)
(* produces them.  Frames of different requests are not ordered against    *)
(* each other, which allows more than one WebSocket does.                  *)
(***************************************************************************)
EXTENDS Integers, Sequences, FiniteSets

CONSTANTS
  Calls, Streams,   \* the requests, each made at most once
  HighWaterMark,    \* highWaterMark of the streams
  MaxChunk,         \* bound: values in one chunk
  MaxValues,        \* bound: values the server has for one stream
  MaxDrops,         \* bound: drops of an open socket
  MaxDefects        \* bound: Defect envelopes

ASSUME ConstantsAssumption ==
  /\ HighWaterMark \in Nat /\ MaxChunk \in Nat \ {0}
  /\ MaxValues \in Nat /\ MaxDrops \in Nat /\ MaxDefects \in Nat
  /\ Calls \cap Streams = {}

Requests == Calls \cup Streams

VARIABLES
  state, caller,  \* the transport: its state, and the connect() of each request
  entries,        \* #entries, the requests in flight
  resumed,        \* calls past their `await connect()`
  outcome,        \* how each call's promise settled
  aborted,        \* requests whose signal has fired
  listener,       \* streams with an abort listener on their signal
  consumer,       \* where the consumer of each stream stands
  buffer,         \* the channel's values not handed over yet
  terminal,       \* the channel's terminal, or "none"
  returned,       \* channels whose consumer returned early
  delivered,      \* the values handed to the consumer
  ackPending,     \* ackPending of the entry
  toServer,       \* envelopes under way to the server
  toClient,       \* envelopes under way to the client
  serving,        \* requests the server works on
  unacked,        \* requests whose last chunk the server has no Ack for
  produced,       \* values the server has sent
  drops, defects

link    == <<state, caller>>
channel == <<buffer, terminal, delivered>>
client  == <<entries, resumed, outcome, aborted, listener, consumer, channel, returned, ackPending>>
server  == <<serving, unacked, produced>>
wire    == <<toServer, toClient>>
vars    == <<link, client, wire, server, drops, defects>>

Link == INSTANCE LogicalConnection WITH Callers <- Requests

Request   == [type |-> "Request"]
Ack       == [type |-> "Ack"]
Interrupt == [type |-> "Interrupt"]
Chunk(vs) == [type |-> "Chunk", values |-> vs]
Exit(ok)  == [type |-> "Exit", ok |-> ok]

\* A stream's consumer has not begun, awaits connect(), holds a value it has yet
\* to ask beyond, has a pending next(), or is through.
ConsumerState == {"new", "starting", "ready", "pulling", "finished"}

Init ==
  /\ Link!Init
  /\ entries = {} /\ resumed = {} /\ outcome = [r \in Calls |-> "none"]
  /\ aborted = {} /\ listener = {}
  /\ consumer = [s \in Streams |-> "new"]
  /\ buffer = [s \in Streams |-> <<>>]
  /\ terminal = [s \in Streams |-> "none"]
  /\ delivered = [s \in Streams |-> <<>>]
  /\ returned = {} /\ ackPending = {}
  /\ toServer = [r \in Requests |-> <<>>] /\ toClient = [r \in Requests |-> <<>>]
  /\ serving = {} /\ unacked = {} /\ produced = [r \in Requests |-> 0]
  /\ drops = 0 /\ defects = 0

Post(queue, r, msgs) == [queue EXCEPT ![r] = @ \o msgs]

\* sendEnvelope, whose failure the callers below ignore: not open, nothing sent.
SendIfOpen(r, msgs) ==
  toServer' = IF state = "open" THEN Post(toServer, r, msgs) ELSE toServer

-----------------------------------------------------------------------------
(* The channel *)

\* end() and fail(): the first terminal wins, and a pending next() sees it at once.
Terminate(ss, kind) ==
  /\ terminal' = [s \in Streams |->
       IF s \in ss /\ terminal[s] = "none" THEN kind ELSE terminal[s]]
  /\ consumer' = [s \in Streams |->
       IF s \in ss /\ consumer[s] = "pulling" THEN "finished" ELSE consumer[s]]

\* Mutants: the value handed over is buffered too, or the rest of its chunk is lost.
Push_BuffersTaken(s, vs) ==
  IF terminal[s] # "none"
  THEN UNCHANGED <<buffer, delivered, consumer>>
  ELSE /\ buffer' = [buffer EXCEPT ![s] = @ \o vs]
       /\ delivered' = [delivered EXCEPT ![s] = IF consumer[s] = "pulling" THEN Append(@, vs[1]) ELSE @]
       /\ consumer' = [consumer EXCEPT ![s] = "ready"]
Push_LosesTheRest(s, vs) ==
  IF consumer[s] = "pulling"
  THEN /\ delivered' = [delivered EXCEPT ![s] = Append(@, vs[1])]
       /\ consumer' = [consumer EXCEPT ![s] = "ready"]
       /\ UNCHANGED buffer
  ELSE /\ buffer' = [buffer EXCEPT ![s] = IF terminal[s] = "none" THEN @ \o vs ELSE @]
       /\ UNCHANGED <<delivered, consumer>>

\* push() of a whole chunk: a pending next() takes the first value.
Push(s, vs) ==
  LET taken == IF consumer[s] = "pulling" /\ vs # <<>> THEN 1 ELSE 0
  IN IF terminal[s] # "none"
     THEN UNCHANGED <<buffer, delivered, consumer>>
     ELSE /\ buffer' = [buffer EXCEPT ![s] = @ \o SubSeq(vs, taken + 1, Len(vs))]
          /\ delivered' = [delivered EXCEPT ![s] = @ \o SubSeq(vs, 1, taken)]
          /\ consumer' = [consumer EXCEPT ![s] = IF taken = 1 THEN "ready" ELSE @]

\* Mutants: an Ack is sent again, one value late, or at once.
MayAck_Again(s, pending, remaining) == s \in entries /\ remaining <= HighWaterMark
MayAck_BelowTheMark(s, pending, remaining) ==
  s \in entries /\ pending /\ remaining < HighWaterMark
MayAck_AtOnce(s, pending, remaining) == s \in entries /\ pending

\* #maybeAck, for a stream whose buffer now holds `remaining` values.
MayAck(s, pending, remaining) ==
  s \in entries /\ pending /\ remaining <= HighWaterMark

-----------------------------------------------------------------------------
(* Settling requests *)

\* Mutant: failing a stream leaves its abort listener behind.
FailRequests_KeepsListener(rs) ==
  /\ entries' = entries \ rs
  /\ outcome' = [r \in Calls |-> IF r \in rs THEN "failed" ELSE outcome[r]]
  /\ ackPending' = ackPending \ rs
  /\ Terminate(rs \cap Streams, "fail")
  /\ UNCHANGED listener

\* #settleWithError for every request of rs.
FailRequests(rs) ==
  /\ entries' = entries \ rs
  /\ outcome' = [r \in Calls |-> IF r \in rs THEN "failed" ELSE outcome[r]]
  /\ listener' = listener \ rs
  /\ ackPending' = ackPending \ rs
  /\ Terminate(rs \cap Streams, "fail")

\* Mutant: a drop fails the calls only.
FailAll_CallsOnly == FailRequests(entries \cap Calls)

FailAll == FailRequests(entries)

\* The connect() of r: the transport's answer is only seen by a later turn.
BeginConnect(r) == Link!Ask(r) \/ Link!Answer(r)

StartCall(r) ==
  /\ caller[r] = "none" /\ outcome[r] = "none"
  /\ BeginConnect(r)
  /\ UNCHANGED <<client, wire, server, drops, defects>>

\* An abort seen by call() before connect(), while it waits, or in flight.
AbortCall(r) ==
  /\ outcome[r] = "none" /\ r \notin aborted
  /\ aborted' = aborted \cup {r}
  /\ \/ /\ caller[r] \in {"none", "waiting"}
        /\ caller' = [caller EXCEPT ![r] = IF @ = "waiting" THEN "aborted" ELSE @]
        /\ outcome' = [outcome EXCEPT ![r] = "interrupted"]
        /\ UNCHANGED <<state, entries, toServer>>
     \/ /\ r \in entries
        /\ entries' = entries \ {r}
        /\ outcome' = [outcome EXCEPT ![r] = "interrupted"]
        /\ SendIfOpen(r, <<Interrupt>>)
        /\ UNCHANGED link
     \/ /\ r \notin resumed /\ caller[r] \in {"resolved", "rejected"}
        /\ UNCHANGED <<link, entries, outcome, toServer>>
  /\ UNCHANGED <<resumed, listener, consumer, channel, returned, ackPending, toClient, server,
                 drops, defects>>

\* call() after `await connect()`.  An abort in between is only seen after #send, but then it
\* decides: it also takes the place of #send's own failure on a socket no longer open.
ContinueCall(r) ==
  /\ outcome[r] = "none" /\ r \notin resumed
  /\ resumed' = resumed \cup {r}
  /\ \/ /\ caller[r] = "resolved" /\ state = "open" /\ r \notin aborted
        /\ entries' = entries \cup {r}
        /\ toServer' = Post(toServer, r, <<Request>>)
        /\ UNCHANGED outcome
     \/ /\ caller[r] = "resolved" /\ r \in aborted
        /\ outcome' = [outcome EXCEPT ![r] = "interrupted"]
        /\ SendIfOpen(r, <<Request, Interrupt>>)
        /\ UNCHANGED entries
     \/ /\ \/ caller[r] = "rejected"
           \/ caller[r] = "resolved" /\ state # "open" /\ r \notin aborted
        /\ outcome' = [outcome EXCEPT ![r] = "failed"]
        /\ UNCHANGED <<entries, toServer>>
  /\ UNCHANGED <<link, aborted, listener, consumer, channel, returned, ackPending, toClient,
                 server, drops, defects>>

-----------------------------------------------------------------------------
(* Streams *)

\* The first next(): start() listens for an abort and awaits connect().
StartStream(s) ==
  /\ consumer[s] = "new"
  /\ \/ /\ s \notin aborted
        /\ BeginConnect(s)
        /\ listener' = listener \cup {s}
        /\ consumer' = [consumer EXCEPT ![s] = "starting"]
        /\ UNCHANGED terminal
     \/ /\ s \in aborted
        /\ terminal' = [terminal EXCEPT ![s] = "fail"]
        /\ consumer' = [consumer EXCEPT ![s] = "finished"]
        /\ UNCHANGED <<link, listener>>
  /\ UNCHANGED <<entries, resumed, outcome, aborted, buffer, delivered, returned, ackPending, wire,
                 server, drops, defects>>

\* start() after `await connect()`, and the next() that awaited it.
ContinueStream(s) ==
  /\ consumer[s] = "starting" /\ caller[s] \notin {"none", "waiting"}
  /\ IF caller[s] = "resolved" /\ terminal[s] = "none" /\ state = "open"
     THEN /\ entries' = entries \cup {s}
          /\ toServer' = Post(toServer, s, <<Request>>)
          /\ consumer' = [consumer EXCEPT ![s] = "pulling"]
          /\ UNCHANGED <<terminal, listener>>
     ELSE /\ terminal' = [terminal EXCEPT ![s] = IF @ = "none" THEN "fail" ELSE @]
          /\ consumer' = [consumer EXCEPT ![s] = "finished"]
          /\ listener' = listener \ {s}
          /\ UNCHANGED <<entries, toServer>>
  /\ UNCHANGED <<link, resumed, outcome, aborted, buffer, delivered, returned, ackPending, toClient,
                 server, drops, defects>>

\* next() with a value buffered hands it over and may acknowledge its chunk.
Next_Buffered(s) ==
  /\ consumer[s] = "ready" /\ buffer[s] # <<>>
  /\ buffer' = [buffer EXCEPT ![s] = Tail(@)]
  /\ delivered' = [delivered EXCEPT ![s] = Append(@, Head(buffer[s]))]
  /\ IF MayAck(s, s \in ackPending, Len(buffer[s]) - 1)
     THEN SendIfOpen(s, <<Ack>>) /\ ackPending' = ackPending \ {s}
     ELSE UNCHANGED <<toServer, ackPending>>
  /\ UNCHANGED <<link, entries, resumed, outcome, aborted, listener, consumer, terminal, returned,
                 toClient, server, drops, defects>>

\* next() on an empty buffer waits, or reports the terminal.
Next_Empty(s) ==
  /\ consumer[s] = "ready" /\ buffer[s] = <<>>
  /\ consumer' = [consumer EXCEPT ![s] = IF terminal[s] = "none" THEN "pulling" ELSE "finished"]
  /\ UNCHANGED <<link, entries, resumed, outcome, aborted, listener, channel, returned, ackPending,
                 wire, server, drops, defects>>

\* Mutant: a consumer that leaves does not interrupt the server.
Return_Quietly(s) ==
  /\ consumer[s] # "finished"
  /\ consumer' = [consumer EXCEPT ![s] = "finished"]
  /\ buffer' = [buffer EXCEPT ![s] = <<>>]
  /\ terminal' = [terminal EXCEPT ![s] = IF @ = "none" THEN "end" ELSE @]
  /\ listener' = listener \ {s} /\ entries' = entries \ {s} /\ ackPending' = ackPending \ {s}
  /\ returned' = returned \cup {s}
  /\ UNCHANGED <<link, resumed, outcome, aborted, delivered, wire, server, drops, defects>>

\* Mutant: leaving a stream overwrites the error it had failed with.
Return_OverwritesTerminal(s) ==
  /\ consumer[s] # "finished"
  /\ consumer' = [consumer EXCEPT ![s] = "finished"]
  /\ buffer' = [buffer EXCEPT ![s] = <<>>]
  /\ terminal' = [terminal EXCEPT ![s] = "end"]
  /\ listener' = listener \ {s} /\ entries' = entries \ {s} /\ ackPending' = ackPending \ {s}
  /\ IF s \in entries THEN SendIfOpen(s, <<Interrupt>>) ELSE UNCHANGED toServer
  /\ returned' = returned \cup {s}
  /\ UNCHANGED <<link, resumed, outcome, aborted, delivered, toClient, server, drops, defects>>

\* return(): the consumer leaves; a stream in flight is interrupted.
Return(s) ==
  /\ consumer[s] # "finished"
  /\ consumer' = [consumer EXCEPT ![s] = "finished"]
  /\ buffer' = [buffer EXCEPT ![s] = <<>>]
  /\ terminal' = [terminal EXCEPT ![s] = IF @ = "none" THEN "end" ELSE @]
  /\ listener' = listener \ {s} /\ entries' = entries \ {s} /\ ackPending' = ackPending \ {s}
  /\ IF s \in entries THEN SendIfOpen(s, <<Interrupt>>) ELSE UNCHANGED toServer
  /\ returned' = returned \cup {s}
  /\ UNCHANGED <<link, resumed, outcome, aborted, delivered, toClient, server, drops, defects>>

\* The signal of a stream fires: #interrupt, then channel.fail; connect() withdraws.
AbortStream(s) ==
  /\ s \notin aborted /\ consumer[s] # "finished"
  /\ aborted' = aborted \cup {s}
  /\ IF s \in listener
     THEN /\ Terminate({s}, "fail")
          /\ listener' = listener \ {s} /\ entries' = entries \ {s}
          /\ ackPending' = ackPending \ {s}
          /\ IF s \in entries THEN SendIfOpen(s, <<Interrupt>>) ELSE UNCHANGED toServer
          /\ caller' = [caller EXCEPT ![s] = IF @ = "waiting" THEN "aborted" ELSE @]
     ELSE UNCHANGED <<terminal, consumer, listener, entries, ackPending, toServer, caller>>
  /\ UNCHANGED <<state, resumed, outcome, buffer, delivered, returned, toClient, server, drops,
                 defects>>

-----------------------------------------------------------------------------
(* Envelopes from the server *)

\* Mutant: the Ack of a call's chunk is held back like a stream's.
OnChunk_HoldsCallAck(r, vs) ==
  /\ r \in entries \cap Calls
  /\ ackPending' = ackPending \cup {r}
  /\ UNCHANGED <<entries, resumed, outcome, aborted, listener, consumer, channel, returned,
                 toServer>>

OnChunk(r, vs) ==
  \/ r \notin entries /\ UNCHANGED <<client, toServer>>
  \/ /\ r \in entries \cap Calls
     /\ toServer' = Post(toServer, r, <<Ack>>)
     /\ UNCHANGED client
  \/ /\ r \in entries \cap Streams
     /\ Push(r, vs)
     /\ IF MayAck(r, TRUE, Len(buffer'[r]))
        THEN toServer' = Post(toServer, r, <<Ack>>) /\ ackPending' = ackPending \ {r}
        ELSE ackPending' = ackPending \cup {r} /\ UNCHANGED toServer
     /\ UNCHANGED <<entries, resumed, outcome, aborted, listener, terminal, returned>>

\* Mutant: the Exit of a call is dropped after its entry.
OnExit_ForgetsCalls(r, ok) ==
  /\ entries' = entries \ {r}
  /\ listener' = listener \ {r} /\ ackPending' = ackPending \ {r}
  /\ Terminate({r} \cap Streams, IF ok THEN "end" ELSE "fail")
  /\ UNCHANGED <<resumed, outcome, aborted, buffer, delivered, returned>>

OnExit(r, ok) ==
  \/ r \notin entries /\ UNCHANGED client
  \/ /\ r \in entries
     /\ entries' = entries \ {r}
     /\ outcome' = [c \in Calls |-> IF c # r THEN outcome[c]
                                    ELSE IF ok THEN "success" ELSE "failed"]
     /\ listener' = listener \ {r} /\ ackPending' = ackPending \ {r}
     /\ Terminate({r} \cap Streams, IF ok THEN "end" ELSE "fail")
     /\ UNCHANGED <<resumed, aborted, buffer, delivered, returned>>

OnEnvelope(r) ==
  /\ toClient[r] # <<>>
  /\ toClient' = [toClient EXCEPT ![r] = Tail(@)]
  /\ LET e == Head(toClient[r])
     IN \/ e.type = "Chunk" /\ OnChunk(r, e.values)
        \/ e.type = "Exit" /\ OnExit(r, e.ok) /\ UNCHANGED toServer
  /\ UNCHANGED <<link, server, drops, defects>>

\* A Defect fails everything in flight; the socket stays.
OnDefect ==
  /\ defects < MaxDefects /\ defects' = defects + 1
  /\ state = "open"
  /\ FailAll
  /\ UNCHANGED <<link, resumed, aborted, buffer, delivered, returned, wire, server, drops>>

-----------------------------------------------------------------------------
(* The transport below *)

LinkOpens == Link!Establish /\ UNCHANGED <<client, wire, server, drops, defects>>

\* With the socket goes what was under way on it, and the server's work for it.
LoseSocket ==
  /\ toServer' = [r \in Requests |-> <<>>] /\ toClient' = [r \in Requests |-> <<>>]
  /\ serving' = {} /\ unacked' = {}
  /\ UNCHANGED produced

LinkDrops ==
  /\ drops < MaxDrops /\ drops' = drops + 1
  /\ Link!Lose
  /\ FailAll
  /\ LoseSocket
  /\ UNCHANGED <<resumed, aborted, buffer, delivered, returned, defects>>

\* close(), or a refusal of the credential.
LinkEnds ==
  /\ Link!GiveUp
  /\ FailAll
  /\ LoseSocket
  /\ UNCHANGED <<resumed, aborted, buffer, delivered, returned, drops, defects>>

-----------------------------------------------------------------------------
(* The server *)

ServerReceives(r) ==
  /\ toServer[r] # <<>>
  /\ toServer' = [toServer EXCEPT ![r] = Tail(@)]
  /\ LET e == Head(toServer[r])
     IN \/ /\ e.type = "Request"
           /\ serving' = serving \cup {r}
           /\ UNCHANGED <<unacked, toClient>>
        \/ /\ e.type = "Ack"
           /\ unacked' = unacked \ {r}
           /\ UNCHANGED <<serving, toClient>>
        \/ /\ e.type = "Interrupt"
           /\ serving' = serving \ {r} /\ unacked' = unacked \ {r}
           /\ toClient' = IF r \in serving THEN Post(toClient, r, <<Exit(FALSE)>>) ELSE toClient
  /\ UNCHANGED <<link, client, produced, drops, defects>>

ServerSendsChunk(r) ==
  /\ r \in serving \ unacked
  /\ \E n \in 1 .. MaxChunk :
       /\ produced[r] + n <= MaxValues
       /\ toClient' = Post(toClient, r, <<Chunk([i \in 1 .. n |-> produced[r] + i])>>)
       /\ produced' = [produced EXCEPT ![r] = @ + n]
  /\ unacked' = unacked \cup {r}
  /\ UNCHANGED <<link, client, toServer, serving, drops, defects>>

\* Success once everything is sent and acknowledged; a failure at any time.
ServerExits(r) ==
  /\ r \in serving
  /\ \E ok \in BOOLEAN :
       /\ ok => r \notin unacked
       /\ toClient' = Post(toClient, r, <<Exit(ok)>>)
  /\ serving' = serving \ {r} /\ unacked' = unacked \ {r}
  /\ UNCHANGED <<link, client, toServer, produced, drops, defects>>

-----------------------------------------------------------------------------
User == \/ \E r \in Calls : StartCall(r) \/ AbortCall(r)
        \/ \E s \in Streams : StartStream(s) \/ Return(s) \/ AbortStream(s)

Consume == \E s \in Streams : Next_Buffered(s) \/ Next_Empty(s)

Continue == \/ \E r \in Calls : ContinueCall(r)
            \/ \E s \in Streams : ContinueStream(s)

Receive == \E r \in Requests : OnEnvelope(r)

Transport == LinkOpens \/ LinkDrops \/ LinkEnds

Server == \E r \in Requests : ServerReceives(r) \/ ServerSendsChunk(r) \/ ServerExits(r)

Next == User \/ Consume \/ Continue \/ Receive \/ OnDefect \/ Transport \/ Server

Spec == Init /\ [][Next]_vars

\* The event loop resumes what can be resumed, envelopes arrive, the transport
\* reconnects (ConnectSettles of SocketTransport) and the server answers; a
\* consumer that has begun keeps asking.
Fairness ==
  /\ \A s \in Streams : WF_vars(Next_Buffered(s) \/ Next_Empty(s)) /\ WF_vars(ContinueStream(s))
  /\ \A r \in Calls : WF_vars(ContinueCall(r))
  /\ \A r \in Requests : /\ WF_vars(OnEnvelope(r))
                         /\ WF_vars(ServerReceives(r))
                         /\ WF_vars(ServerSendsChunk(r))
                         /\ WF_vars(r \notin unacked /\ produced[r] = MaxValues /\ ServerExits(r))
  /\ WF_vars(LinkOpens)

FairSpec == Spec /\ Fairness

-----------------------------------------------------------------------------
(* Properties *)

Envelopes(queue, type) == {i \in DOMAIN queue : queue[i].type = type}
UpTo(n) == [i \in 1 .. n |-> i]

\* The values each variable ranges over.
TypeOK ==
  /\ state \in {"idle", "connecting", "open", "closed"}
  /\ caller \in [Requests -> {"none", "waiting", "resolved", "rejected", "aborted"}]
  /\ entries \subseteq Requests /\ aborted \subseteq Requests
  /\ listener \subseteq Streams /\ ackPending \subseteq Streams
  /\ resumed \subseteq Calls /\ returned \subseteq Streams
  /\ outcome \in [Calls -> {"none", "success", "failed", "interrupted"}]
  /\ consumer \in [Streams -> ConsumerState]
  /\ terminal \in [Streams -> {"none", "end", "fail"}]
  /\ buffer \in [Streams -> Seq(1 .. MaxValues)]
  /\ delivered \in [Streams -> Seq(1 .. MaxValues)]
  /\ serving \subseteq Requests /\ unacked \subseteq serving
  /\ produced \in [Requests -> 0 .. MaxValues]
  /\ drops \in 0 .. MaxDrops /\ defects \in 0 .. MaxDefects

\* A request is in flight only on an open socket, and is settled by leaving:
\* a drop, a Defect, an Exit, an abort and an early return each settle exactly
\* the requests they remove (rpcConnection.ts:66-73, 183-207, 258-289).
InFlightIsUnsettled ==
  /\ entries # {} => state = "open"
  /\ \A r \in Calls : r \in entries <=> r \in resumed /\ outcome[r] = "none"
  /\ \A s \in Streams :
       /\ s \in entries => terminal[s] = "none"
       /\ consumer[s] = "pulling" => s \in entries

\* What the consumer got and what waits for it is an initial part of what the
\* server sent, in order and without a gap (asyncIterable.ts:43-69).
ValuesInOrder ==
  \A s \in Streams :
    LET got == delivered[s] \o buffer[s]
    IN got = UpTo(Len(got)) /\ Len(got) <= produced[s]

\* A stream that ended, and was not left, has handed over or still holds every value.
CompleteAtEnd ==
  \A s \in Streams \ returned :
    terminal[s] = "end" => Len(delivered[s]) + Len(buffer[s]) = produced[s]

\* The server is never left waiting for an acknowledgement the client forgot,
\* nor given one twice: while a request is served on this socket, an unacknowledged
\* chunk is under way, held back, or its Ack is under way (209-219, 242-256).
AckConservation ==
  \A r \in entries \cap serving :
    Cardinality(Envelopes(toClient[r], "Chunk")) + Cardinality(Envelopes(toServer[r], "Ack"))
      + (IF r \in ackPending THEN 1 ELSE 0)
    = IF r \in unacked THEN 1 ELSE 0

\* An Ack is held back exactly while there is more than the mark to consume: the server
\* is not asked for more before, and a consumer that keeps asking always releases it.
AckHeldForBacklog ==
  /\ ackPending \subseteq entries
  /\ \A s \in Streams \cap entries : s \in ackPending <=> Len(buffer[s]) > HighWaterMark

\* The abort listener lives exactly as long as the stream can be aborted (48, 128-133).
ListenerReleased ==
  \A s \in Streams : s \in listener => consumer[s] = "starting" \/ s \in entries

\* A request leaves no trace once it is settled: no entry an envelope could still reach
\* and no abort listener, and no acknowledgement for what is not a stream.
SettledIsClean == TypeOK /\ InFlightIsUnsettled /\ ListenerReleased

\* A stream hands over what the server sent, no more and no less, in order.
StreamFaithful == ValuesInOrder /\ CompleteAtEnd

\* Flow control neither stalls the server nor lets the channel grow: the buffer never holds
\* more than the mark and one chunk.
FlowControlled == AckConservation /\ AckHeldForBacklog

\* Once settled a call stays as it settled, and a channel's first terminal stays.
SettledForGood ==
  [][/\ \A r \in Calls : outcome[r] # "none" => outcome'[r] = outcome[r]
     /\ \A s \in Streams : terminal[s] # "none" => terminal'[s] = terminal[s]]_vars

\* A request the consumer left or aborted stops at the server too, unless a Defect
\* settled it: what a server does after one is its own affair.
AbandonedWorkStops ==
  \A r \in Requests : (r \in serving /\ r \notin entries) ~> (r \notin serving \/ defects > 0)

\* A call settles, unless the socket never comes up.
CallSettles == \A r \in Calls : (r \in entries) ~> (outcome[r] # "none")

\* A consumer that keeps asking reaches the stream's end: no Ack is missing that
\* the server waits for, no drop leaves next() pending.
StreamDrains == \A s \in Streams : (consumer[s] # "new") ~> (consumer[s] = "finished")

\* What was begun ends, on both sides.
WorkEnds == CallSettles /\ StreamDrains /\ AbandonedWorkStops

\* A stream hands over what the server sent, and its flow control neither stalls the server
\* nor lets the backlog grow.
StreamCorrect == StreamFaithful /\ FlowControlled

\* What was begun ends, and ends once.
SettlesOnce == SettledForGood /\ WorkEnds
=============================================================================
