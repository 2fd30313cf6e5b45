-------------------------------- MODULE RpcProofs --------------------------------
(***************************************************************************)
(* Theorems about RpcConnection, for every set of requests, every mark,    *)
(* chunk size and bound.  RequestsInv says where a request stands, WireInv *)
(* what the queues hold; FlowInv, proved from both, follows one request in *)
(* flight from its envelope to its answer.                                 *)
(***************************************************************************)
EXTENDS RpcConnection, SequenceTheorems, FiniteSetTheorems, TLAPS

Values == 1 .. MaxValues
Replies == [type : {"Chunk"}, values : Seq(Values)] \cup [type : {"Exit"}, ok : BOOLEAN]

Sendings == {Request, Ack, Interrupt}

\* A call is in flight from its `await connect()` until it settles.
CallInv(r) ==
  /\ r \in entries <=> r \in resumed /\ outcome[r] = "none"
  /\ r \in resumed => caller[r] \in {"resolved", "rejected"}

\* A stream is in flight from its `await connect()` until its channel is terminated, and a
\* terminated channel keeps nobody waiting.
StreamInv(s) ==
  /\ s \in entries <=> terminal[s] = "none" /\ consumer[s] \in {"ready", "pulling"}
  /\ consumer[s] \in {"new", "pulling"} => terminal[s] = "none"
  /\ s \in listener => consumer[s] = "starting" \/ s \in entries

SettledInv ==
  /\ entries # {} => state = "open"
  /\ \A r \in Calls : CallInv(r)
  /\ \A s \in Streams : StreamInv(s)

\* The requests and the transport; the channels and the wire.
RequestsType ==
  /\ state \in {"idle", "connecting", "open", "closed"}
  /\ caller \in [Requests -> {"none", "waiting", "resolved", "rejected", "aborted"}]
  /\ entries \subseteq Requests /\ aborted \subseteq Requests
  /\ listener \subseteq Streams /\ ackPending \subseteq Streams
  /\ resumed \subseteq Calls /\ returned \subseteq Streams
  /\ outcome \in [Calls -> {"none", "success", "failed", "interrupted"}]
  /\ consumer \in [Streams -> ConsumerState]
  /\ terminal \in [Streams -> {"none", "end", "fail"}]

ServerType ==
  /\ toClient \in [Requests -> Seq(Replies)]
  /\ toServer \in [Requests -> Seq(Sendings)]
  /\ serving \subseteq Requests /\ unacked \subseteq serving
  /\ produced \in [Requests -> 0 .. MaxValues]
  /\ drops \in 0 .. MaxDrops /\ defects \in 0 .. MaxDefects

ChannelType ==
  /\ buffer \in [Streams -> Seq(Values)]
  /\ delivered \in [Streams -> Seq(Values)]

LEMMA Parts == TypeOK <=> RequestsType /\ ChannelType
                 /\ serving \subseteq Requests /\ unacked \subseteq serving
                 /\ produced \in [Requests -> 0 .. MaxValues]
                 /\ drops \in 0 .. MaxDrops /\ defects \in 0 .. MaxDefects
BY DEF TypeOK, RequestsType, ChannelType, Values

LEMMA Apart == Calls \cap Streams = {} /\ Requests = Calls \cup Streams
BY ConstantsAssumption DEF Requests

-----------------------------------------------------------------------------
(* Requests and the transport *)

\* Whatever is settled with an error leaves, and takes its listener and its Ack along.
LEMMA FailLeaves ==
  ASSUME RequestsType, SettledInv, FailAll, UNCHANGED resumed
  PROVE  /\ entries' = {} /\ listener' \subseteq Streams /\ ackPending' = {} \cup (ackPending \ entries)
         /\ outcome' \in [Calls -> {"none", "success", "failed", "interrupted"}]
         /\ consumer' \in [Streams -> ConsumerState]
         /\ terminal' \in [Streams -> {"none", "end", "fail"}]
         /\ \A r \in Calls : r \in resumed' => outcome'[r] # "none"
         /\ \A s \in Streams : StreamInv(s)'
<1> USE Apart DEF FailAll, FailRequests, RequestsType
<1>1. /\ entries' = {} /\ listener' \subseteq Streams /\ ackPending' = ackPending \ entries
      /\ outcome' \in [Calls -> {"none", "success", "failed", "interrupted"}]
  OBVIOUS
<1>2. /\ consumer' \in [Streams -> ConsumerState]
      /\ terminal' \in [Streams -> {"none", "end", "fail"}]
  BY DEF Terminate, ConsumerState
<1>3. \A r \in Calls : r \in resumed' => outcome'[r] # "none"
  BY DEF SettledInv, CallInv
<1>4. ASSUME NEW s \in Streams PROVE StreamInv(s)'
  BY <1>1 DEF Terminate, SettledInv, StreamInv
<1> QED
  BY <1>1, <1>2, <1>3, <1>4

RequestsInv == RequestsType /\ SettledInv

LEMMA LinkSteps ==
  ASSUME RequestsInv, LinkOpens \/ LinkDrops \/ LinkEnds \/ OnDefect
  PROVE  RequestsInv'
<1> USE DEF RequestsInv
<1>1. CASE LinkOpens
  BY <1>1 DEF LinkOpens, client, channel, Link!Establish, Link!SettleAll, Link!Waiting,
              RequestsType, SettledInv, CallInv, StreamInv, Requests
<1>2. CASE LinkDrops \/ LinkEnds \/ OnDefect
  <2>1. FailAll /\ UNCHANGED <<resumed, aborted, returned>>
    BY <1>2 DEF LinkDrops, LinkEnds, OnDefect
  <2>2. /\ state' \in {"idle", "connecting", "open", "closed"}
        /\ caller' \in [Requests -> {"none", "waiting", "resolved", "rejected", "aborted"}]
        /\ \A r \in Calls : r \in resumed => caller'[r] \in {"resolved", "rejected"}
    BY <1>2 DEF LinkDrops, LinkEnds, OnDefect, link, Link!Lose, Link!GiveUp, Link!SettleAll,
                Link!Waiting, RequestsType, SettledInv, CallInv, Requests
  <2>3. /\ entries' = {} /\ listener' \subseteq Streams /\ ackPending' = ackPending \ entries
        /\ outcome' \in [Calls -> {"none", "success", "failed", "interrupted"}]
        /\ consumer' \in [Streams -> ConsumerState]
        /\ terminal' \in [Streams -> {"none", "end", "fail"}]
        /\ \A r \in Calls : r \in resumed' => outcome'[r] # "none"
        /\ \A s \in Streams : StreamInv(s)'
    BY <2>1, FailLeaves
  <2>4. RequestsType'
    BY <2>1, <2>2, <2>3 DEF RequestsType
  <2>5. SettledInv'
    BY <2>1, <2>2, <2>3 DEF SettledInv, CallInv
  <2> QED
    BY <2>4, <2>5
<1> QED
  BY <1>1, <1>2

LEMMA CallSteps ==
  ASSUME RequestsInv, NEW r \in Calls, StartCall(r) \/ AbortCall(r) \/ ContinueCall(r)
  PROVE  RequestsInv'
<1> USE Apart DEF RequestsInv, RequestsType, SettledInv, link
<1>1. CASE StartCall(r)
  BY <1>1 DEF StartCall, BeginConnect, Link!Ask, Link!Answer, client, channel, CallInv, StreamInv
<1>2. CASE AbortCall(r)
  <2>1. UNCHANGED <<resumed, listener, consumer, terminal, returned, ackPending>>
    BY <1>2 DEF AbortCall, channel
  <2>2. RequestsType'
    BY <1>2, <2>1 DEF AbortCall
  <2>3. (entries' # {} => state' = "open") /\ \A s \in Streams : StreamInv(s)'
    BY <1>2, <2>1 DEF AbortCall, StreamInv
  <2>4. \A c \in Calls : CallInv(c)'
    BY <1>2, <2>1 DEF AbortCall, CallInv
  <2> QED
    BY <2>2, <2>3, <2>4
<1>3. CASE ContinueCall(r)
  <2>1. UNCHANGED <<state, caller, listener, consumer, terminal, returned, ackPending, aborted>>
    BY <1>3 DEF ContinueCall, channel
  <2>2. RequestsType'
    BY <1>3, <2>1 DEF ContinueCall
  <2>3. (entries' # {} => state' = "open") /\ \A s \in Streams : StreamInv(s)'
    BY <1>3, <2>1 DEF ContinueCall, StreamInv
  <2>4. \A c \in Calls : CallInv(c)'
    BY <1>3, <2>1 DEF ContinueCall, CallInv
  <2> QED
    BY <2>2, <2>3, <2>4
<1> QED
  BY <1>1, <1>2, <1>3

LEMMA StreamSteps ==
  ASSUME RequestsInv, NEW s \in Streams,
         StartStream(s) \/ ContinueStream(s) \/ Next_Buffered(s) \/ Next_Empty(s)
           \/ Return(s) \/ AbortStream(s)
  PROVE  RequestsInv'
<1> USE Apart DEF RequestsInv, RequestsType, SettledInv, link, channel
<1>1. CASE StartStream(s)
  BY <1>1 DEF StartStream, BeginConnect, Link!Ask, Link!Answer, CallInv, StreamInv, ConsumerState
<1>2. CASE ContinueStream(s)
  BY <1>2 DEF ContinueStream, CallInv, StreamInv, ConsumerState
<1>3. CASE Next_Buffered(s)
  BY <1>3 DEF Next_Buffered, CallInv, StreamInv
<1>4. CASE Next_Empty(s)
  BY <1>4 DEF Next_Empty, CallInv, StreamInv, ConsumerState
<1>5. CASE Return(s)
  BY <1>5 DEF Return, CallInv, StreamInv, ConsumerState
<1>6. CASE AbortStream(s)
  BY <1>6 DEF AbortStream, Terminate, CallInv, StreamInv, ConsumerState
<1> QED
  BY <1>1, <1>2, <1>3, <1>4, <1>5, <1>6

LEMMA EnvelopeSteps ==
  ASSUME RequestsInv, NEW r \in Requests, OnEnvelope(r)
  PROVE  RequestsInv'
<1> USE Apart DEF RequestsInv, RequestsType, SettledInv, channel
<1>0. \/ OnChunk(r, Head(toClient[r]).values)
      \/ OnExit(r, Head(toClient[r]).ok)
  <2> HIDE DEF RequestsInv
  <2> QED
    BY ZenonT(20) DEF OnEnvelope
<1>1. CASE OnChunk(r, Head(toClient[r]).values)
  <2>1. UNCHANGED <<state, caller, entries, resumed, outcome, aborted, listener, terminal, returned>>
    BY <1>1 DEF OnChunk, OnEnvelope, client, link
  <2>2. ackPending' \subseteq Streams
    BY <1>1 DEF OnChunk, client
  <2>3. /\ consumer' \in [Streams -> ConsumerState]
        /\ \A t \in Streams : \/ consumer'[t] = consumer[t]
                              \/ consumer[t] = "pulling" /\ consumer'[t] = "ready"
    <3>1. CASE UNCHANGED client
      BY <3>1 DEF client
    <3>2. CASE r \in Streams /\ Push(r, Head(toClient[r]).values)
      <4>1. \/ UNCHANGED consumer
            \/ consumer' = [consumer EXCEPT ![r] = "ready"] /\ consumer[r] = "pulling"
            \/ consumer' = [consumer EXCEPT ![r] = consumer[r]]
        <5>1. CASE terminal[r] # "none"
          BY <3>2, <5>1 DEF Push
        <5>2. CASE terminal[r] = "none"
          <6>1. consumer' = [consumer EXCEPT ![r] =
                  IF consumer[r] = "pulling" /\ Head(toClient[r]).values # <<>> THEN "ready" ELSE consumer[r]]
            <7> HIDE DEF RequestsInv, RequestsType, SettledInv
            <7> QED
              BY <3>2, <5>2, 0 # 1, ZenonT(20) DEF Push
          <6> QED
            BY <6>1
        <5> QED
          BY <5>1, <5>2
      <4> QED
        BY <3>2, <4>1 DEF ConsumerState
    <3> QED
      BY <1>1, <3>1, <3>2 DEF OnChunk
  <2> QED
    BY <2>1, <2>2, <2>3 DEF CallInv, StreamInv, OnEnvelope, link
<1>2. CASE OnExit(r, Head(toClient[r]).ok)
  <2>0. UNCHANGED <<state, caller>>
    BY DEF OnEnvelope, link
  <2>1. CASE UNCHANGED client
    BY <2>0, <2>1 DEF client, CallInv, StreamInv
  <2>2. CASE r \in entries /\ ~UNCHANGED client
    <3>1. RequestsType'
      BY <1>2, <2>0, <2>2 DEF OnExit, Terminate, ConsumerState
    <3>2. (entries' # {} => state' = "open") /\ \A c \in Calls : CallInv(c)'
      BY <1>2, <2>0, <2>2 DEF OnExit, CallInv
    <3>3. \A t \in Streams : StreamInv(t)'
      BY <1>2, <2>0, <2>2 DEF OnExit, Terminate, StreamInv
    <3> QED
      BY <3>1, <3>2, <3>3
  <2> QED
    BY <1>2, <2>1, <2>2 DEF OnExit
<1> QED
  BY <1>0, <1>1, <1>2

LEMMA RequestsStep == RequestsInv /\ [Next]_vars => RequestsInv'
<1> SUFFICES ASSUME RequestsInv, [Next]_vars PROVE RequestsInv'
  OBVIOUS
<1>1. CASE Server \/ UNCHANGED vars
  <2>1. UNCHANGED <<link, client>>
    BY <1>1 DEF Server, ServerReceives, ServerSendsChunk, ServerExits, vars
  <2> QED
    BY <2>1 DEF link, client, channel, RequestsInv, RequestsType, SettledInv, CallInv, StreamInv
<1>2. CASE User
  BY <1>2, CallSteps, StreamSteps DEF User
<1>3. CASE Consume
  BY <1>3, StreamSteps DEF Consume
<1>4. CASE Continue
  BY <1>4, CallSteps, StreamSteps DEF Continue
<1>5. CASE Receive
  BY <1>5, EnvelopeSteps DEF Receive
<1>6. CASE OnDefect \/ Transport
  BY <1>6, LinkSteps DEF Transport
<1> QED
  BY <1>1, <1>2, <1>3, <1>4, <1>5, <1>6 DEF Next

LEMMA RequestsInit == Init => RequestsInv
BY DEF Init, Link!Init, RequestsInv, RequestsType, SettledInv, CallInv, StreamInv, ConsumerState

-----------------------------------------------------------------------------
(* The wire, the server and the channels *)

LEMMA QueueOps ==
  ASSUME NEW T, NEW q \in Seq(T)
  PROVE  /\ Len(q) \in Nat /\ (q # <<>> <=> Len(q) > 0)
         /\ \A p \in Seq(T) : q \o p \in Seq(T)
         /\ \A x \in T : Append(q, x) \in Seq(T)
         /\ q # <<>> => Head(q) \in T /\ Tail(q) \in Seq(T)
OBVIOUS

LEMMA Messages ==
  /\ <<>> \in Seq(Replies) /\ <<>> \in Seq(Sendings)
  /\ \A x \in {Request, Ack, Interrupt} : x \in Sendings /\ <<x>> \in Seq(Sendings)
  /\ <<Request, Interrupt>> \in Seq(Sendings)
  /\ \A ok \in BOOLEAN : Exit(ok) \in Replies /\ <<Exit(ok)>> \in Seq(Replies)
  /\ \A vs \in Seq(Values) : Chunk(vs) \in Replies /\ <<Chunk(vs)>> \in Seq(Replies)
BY DEF Replies, Exit, Chunk, Sendings

\* The rest of a chunk, and its first value.
LEMMA SubSeqType ==
  ASSUME NEW T, NEW q \in Seq(T), NEW m \in 1 .. Len(q) + 1, NEW n \in 0 .. Len(q)
  PROVE  SubSeq(q, m, n) \in Seq(T)
OBVIOUS

WireInv == ServerType /\ ChannelType

LEMMA PostType ==
  ASSUME ServerType, NEW r \in Requests, NEW msgs \in Seq(Sendings)
  PROVE  /\ Post(toServer, r, msgs) \in [Requests -> Seq(Sendings)]
         /\ SendIfOpen(r, msgs) => toServer' \in [Requests -> Seq(Sendings)]
<1>1. toServer[r] \o msgs \in Seq(Sendings)
  BY QueueOps DEF ServerType
<1> QED
  BY <1>1 DEF Post, SendIfOpen, ServerType

LEMMA ServerSteps == WireInv /\ Server => WireInv'
<1> SUFFICES ASSUME WireInv, NEW r \in Requests,
                    ServerReceives(r) \/ ServerSendsChunk(r) \/ ServerExits(r)
             PROVE  WireInv'
  BY DEF Server
<1> USE ConstantsAssumption DEF WireInv, ServerType, client, channel
<1>1. ChannelType'
  BY DEF ChannelType, ServerReceives, ServerSendsChunk, ServerExits
<1>2. \A msgs \in Seq(Replies) : Post(toClient, r, msgs) \in [Requests -> Seq(Replies)]
  BY QueueOps DEF Post
<1>3. CASE ServerReceives(r)
  <2>1. /\ toServer' \in [Requests -> Seq(Sendings)]
        /\ UNCHANGED <<produced, drops, defects>>
    BY <1>3, QueueOps DEF ServerReceives
  <2>2. toClient' \in [Requests -> Seq(Replies)]
    BY <1>2, <1>3, Messages DEF ServerReceives
  <2>3. serving' \subseteq Requests /\ unacked' \subseteq serving'
    BY <1>3 DEF ServerReceives
  <2> QED
    BY <1>1, <2>1, <2>2, <2>3
<1>4. CASE ServerSendsChunk(r)
  <2>1. PICK n \in 1 .. MaxChunk :
          /\ produced[r] + n <= MaxValues
          /\ toClient' = Post(toClient, r, <<Chunk([i \in 1 .. n |-> produced[r] + i])>>)
          /\ produced' = [produced EXCEPT ![r] = @ + n]
    BY <1>4 DEF ServerSendsChunk
  <2>2. [i \in 1 .. n |-> produced[r] + i] \in Seq(Values)
    BY <2>1 DEF Values
  <2>3. toClient' \in [Requests -> Seq(Replies)]
    BY <1>2, <2>1, <2>2, Messages
  <2>4. produced' \in [Requests -> 0 .. MaxValues]
    BY <2>1
  <2> QED
    BY <1>1, <1>4, <2>3, <2>4 DEF ServerSendsChunk
<1>5. CASE ServerExits(r)
  BY <1>1, <1>2, <1>5, Messages DEF ServerExits
<1> QED
  BY <1>3, <1>4, <1>5

LEMMA UserSteps ==
  ASSUME WireInv, \/ \E r \in Calls : StartCall(r) \/ AbortCall(r) \/ ContinueCall(r)
                  \/ \E s \in Streams : \/ StartStream(s) \/ ContinueStream(s) \/ Next_Empty(s)
                                         \/ Next_Buffered(s) \/ Return(s) \/ AbortStream(s)
  PROVE  WireInv'
<1> USE DEF WireInv, server, channel, client, wire
<1>1. UNCHANGED <<toClient, serving, unacked, produced, drops, defects>>
  BY DEF StartCall, AbortCall, ContinueCall, StartStream, ContinueStream, Next_Empty, Next_Buffered,
         Return, AbortStream
<1>2. \/ UNCHANGED toServer
      \/ \E r \in Requests, msgs \in Seq(Sendings) :
           toServer' = Post(toServer, r, msgs) \/ SendIfOpen(r, msgs)
  <2>1. ASSUME NEW r \in Calls, StartCall(r) \/ AbortCall(r) \/ ContinueCall(r)
        PROVE  \/ UNCHANGED toServer
               \/ \E msgs \in Seq(Sendings) : toServer' = Post(toServer, r, msgs) \/ SendIfOpen(r, msgs)
    <3>1. CASE StartCall(r)
      BY <3>1 DEF StartCall
    <3>2. CASE AbortCall(r)
      BY <3>2, Messages DEF AbortCall
    <3>3. CASE ContinueCall(r)
      BY <3>3, Messages DEF ContinueCall
    <3> QED
      BY <2>1, <3>1, <3>2, <3>3
  <2>2. ASSUME NEW s \in Streams, \/ StartStream(s) \/ ContinueStream(s) \/ Next_Empty(s)
                                  \/ Next_Buffered(s) \/ Return(s) \/ AbortStream(s)
        PROVE  \/ UNCHANGED toServer
               \/ \E msgs \in Seq(Sendings) : toServer' = Post(toServer, s, msgs) \/ SendIfOpen(s, msgs)
    <3>1. CASE StartStream(s) \/ Next_Empty(s)
      BY <3>1 DEF StartStream, Next_Empty
    <3>2. CASE ContinueStream(s)
      BY <3>2, Messages DEF ContinueStream
    <3>3. CASE Next_Buffered(s) \/ Return(s) \/ AbortStream(s)
      BY <3>3, Messages DEF Next_Buffered, Return, AbortStream
    <3> QED
      BY <2>2, <3>1, <3>2, <3>3
  <2> QED
    BY <2>1, <2>2 DEF Requests
<1>3. toServer' \in [Requests -> Seq(Sendings)]
  BY <1>2, PostType DEF ServerType
<1>4. ChannelType'
  <2>1. CASE \E r \in Calls : StartCall(r) \/ AbortCall(r) \/ ContinueCall(r)
    BY <2>1 DEF StartCall, AbortCall, ContinueCall, ChannelType
  <2>2. CASE \E s \in Streams : StartStream(s) \/ ContinueStream(s) \/ Next_Empty(s) \/ AbortStream(s)
    BY <2>2 DEF StartStream, ContinueStream, Next_Empty, AbortStream, ChannelType
  <2>3. ASSUME NEW s \in Streams, Next_Buffered(s) PROVE ChannelType'
    BY <2>3, QueueOps DEF Next_Buffered, ChannelType
  <2>4. ASSUME NEW s \in Streams, Return(s) PROVE ChannelType'
    BY <2>4 DEF Return, ChannelType
  <2> QED
    BY <2>1, <2>2, <2>3, <2>4
<1> QED
  BY <1>1, <1>3, <1>4 DEF ServerType

LEMMA PushType ==
  ASSUME ChannelType, NEW s \in Streams, NEW vs \in Seq(Values), Push(s, vs)
  PROVE  ChannelType'
<1>1. CASE terminal[s] # "none"
  BY <1>1 DEF Push, ChannelType
<1>2. CASE terminal[s] = "none"
  <2>1. PICK n \in {0, 1} : /\ n = 1 => vs # <<>>
                            /\ buffer' = [buffer EXCEPT ![s] = @ \o SubSeq(vs, n + 1, Len(vs))]
                            /\ delivered' = [delivered EXCEPT ![s] = @ \o SubSeq(vs, 1, n)]
    <3> DEFINE n == IF consumer[s] = "pulling" /\ vs # <<>> THEN 1 ELSE 0
    <3>1. n \in {0, 1} /\ (n = 1 => vs # <<>>)
      OBVIOUS
    <3>2. /\ buffer' = [buffer EXCEPT ![s] = @ \o SubSeq(vs, n + 1, Len(vs))]
          /\ delivered' = [delivered EXCEPT ![s] = @ \o SubSeq(vs, 1, n)]
      BY <1>2 DEF Push
    <3> QED
      BY <3>1, <3>2
  <2>2. SubSeq(vs, n + 1, Len(vs)) \in Seq(Values) /\ SubSeq(vs, 1, n) \in Seq(Values)
    BY <2>1, QueueOps, SubSeqType
  <2> QED
    BY <2>1, <2>2, QueueOps DEF ChannelType
<1> QED
  BY <1>1, <1>2

LEMMA OtherSteps ==
  ASSUME WireInv, Receive \/ OnDefect \/ Transport \/ UNCHANGED vars
  PROVE  WireInv'
<1> USE ConstantsAssumption DEF WireInv, server, channel, client, wire
<1>1. CASE OnDefect \/ Transport
  <2>1. ChannelType' /\ UNCHANGED produced
    BY <1>1 DEF OnDefect, Transport, LinkOpens, LinkDrops, LinkEnds, LoseSocket, ChannelType
  <2>2. drops' \in 0 .. MaxDrops /\ defects' \in 0 .. MaxDefects
    BY <1>1 DEF OnDefect, Transport, LinkOpens, LinkDrops, LinkEnds, ServerType
  <2>3. UNCHANGED <<toServer, toClient, serving, unacked>> \/ LoseSocket
    BY <1>1 DEF OnDefect, Transport, LinkOpens, LinkDrops, LinkEnds
  <2> QED
    BY <2>1, <2>2, <2>3, Messages DEF LoseSocket, ServerType
<1>2. ASSUME NEW r \in Requests, OnEnvelope(r) PROVE WireInv'
  <2>1. Head(toClient[r]) \in Replies /\ toClient' \in [Requests -> Seq(Replies)]
    BY <1>2, QueueOps DEF OnEnvelope, ServerType
  <2>2. UNCHANGED <<serving, unacked, produced, drops, defects>>
    BY <1>2 DEF OnEnvelope
  <2>3. CASE Head(toClient[r]).type = "Chunk" /\ OnChunk(r, Head(toClient[r]).values)
    <3>1. toServer' \in [Requests -> Seq(Sendings)]
      <4>1. UNCHANGED toServer \/ toServer' = Post(toServer, r, <<Ack>>)
        <5> HIDE DEF WireInv, client
        <5> QED
          BY <2>3, ZenonT(20) DEF OnChunk
      <4>2. Post(toServer, r, <<Ack>>) \in [Requests -> Seq(Sendings)]
        BY Messages, PostType
      <4> QED
        BY <4>1, <4>2 DEF ServerType
    <3>2. Head(toClient[r]).values \in Seq(Values)
      BY <2>1, <2>3 DEF Replies
    <3>3. ChannelType'
      BY <2>3, <3>2, PushType DEF OnChunk, ChannelType
    <3> QED
      BY <2>1, <2>2, <3>1, <3>3 DEF ServerType
  <2>4. CASE OnExit(r, Head(toClient[r]).ok) /\ UNCHANGED toServer
    <3>1. ChannelType'
      BY <2>4 DEF OnExit, ChannelType
    <3> QED
      BY <2>1, <2>2, <2>4, <3>1 DEF ServerType
  <2> QED
    BY <1>2, <2>3, <2>4 DEF OnEnvelope
<1>3. CASE UNCHANGED vars
  BY <1>3 DEF vars, ServerType, ChannelType
<1> QED
  BY <1>1, <1>2, <1>3 DEF Receive

LEMMA WireStep == WireInv /\ [Next]_vars => WireInv'
BY ServerSteps, UserSteps, OtherSteps DEF Next, User, Consume, Continue

LEMMA WireInit == Init => WireInv
BY ConstantsAssumption, Messages DEF Init, WireInv, ServerType, ChannelType

LEMMA Correct == Spec => [](RequestsInv /\ WireInv)
<1>1. Init => RequestsInv /\ WireInv
  BY RequestsInit, WireInit
<1>2. RequestsInv /\ WireInv /\ [Next]_vars => (RequestsInv /\ WireInv)'
  BY RequestsStep, WireStep
<1> QED
  BY <1>1, <1>2, PTL DEF Spec

\* A settled request leaves nothing behind, however its exit, its abort, a drop, a Defect and
\* close() race (rpcConnection.ts:66-73, 128-133, 183-207, 258-289).
THEOREM SettledIsCleanCorrect == Spec => []SettledIsClean
<1>1. RequestsInv /\ WireInv => SettledIsClean
  BY Parts DEF RequestsInv, WireInv, ServerType, SettledInv, CallInv, StreamInv, SettledIsClean,
               InFlightIsUnsettled, ListenerReleased
<1> QED
  BY <1>1, Correct, PTL

\* A call settles once and a channel keeps its first terminal (asyncIterable.ts:55-66).
THEOREM SettledForGoodCorrect == Spec => SettledForGood
<1>1. RequestsInv /\ [Next]_vars =>
        [/\ \A r \in Calls : outcome[r] # "none" => outcome'[r] = outcome[r]
         /\ \A s \in Streams : terminal[s] # "none" => terminal'[s] = terminal[s]]_vars
  <2> SUFFICES ASSUME RequestsInv, Next
               PROVE  /\ \A r \in Calls : outcome[r] # "none" => outcome'[r] = outcome[r]
                      /\ \A s \in Streams : terminal[s] # "none" => terminal'[s] = terminal[s]
    OBVIOUS
  <2> USE Apart DEF RequestsInv, RequestsType, SettledInv, channel
  <2>1. CASE \E r \in Calls : StartCall(r) \/ AbortCall(r) \/ ContinueCall(r)
    BY <2>1 DEF StartCall, AbortCall, ContinueCall, client, CallInv
  <2>2. CASE \E s \in Streams : \/ StartStream(s) \/ ContinueStream(s) \/ Next_Empty(s)
                                 \/ Next_Buffered(s) \/ Return(s) \/ AbortStream(s)
    BY <2>2 DEF StartStream, ContinueStream, Next_Empty, Next_Buffered, Return, AbortStream, Terminate, StreamInv
  <2>3. CASE OnDefect \/ LinkDrops \/ LinkEnds
    BY <2>3 DEF OnDefect, LinkDrops, LinkEnds, FailAll, FailRequests, Terminate, CallInv
  <2>4. CASE LinkOpens \/ Server
    BY <2>4 DEF LinkOpens, Server, ServerReceives, ServerSendsChunk, ServerExits, client
  <2>5. ASSUME NEW r \in Requests, OnEnvelope(r)
        PROVE  /\ \A c \in Calls : outcome[c] # "none" => outcome'[c] = outcome[c]
               /\ \A s \in Streams : terminal[s] # "none" => terminal'[s] = terminal[s]
    <3>1. CASE OnChunk(r, Head(toClient[r]).values)
      BY <3>1 DEF OnChunk, client
    <3>2. CASE OnExit(r, Head(toClient[r]).ok)
      BY <3>2 DEF OnExit, client, Terminate, CallInv
    <3> QED
      BY <2>5, <3>1, <3>2, ZenonT(20) DEF OnEnvelope
  <2> QED
    BY <2>1, <2>2, <2>3, <2>4, <2>5 DEF Next, User, Consume, Continue, Receive, Transport
<1> QED
  BY <1>1, Correct, PTL DEF Spec, SettledForGood

-----------------------------------------------------------------------------
(* Flow control and the order of the values *)

Got(s) == Len(delivered[s]) + Len(buffer[s])

\* The values of the channel are the first ones the server sent, in order.
InOrder(s) ==
  /\ \A i \in 1 .. Len(delivered[s]) : delivered[s][i] = i
  /\ \A i \in 1 .. Len(buffer[s]) : buffer[s][i] = Len(delivered[s]) + i
  /\ Got(s) <= produced[s]
  /\ consumer[s] = "pulling" => buffer[s] = <<>>
  /\ consumer[s] \in {"new", "starting"} => Got(s) = 0

\* A request that is not sent yet has nothing on the wire and nothing at the server.
Unsent(r) == IF r \in Calls THEN r \notin resumed ELSE consumer[r] \in {"new", "starting"}

UnsentIsNew(r) ==
  Unsent(r) => /\ r \notin serving /\ produced[r] = 0
               /\ toServer[r] = <<>> /\ toClient[r] = <<>>

\* Everything the server sent has arrived, or all but the chunk m has.
AllHere(r) == r \in Streams => Got(r) = produced[r]
AllBut(r, m) ==
  /\ m.type = "Chunk" /\ m.values # <<>>
  /\ r \in Streams => /\ Got(r) + Len(m.values) = produced[r]
                      /\ \A i \in 1 .. Len(m.values) : m.values[i] = Got(r) + i

NoRequest(r) == \A i \in 1 .. Len(toServer[r]) : toServer[r][i] # Request

\* A request in flight is on its way, or is served and has at most a chunk or an Ack
\* under way or held back, or has been answered.
OnItsWay(r) ==
  /\ r \notin serving /\ r \notin ackPending
  /\ toServer[r] = <<Request>> /\ toClient[r] = <<>> /\ AllHere(r)
Served(r) ==
  /\ r \in serving
  /\ \/ r \notin unacked /\ r \notin ackPending /\ toServer[r] = <<>> /\ toClient[r] = <<>> /\ AllHere(r)
     \/ r \in unacked /\ r \notin ackPending /\ toServer[r] = <<Ack>> /\ toClient[r] = <<>> /\ AllHere(r)
     \/ r \in unacked /\ r \in ackPending /\ toServer[r] = <<>> /\ toClient[r] = <<>> /\ AllHere(r)
     \/ /\ r \in unacked /\ r \notin ackPending /\ toServer[r] = <<>>
        /\ \E m \in Replies : toClient[r] = <<m>> /\ AllBut(r, m)
Answered(r) ==
  /\ r \notin serving /\ NoRequest(r)
  /\ \/ \E ok \in BOOLEAN : toClient[r] = <<Exit(ok)>> /\ AllHere(r)
     \/ \E m \in Replies : toClient[r] = <<m, Exit(FALSE)>> /\ AllBut(r, m)

InFlight(r) == r \in entries => OnItsWay(r) \/ Served(r) \/ Answered(r)

\* An Ack is held back exactly while there is more than the mark to consume.
Held(s) ==
  /\ s \in ackPending => s \in entries
  /\ s \in entries => (s \in ackPending <=> Len(buffer[s]) > HighWaterMark)

\* The server has done with a stream that ended.
EndIsAll(s) ==
  terminal[s] = "end" /\ s \notin returned =>
    s \notin serving /\ NoRequest(s) /\ Got(s) = produced[s]

FlowInv(r) ==
  /\ UnsentIsNew(r) /\ InFlight(r)
  /\ r \in Streams => InOrder(r) /\ Held(r) /\ EndIsAll(r)

Inv == RequestsInv /\ WireInv /\ \A r \in Requests : FlowInv(r)

\* Queues this short are all there is to a request in flight.
LEMMA Short ==
  \A a, b : /\ Len(<<a>>) = 1 /\ Head(<<a>>) = a /\ Tail(<<a>>) = <<>> /\ <<a>> # <<>>
            /\ Head(<<a, b>>) = a /\ Tail(<<a, b>>) = <<b>> /\ <<a, b>> # <<>>
            /\ <<>> \o <<a>> = <<a>> /\ <<a>> \o <<b>> = <<a, b>>
<1>1. ASSUME NEW a, NEW b PROVE <<a>> \o <<b>> = <<a, b>>
  <2> DEFINE T == {a, b}
  <2>1. <<a>> \in Seq(T) /\ <<b>> \in Seq(T) /\ <<a, b>> \in Seq(T)
    OBVIOUS
  <2>2. <<a>> \o <<b>> \in Seq(T) /\ Len(<<a>> \o <<b>>) = 2
    BY <2>1
  <2>3. \A i \in 1 .. 2 : (<<a>> \o <<b>>)[i] = <<a, b>>[i]
    BY <2>1
  <2> QED
    BY <2>1, <2>2, <2>3, SeqEqual
<1>2. \A a, b : /\ Len(<<a>>) = 1 /\ Head(<<a>>) = a /\ Tail(<<a>>) = <<>> /\ <<a>> # <<>>
               /\ Head(<<a, b>>) = a /\ Tail(<<a, b>>) = <<b>> /\ <<a, b>> # <<>>
               /\ <<>> \o <<a>> = <<a>>
  OBVIOUS
<1> QED
  BY <1>1, <1>2

LEMMA PairParts ==
  ASSUME NEW q, NEW x, NEW y, q = <<x, y>>
  PROVE  Head(q) = x /\ Tail(q) = <<y>>
<1>1. Head(<<x, y>>) = x
  BY Short, Zenon
<1>2. Tail(<<x, y>>) = <<y>>
  BY Short, Zenon
<1> QED
  BY <1>1, <1>2

LEMMA Kinds ==
  /\ Request # Ack /\ Request # Interrupt /\ Ack # Interrupt
  /\ Request.type = "Request" /\ Ack.type = "Ack" /\ Interrupt.type = "Interrupt"
  /\ \A ok \in BOOLEAN : Exit(ok).type = "Exit" /\ Exit(ok).ok = ok
  /\ \A vs : Chunk(vs).type = "Chunk" /\ Chunk(vs).values = vs
BY DEF Request, Ack, Interrupt, Exit, Chunk

\* An Ack or an Interrupt that is sent adds no Request.
LEMMA NoRequestAdded ==
  ASSUME NEW x \in {Ack, Interrupt}
  PROVE  \A q \in Seq(Sendings) : \A p \in {q, q \o <<x>>} :
           (\A i \in 1 .. Len(q) : q[i] # Request) => \A i \in 1 .. Len(p) : p[i] # Request
<1>1. \A q \in Seq(Sendings) : /\ Len(q) \in Nat /\ Len(q \o <<x>>) = Len(q) + 1
                               /\ \A i \in 1 .. Len(q) : (q \o <<x>>)[i] = q[i]
                               /\ (q \o <<x>>)[Len(q) + 1] = x
  BY Messages
<1>2. x # Request
  BY Kinds
<1> QED
  BY <1>1, <1>2

\* A step of other requests.
Same(r) ==
  /\ r \in entries' <=> r \in entries
  /\ r \in serving' <=> r \in serving
  /\ r \in unacked' <=> r \in unacked
  /\ r \in ackPending' <=> r \in ackPending
  /\ r \in resumed' <=> r \in resumed
  /\ toServer'[r] = toServer[r] /\ toClient'[r] = toClient[r] /\ produced'[r] = produced[r]
  /\ r \in Streams =>
       /\ consumer'[r] = consumer[r] /\ terminal'[r] = terminal[r]
       /\ buffer'[r] = buffer[r] /\ delivered'[r] = delivered[r]
       /\ r \in returned' <=> r \in returned

LEMMA SameFlow ==
  ASSUME NEW r \in Requests, FlowInv(r), Same(r)
  PROVE  FlowInv(r)'
<1>1. UnsentIsNew(r)'
  BY Apart DEF FlowInv, Same, UnsentIsNew, Unsent
<1>2. AllHere(r)' <=> AllHere(r)
  BY DEF Same, AllHere, Got
<1>3. ASSUME NEW m \in Replies PROVE AllBut(r, m)' <=> AllBut(r, m)
  BY DEF Same, AllBut, Got
<1>4. NoRequest(r)' <=> NoRequest(r)
  BY DEF Same, NoRequest
<1>5. OnItsWay(r) => OnItsWay(r)'
  BY <1>2 DEF Same, OnItsWay
<1>6. Served(r) => Served(r)'
  BY <1>2, <1>3 DEF Same, Served
<1>7. Answered(r) => Answered(r)'
  BY <1>2, <1>3, <1>4 DEF Same, Answered
<1>8. InFlight(r)'
  BY <1>5, <1>6, <1>7 DEF FlowInv, Same, InFlight
<1>9. ASSUME r \in Streams PROVE InOrder(r)' /\ Held(r)' /\ EndIsAll(r)'
  <2>1. InOrder(r)'
    BY <1>9 DEF FlowInv, Same, InOrder, Got
  <2>2. Held(r)'
    BY <1>9 DEF FlowInv, Same, Held
  <2>3. EndIsAll(r)'
    BY <1>4, <1>9 DEF FlowInv, Same, EndIsAll, Got
  <2> QED
    BY <2>1, <2>2, <2>3
<1> QED
  BY <1>1, <1>8, <1>9 DEF FlowInv

\* A request that is settled, or has not been sent, has only its end to keep to.
LEMMA NotInFlight ==
  ASSUME NEW r \in Requests, FlowInv(r), r \notin entries', r \notin ackPending',
         r \in serving' => r \in serving, produced'[r] = produced[r],
         NoRequest(r) => NoRequest(r)',
         Unsent(r)' => Unsent(r) /\ toServer'[r] = <<>> /\ toClient'[r] = <<>>,
         r \in Streams =>
           /\ InOrder(r)'
           /\ terminal'[r] = "end" /\ r \notin returned' =>
                terminal[r] = "end" /\ r \notin returned /\ Got(r)' = Got(r)
  PROVE  FlowInv(r)'
<1>1. UnsentIsNew(r)'
  BY DEF FlowInv, UnsentIsNew
<1>2. InFlight(r)'
  BY DEF InFlight
<1>3. r \in Streams => Held(r)' /\ EndIsAll(r)'
  BY DEF FlowInv, Held, EndIsAll
<1> QED
  BY <1>1, <1>2, <1>3 DEF FlowInv

\* What a request that is not in flight has in common, by RequestsInv.
LEMMA Idle ==
  ASSUME Inv, NEW r \in Requests
  PROVE  /\ FlowInv(r)
         /\ r \in unacked => r \in serving
         /\ r \notin entries => r \notin ackPending
         /\ r \in Calls => r \notin ackPending /\ r \notin Streams
         /\ r \in entries => ~Unsent(r) /\ state = "open"
         /\ r \in Streams => /\ r \notin Calls
                             /\ r \in entries => terminal[r] = "none" /\ consumer[r] \in {"ready", "pulling"}
<1> USE Apart DEF Inv, RequestsInv, RequestsType, SettledInv
<1>1. FlowInv(r) /\ (r \in unacked => r \in serving) /\ (r \in Calls => r \notin ackPending /\ r \notin Streams)
  BY DEF WireInv, ServerType
<1>2. r \in Streams => /\ r \notin Calls
                       /\ r \in entries => terminal[r] = "none" /\ consumer[r] \in {"ready", "pulling"}
  BY DEF StreamInv
<1>3. r \notin entries => r \notin ackPending
  BY <1>1 DEF FlowInv, Held
<1>4. r \in entries => ~Unsent(r) /\ state = "open"
  BY <1>2 DEF CallInv, Unsent
<1> QED
  BY <1>1, <1>2, <1>3, <1>4

LEMMA SettledFlow ==
  ASSUME Inv, NEW r \in Requests, FailAll, UNCHANGED <<resumed, buffer, delivered, returned, produced>>,
         \/ UNCHANGED <<toServer, toClient, serving>>
         \/ LoseSocket
  PROVE  FlowInv(r)'
<1> USE Apart DEF FailAll, FailRequests
<1>1. /\ FlowInv(r) /\ r \notin entries' /\ r \notin ackPending'
      /\ r \in serving' => r \in serving
      /\ NoRequest(r) => NoRequest(r)'
  BY Idle DEF LoseSocket, NoRequest
<1>2. /\ r \in Calls => (Unsent(r)' => Unsent(r))
      /\ r \in Streams => consumer'[r] = consumer[r] \/ (consumer[r] = "pulling" /\ consumer'[r] = "finished")
  BY Idle DEF Unsent, Terminate, Inv, RequestsInv, RequestsType
<1>3. Unsent(r)' => Unsent(r)
  BY <1>2, Idle DEF Unsent
<1>4. Unsent(r)' => toServer'[r] = <<>> /\ toClient'[r] = <<>>
  BY <1>1, <1>3 DEF FlowInv, UnsentIsNew, LoseSocket
<1>5. ASSUME r \in Streams
      PROVE  /\ InOrder(r)'
             /\ terminal'[r] = "end" /\ r \notin returned' =>
                  terminal[r] = "end" /\ r \notin returned /\ Got(r)' = Got(r)
  <2>1. InOrder(r)'
    BY <1>1, <1>2, <1>5 DEF FlowInv, InOrder, Got
  <2>2. terminal'[r] = "end" => terminal[r] = "end"
    BY <1>5 DEF Terminate
  <2> QED
    BY <2>1, <2>2 DEF Got
<1> QED
  BY <1>1, <1>3, <1>4, <1>5, NotInFlight

LEMMA LinkFlow == Inv /\ (OnDefect \/ Transport) => \A r \in Requests : FlowInv(r)'
<1> SUFFICES ASSUME Inv, OnDefect \/ Transport, NEW r \in Requests PROVE FlowInv(r)'
  OBVIOUS
<1>1. CASE LinkOpens
  <2>1. Same(r)
    BY <1>1 DEF LinkOpens, client, channel, wire, server, Same
  <2> QED
    BY <2>1, SameFlow, Idle
<1>2. CASE OnDefect \/ LinkDrops \/ LinkEnds
  BY <1>2, SettledFlow DEF OnDefect, LinkDrops, LinkEnds, wire, server, LoseSocket
<1> QED
  BY <1>1, <1>2 DEF Transport

LEMMA CallFlow ==
  ASSUME Inv, NEW r \in Calls, StartCall(r) \/ AbortCall(r) \/ ContinueCall(r)
  PROVE  \A t \in Requests : FlowInv(t)'
<1> USE Apart
<1>1. CASE StartCall(r)
  BY <1>1, SameFlow, Idle DEF StartCall, client, channel, wire, server, Same
<1>2. UNCHANGED <<listener, consumer, channel, returned, ackPending, toClient, server>>
  BY DEF StartCall, AbortCall, ContinueCall, client, wire
<1>3. ASSUME NEW t \in Requests \ {r}, AbortCall(r) \/ ContinueCall(r) PROVE FlowInv(t)'
  <2>1. toServer'[t] = toServer[t]
    BY <1>3 DEF AbortCall, ContinueCall, SendIfOpen, Post, Inv, WireInv, ServerType
  <2>2. /\ t \in entries' <=> t \in entries
        /\ t \in resumed' <=> t \in resumed
    BY <1>3 DEF AbortCall, ContinueCall
  <2> QED
    BY <1>2, <2>1, <2>2, SameFlow, Idle DEF Same, channel, server
<1>4. CASE AbortCall(r)
  <2>1. r \notin entries' /\ r \notin ackPending'
    BY <1>2, <1>4, Idle DEF AbortCall, Inv, RequestsInv, SettledInv, CallInv
  <2>2. \/ toServer'[r] = toServer[r]
        \/ r \in entries /\ toServer'[r] = toServer[r] \o <<Interrupt>>
    BY <1>4 DEF AbortCall, SendIfOpen, Post, Inv, WireInv, ServerType
  <2>3. NoRequest(r) => NoRequest(r)'
    <3>1. toServer[r] \in Seq(Sendings)
      BY DEF Inv, WireInv, ServerType
    <3> QED
      BY <2>2, <3>1, NoRequestAdded DEF NoRequest
  <2>4. Unsent(r)' => Unsent(r) /\ toServer'[r] = <<>> /\ toClient'[r] = <<>>
    BY <1>2, <1>4, <2>2, Idle DEF AbortCall, Unsent, FlowInv, UnsentIsNew
  <2>5. FlowInv(r)'
    BY <1>2, <2>1, <2>3, <2>4, Idle, NotInFlight DEF server
  <2> QED
    BY <1>3, <1>4, <2>5
<1>5. CASE ContinueCall(r)
  <2>1. Unsent(r) /\ ~Unsent(r)' /\ r \notin entries /\ r \notin ackPending'
    BY <1>2, <1>5, Idle DEF ContinueCall, Unsent
  <2>2. toServer[r] = <<>> /\ toClient[r] = <<>> /\ r \notin serving
    BY <2>1, Idle DEF FlowInv, UnsentIsNew
  <2>3. CASE r \notin entries'
    <3>1. r \notin Streams /\ ~Unsent(r)'
      BY <2>1, Idle
    <3> QED
      BY <1>3, <1>5, <2>3, <3>1 DEF FlowInv, UnsentIsNew, InFlight
  <2>4. CASE r \in entries'
    <3>1. toServer'[r] = <<Request>>
      <4>1. toServer' = Post(toServer, r, <<Request>>)
        BY <1>5, <2>1, <2>4 DEF ContinueCall
      <4> QED
        BY <2>2, <4>1, Short DEF Post, Inv, WireInv, ServerType
    <3>2. OnItsWay(r)'
      BY <1>2, <2>1, <2>2, <3>1, Idle DEF OnItsWay, AllHere, server
    <3>3. r \notin Streams /\ ~Unsent(r)'
      BY <2>1, Idle
    <3> QED
      BY <1>3, <1>5, <3>2, <3>3 DEF FlowInv, UnsentIsNew, InFlight
  <2> QED
    BY <1>3, <1>5, <2>3, <2>4
<1> QED
  BY <1>1, <1>4, <1>5

\* The parts of a request's queue and set that a stream's own step leaves alone.
LEMMA OthersOfStream ==
  ASSUME Inv, NEW s \in Streams, NEW t \in Requests \ {s},
         StartStream(s) \/ ContinueStream(s) \/ Next_Empty(s) \/ Next_Buffered(s) \/ Return(s) \/ AbortStream(s)
  PROVE  FlowInv(t)'
<1> USE Apart DEF Inv, RequestsInv, RequestsType, WireInv, ServerType, ChannelType
<1>1. UNCHANGED <<resumed, toClient, serving, unacked, produced>>
  BY DEF StartStream, ContinueStream, Next_Empty, Next_Buffered, Return, AbortStream, wire, server
<1>2. toServer'[t] = toServer[t]
  BY DEF StartStream, ContinueStream, Next_Empty, Next_Buffered, Return, AbortStream, wire, SendIfOpen, Post
<1>3. /\ t \in entries' <=> t \in entries
      /\ t \in ackPending' <=> t \in ackPending
      /\ t \in returned' <=> t \in returned
  BY DEF StartStream, ContinueStream, Next_Empty, Next_Buffered, Return, AbortStream
<1>4. t \in Streams =>
       /\ consumer'[t] = consumer[t] /\ terminal'[t] = terminal[t]
       /\ buffer'[t] = buffer[t] /\ delivered'[t] = delivered[t]
  BY DEF StartStream, ContinueStream, Next_Empty, Next_Buffered, Return, AbortStream, Terminate, channel
<1>5. Same(t)
  BY <1>1, <1>2, <1>3, <1>4 DEF Same
<1> QED
  BY <1>5, SameFlow

LEMMA StartFlow ==
  ASSUME Inv, NEW s \in Streams, StartStream(s)
  PROVE  FlowInv(s)'
<1> USE Apart DEF StartStream, wire, server
<1>1. /\ FlowInv(s) /\ s \notin entries' /\ s \notin ackPending' /\ consumer[s] = "new"
      /\ consumer'[s] \in {"starting", "finished"} /\ terminal'[s] # "end"
  BY Idle DEF Inv, RequestsInv, RequestsType, SettledInv, StreamInv
<1>2. Unsent(s) /\ toServer[s] = <<>> /\ toClient[s] = <<>>
  BY <1>1, Idle DEF Unsent, FlowInv, UnsentIsNew
<1>3. InOrder(s)'
  BY <1>1 DEF FlowInv, InOrder, Got
<1>4. (NoRequest(s) => NoRequest(s)') /\ s \in Requests
  BY DEF NoRequest
<1> QED
  BY <1>1, <1>2, <1>3, <1>4, NotInFlight

LEMMA ContinueFlow ==
  ASSUME Inv, NEW s \in Streams, ContinueStream(s)
  PROVE  FlowInv(s)'
<1> USE Apart DEF ContinueStream, server
<1>1. /\ FlowInv(s) /\ s \notin entries /\ s \notin ackPending' /\ consumer[s] = "starting"
      /\ s \notin Calls /\ s \in Requests
  BY Idle
<1>2. /\ s \notin serving' /\ toServer[s] = <<>> /\ toClient'[s] = <<>>
      /\ Got(s) = 0 /\ produced[s] = 0 /\ Len(delivered[s]) = 0 /\ Len(buffer[s]) = 0 /\ buffer[s] = <<>>
  BY <1>1 DEF FlowInv, UnsentIsNew, Unsent, InOrder, Got, Inv, WireInv, ChannelType
<1>3. consumer'[s] \in {"pulling", "finished"}
  BY DEF Inv, RequestsInv, RequestsType
<1>4. UnsentIsNew(s)' /\ InOrder(s)'
  BY <1>1, <1>2, <1>3 DEF UnsentIsNew, Unsent, InOrder, Got
<1>5. CASE s \in entries'
  <2>1. toServer' = Post(toServer, s, <<Request>>) /\ terminal'[s] = "none"
    BY <1>1, <1>5
  <2>2. toServer'[s] = <<Request>>
    BY <1>2, <2>1, Short DEF Post, Inv, WireInv, ServerType
  <2>3. InFlight(s)'
    BY <1>1, <1>2, <2>2 DEF InFlight, OnItsWay, AllHere, Got
  <2>4. Held(s)' /\ EndIsAll(s)'
    BY <1>1, <1>2, <1>5, <2>1, ConstantsAssumption DEF Held, EndIsAll
  <2> QED
    BY <1>1, <1>4, <2>3, <2>4 DEF FlowInv
<1>6. CASE s \notin entries'
  <2>1. UNCHANGED toServer
    BY <1>6
  <2>2. InFlight(s)' /\ Held(s)' /\ EndIsAll(s)'
    BY <1>1, <1>2, <1>6, <2>1 DEF InFlight, Held, EndIsAll, NoRequest, Got
  <2> QED
    BY <1>1, <1>4, <2>2 DEF FlowInv
<1> QED
  BY <1>5, <1>6

LEMMA EmptyFlow ==
  ASSUME Inv, NEW s \in Streams, Next_Empty(s)
  PROVE  FlowInv(s)'
<1> USE Apart DEF Next_Empty, server, wire, channel
<1>1. FlowInv(s) /\ s \in Requests /\ s \notin Calls /\ ~Unsent(s)' /\ buffer[s] = <<>>
  BY Idle DEF Unsent, Inv, RequestsInv, RequestsType
<1>2. InOrder(s)'
  BY <1>1 DEF FlowInv, InOrder, Got, Inv, RequestsInv, RequestsType
<1>3. /\ AllHere(s)' <=> AllHere(s)
      /\ \A m \in Replies : AllBut(s, m)' <=> AllBut(s, m)
      /\ NoRequest(s)' <=> NoRequest(s)
  BY DEF AllHere, AllBut, Got, NoRequest
<1>4. InFlight(s)'
  BY <1>1, <1>3 DEF FlowInv, InFlight, OnItsWay, Served, Answered
<1>5. Held(s)' /\ EndIsAll(s)'
  BY <1>1, <1>3 DEF FlowInv, Held, EndIsAll, Got
<1> QED
  BY <1>1, <1>2, <1>4, <1>5 DEF FlowInv, UnsentIsNew

LEMMA LeaveFlow ==
  ASSUME Inv, NEW s \in Streams, Return(s) \/ AbortStream(s)
  PROVE  FlowInv(s)'
<1> USE Apart DEF server
<1>1. FlowInv(s) /\ s \in Requests /\ s \notin Calls /\ consumer[s] # "finished"
  BY Idle DEF Return, AbortStream
<1>2. UNCHANGED <<delivered, toClient, serving, unacked, produced>>
  BY DEF Return, AbortStream
<1>3. CASE AbortStream(s) /\ s \notin listener
  <2>1. Same(s)
    BY <1>3 DEF AbortStream, Same
  <2> QED
    BY <1>1, <2>1, SameFlow
<1>4. CASE Return(s) \/ s \in listener
  <2>1. s \notin entries' /\ s \notin ackPending'
    BY <1>4 DEF Return, AbortStream
  <2>2. \/ toServer'[s] = toServer[s]
        \/ s \in entries /\ toServer'[s] = toServer[s] \o <<Interrupt>>
    BY <1>4 DEF Return, AbortStream, SendIfOpen, Post, Inv, WireInv, ServerType
  <2>3. NoRequest(s) => NoRequest(s)'
    BY <1>1, <2>2, Kinds, Messages DEF NoRequest, Inv, WireInv, ServerType
  <2>4. /\ consumer'[s] \in {consumer[s], "finished"} /\ consumer'[s] # "pulling"
        /\ buffer'[s] \in {buffer[s], <<>>}
        /\ terminal'[s] = "end" /\ s \notin returned' =>
             terminal[s] = "end" /\ s \notin returned /\ buffer'[s] = buffer[s]
    BY <1>4, Idle DEF Return, AbortStream, Terminate, Inv, RequestsInv, RequestsType, SettledInv, StreamInv,
                      WireInv, ChannelType
  <2>5. Unsent(s)' => Unsent(s) /\ toServer'[s] = <<>> /\ toClient'[s] = <<>>
    BY <1>1, <1>2, <2>2, <2>4, Idle DEF Unsent, FlowInv, UnsentIsNew
  <2>6. InOrder(s)'
    BY <1>1, <1>2, <2>4 DEF FlowInv, InOrder, Got, Inv, WireInv, ChannelType, ServerType
  <2> QED
    BY <1>1, <1>2, <2>1, <2>3, <2>4, <2>5, <2>6, NotInFlight DEF Got
<1> QED
  BY <1>3, <1>4

\* A value handed over counts as much as one that waits.
LEMMA HandOver ==
  \A d, b \in Seq(Values) : b # <<>> =>
    /\ Len(Append(d, Head(b))) = Len(d) + 1 /\ Len(Tail(b)) = Len(b) - 1
    /\ \A i \in 1 .. Len(d) : Append(d, Head(b))[i] = d[i]
    /\ Append(d, Head(b))[Len(d) + 1] = b[1]
    /\ \A i \in 1 .. Len(b) - 1 : Tail(b)[i] = b[i + 1]
    /\ Len(d) \in Nat /\ Len(b) \in Nat \ {0}
OBVIOUS

LEMMA OneMoves ==
  \A m \in Nat, n \in Nat \ {0} : (m + 1) + (n - 1) = m + n /\ n \in Nat
OBVIOUS

LEMMA BufferedFlow ==
  ASSUME Inv, NEW s \in Streams, Next_Buffered(s)
  PROVE  FlowInv(s)'
<1> USE Apart DEF Next_Buffered, server
<1>1. FlowInv(s) /\ s \in Requests /\ s \notin Calls /\ ~Unsent(s)' /\ buffer[s] # <<>>
  BY Idle DEF Unsent, Inv, RequestsInv, RequestsType
<1>2. delivered[s] \in Seq(Values) /\ buffer[s] \in Seq(Values) /\ produced[s] \in Nat
  BY DEF Inv, WireInv, ChannelType, ServerType
<1>3. /\ delivered'[s] = Append(delivered[s], Head(buffer[s])) /\ buffer'[s] = Tail(buffer[s])
      /\ delivered'[s] \in Seq(Values) /\ buffer'[s] \in Seq(Values)
  BY <1>1, <1>2, QueueOps DEF Inv, WireInv, ChannelType
<1>0. /\ Len(delivered'[s]) = Len(delivered[s]) + 1 /\ Len(buffer'[s]) = Len(buffer[s]) - 1
      /\ \A i \in 1 .. Len(delivered[s]) : delivered'[s][i] = delivered[s][i]
      /\ delivered'[s][Len(delivered[s]) + 1] = buffer[s][1]
      /\ \A i \in 1 .. Len(buffer[s]) - 1 : buffer'[s][i] = buffer[s][i + 1]
      /\ Len(delivered[s]) \in Nat /\ Len(buffer[s]) \in Nat \ {0}
  <2> HIDE DEF Next_Buffered
  <2>1. delivered[s] \in Seq(Values) /\ buffer[s] \in Seq(Values) /\ buffer[s] # <<>>
    BY <1>1, <1>2
  <2> QED
    BY <1>3, <2>1, HandOver
<1>4. /\ Got(s)' = Got(s)
      /\ Len(buffer'[s]) = Len(buffer[s]) - 1 /\ Len(buffer[s]) \in Nat
  <2> HIDE DEF Next_Buffered
  <2>1. /\ (Len(delivered[s]) + 1) + (Len(buffer[s]) - 1) = Len(delivered[s]) + Len(buffer[s])
        /\ Len(buffer[s]) \in Nat
    BY <1>0, OneMoves, Zenon
  <2>2. Got(s)' = (Len(delivered[s]) + 1) + (Len(buffer[s]) - 1)
    BY <1>0, Zenon DEF Got
  <2> QED
    BY <1>0, <2>1, <2>2, Zenon DEF Got
<1>5. InOrder(s)'
  <2> HIDE DEF Next_Buffered
  <2>1. \A i \in 1 .. Len(delivered'[s]) : delivered'[s][i] = i
    <3>1. /\ \A i \in 1 .. Len(delivered[s]) : delivered[s][i] = i
          /\ \A i \in 1 .. Len(buffer[s]) : buffer[s][i] = Len(delivered[s]) + i
      BY <1>1 DEF FlowInv, InOrder
    <3>2. buffer[s][1] = Len(delivered[s]) + 1
      BY <1>0, <3>1
    <3> QED
      BY <1>0, <1>2, <1>3, <3>1, <3>2
  <2>2. \A i \in 1 .. Len(buffer'[s]) : buffer'[s][i] = Len(delivered'[s]) + i
    BY <1>0, <1>1 DEF FlowInv, InOrder
  <2>3. Got(s)' <= produced'[s]
    <3>1. Got(s) <= produced[s] /\ UNCHANGED produced
      BY <1>1 DEF FlowInv, InOrder, Next_Buffered
    <3> QED
      BY <1>4, <3>1, Zenon
  <2>4. consumer'[s] = "ready"
    BY DEF Next_Buffered
  <2> QED
    BY <2>1, <2>2, <2>3, <2>4 DEF InOrder
<1>6. /\ AllHere(s)' <=> AllHere(s)
      /\ \A m \in Replies : AllBut(s, m)' <=> AllBut(s, m)
  BY <1>4 DEF AllHere, AllBut
<1>7. CASE MayAck(s, s \in ackPending, Len(buffer[s]) - 1)
  <2>1. /\ s \in entries /\ s \in ackPending /\ Len(buffer'[s]) <= HighWaterMark
        /\ s \notin ackPending' /\ UNCHANGED <<entries, toClient>>
    BY <1>4, <1>7 DEF MayAck
  <2>2. toServer'[s] = toServer[s] \o <<Ack>>
    BY <1>1, <1>7, <2>1, Idle DEF SendIfOpen, Post, Inv, WireInv, ServerType
  <2>3. Served(s) => Served(s)'
    BY <1>6, <2>1, <2>2, Short DEF Served
  <2>4. Answered(s) => Answered(s)'
    <3>1. NoRequest(s) => NoRequest(s)'
      BY <1>1, <2>2, Kinds, Messages DEF NoRequest, Inv, WireInv, ServerType
    <3> QED
      BY <1>6, <2>1, <3>1 DEF Answered
  <2>5. InFlight(s)'
    BY <1>1, <2>1, <2>3, <2>4 DEF FlowInv, InFlight, OnItsWay
  <2>6. Held(s)' /\ EndIsAll(s)'
    BY <1>1, <1>4, <2>1, Idle, ConstantsAssumption DEF Held, EndIsAll
  <2> QED
    BY <1>1, <1>5, <2>5, <2>6 DEF FlowInv, UnsentIsNew
<1>8. CASE ~MayAck(s, s \in ackPending, Len(buffer[s]) - 1)
  <2>1. UNCHANGED <<toServer, ackPending, entries, toClient>> /\ (NoRequest(s)' <=> NoRequest(s))
    BY <1>8 DEF NoRequest
  <2>2. InFlight(s)'
    BY <1>1, <1>6, <2>1 DEF FlowInv, InFlight, OnItsWay, Served, Answered
  <2>3. Held(s)'
    BY <1>1, <1>4, <1>8, <2>1, ConstantsAssumption DEF FlowInv, Held, MayAck
  <2>4. EndIsAll(s)'
    BY <1>1, <1>4, <2>1 DEF FlowInv, EndIsAll
  <2> QED
    BY <1>1, <1>5, <2>2, <2>3, <2>4 DEF FlowInv, UnsentIsNew
<1> QED
  BY <1>7, <1>8

LEMMA NumberedSeq ==
  \A T, k, n : n \in Nat \ {0} /\ (\A i \in 1 .. n : k + i \in T) =>
    LET vs == [i \in 1 .. n |-> k + i]
    IN vs \in Seq(T) /\ vs # <<>> /\ Len(vs) = n /\ \A i \in 1 .. n : vs[i] = k + i
OBVIOUS

LEMMA StreamFlow ==
  ASSUME Inv, NEW s \in Streams,
         StartStream(s) \/ ContinueStream(s) \/ Next_Empty(s) \/ Next_Buffered(s) \/ Return(s) \/ AbortStream(s)
  PROVE  \A t \in Requests : FlowInv(t)'
BY OthersOfStream, StartFlow, ContinueFlow, EmptyFlow, BufferedFlow, LeaveFlow

LEMMA ServerFlow ==
  ASSUME Inv, NEW r \in Requests, ServerReceives(r) \/ ServerSendsChunk(r) \/ ServerExits(r)
  PROVE  \A t \in Requests : FlowInv(t)'
<1>1. UNCHANGED <<entries, resumed, ackPending, consumer, terminal, buffer, delivered, returned>>
  BY DEF ServerReceives, ServerSendsChunk, ServerExits, client, channel
<1>2. ASSUME NEW t \in Requests \ {r} PROVE FlowInv(t)'
  <2>1. /\ t \in serving' <=> t \in serving
        /\ t \in unacked' <=> t \in unacked
        /\ toServer'[t] = toServer[t] /\ toClient'[t] = toClient[t] /\ produced'[t] = produced[t]
    BY <1>2 DEF ServerReceives, ServerSendsChunk, ServerExits, Post, Inv, WireInv, ServerType
  <2>2. Same(t)
    BY <1>1, <2>1 DEF Same
  <2> QED
    BY <2>2, SameFlow, Idle
<1>3. /\ FlowInv(r) /\ (r \in unacked => r \in serving)
      /\ toServer[r] \in Seq(Sendings) /\ produced[r] \in Nat
      /\ r \in Streams => Got(r)' = Got(r)
  BY <1>1, Idle DEF Got, Inv, WireInv, ServerType
<1>4. CASE ServerReceives(r)
  <2>1. /\ toServer[r] # <<>> /\ toServer'[r] = Tail(toServer[r]) /\ UNCHANGED produced
        /\ Head(toServer[r]) \in Sendings
    BY <1>3, <1>4, QueueOps DEF ServerReceives, Inv, WireInv, ServerType
  <2>2. ~Unsent(r)'
    BY <1>1, <1>3, <2>1 DEF FlowInv, UnsentIsNew, Unsent
  <2>3. /\ AllHere(r)' <=> AllHere(r)
        /\ \A m \in Replies : AllBut(r, m)' <=> AllBut(r, m)
    BY <1>3, <2>1 DEF AllHere, AllBut
  <2>4. NoRequest(r) => NoRequest(r)' /\ Head(toServer[r]) # Request
    BY <1>3, <2>1, QueueOps DEF NoRequest
  <2>5. CASE Head(toServer[r]) = Request
    <3>1. r \in serving' /\ r \in serving' /\ UNCHANGED <<unacked, toClient>>
      BY <1>4, <2>5, Kinds DEF ServerReceives
    <3>2. InFlight(r)'
      <4>1. CASE r \in entries
        <5>1. OnItsWay(r)
          BY <1>3, <2>1, <2>4, <2>5, <4>1, Kinds, Short DEF FlowInv, InFlight, Served, Answered
        <5>2. Served(r)'
          BY <1>1, <1>3, <2>1, <2>3, <3>1, <5>1, Short DEF OnItsWay, Served
        <5> QED
          BY <5>2 DEF InFlight
      <4>2. CASE r \notin entries
        BY <1>1, <4>2 DEF InFlight
      <4> QED
        BY <4>1, <4>2
    <3>3. r \in Streams => InOrder(r)' /\ Held(r)'
      BY <1>1, <1>3, <2>1 DEF FlowInv, InOrder, Held, Got
    <3>4. r \in Streams => EndIsAll(r)'
      BY <1>1, <1>3, <2>4, <2>5 DEF FlowInv, EndIsAll
    <3> QED
      BY <1>2, <1>4, <2>2, <3>2, <3>3, <3>4 DEF FlowInv, UnsentIsNew
  <2>6. CASE Head(toServer[r]) # Request
    <3>1. \/ /\ Head(toServer[r]) = Ack /\ unacked' = unacked \ {r} /\ UNCHANGED <<serving, toClient>>
          \/ /\ Head(toServer[r]) = Interrupt /\ r \notin serving'
             /\ r \notin serving => UNCHANGED toClient
      BY <1>4, <2>1, <2>6, Kinds DEF ServerReceives, Sendings
    <3>2. InFlight(r)'
      <4>1. CASE r \in entries
        <5>1. ~OnItsWay(r)
          BY <2>1, <2>6, Short DEF OnItsWay
        <5>2. Served(r) => Served(r)'
          <6> SUFFICES ASSUME Served(r) PROVE Served(r)'
            OBVIOUS
          <6>1. /\ toServer[r] = <<Ack>> /\ toClient[r] = <<>> /\ AllHere(r)
                /\ r \in serving /\ r \notin ackPending
            BY <2>1 DEF Served
          <6>2. Head(toServer[r]) = Ack /\ toServer'[r] = <<>>
            BY <2>1, <6>1, Short
          <6>3. r \notin unacked' /\ UNCHANGED <<serving, toClient>>
            BY <3>1, <6>2, Kinds
          <6> QED
            BY <1>1, <2>3, <6>1, <6>2, <6>3 DEF Served
        <5>3. Answered(r) => Answered(r)'
          BY <1>1, <2>1, <2>3, <2>4, <3>1 DEF Answered
        <5> QED
          BY <1>3, <4>1, <5>1, <5>2, <5>3 DEF FlowInv, InFlight
      <4>2. CASE r \notin entries
        BY <1>1, <4>2 DEF InFlight
      <4> QED
        BY <4>1, <4>2
    <3>3. r \in Streams => InOrder(r)' /\ Held(r)'
      BY <1>1, <1>3, <2>1 DEF FlowInv, InOrder, Held, Got
    <3>4. r \in Streams => EndIsAll(r)'
      BY <1>1, <1>3, <2>1, <2>4, <3>1 DEF FlowInv, EndIsAll
    <3> QED
      BY <1>2, <1>4, <2>2, <3>2, <3>3, <3>4 DEF FlowInv, UnsentIsNew
  <2> QED
    BY <2>5, <2>6
<1>5. CASE ServerSendsChunk(r)
  <2>1. PICK n \in 1 .. MaxChunk :
          /\ produced[r] + n <= MaxValues
          /\ toClient' = Post(toClient, r, <<Chunk([i \in 1 .. n |-> produced[r] + i])>>)
          /\ produced' = [produced EXCEPT ![r] = @ + n]
    BY <1>5 DEF ServerSendsChunk
  <2> DEFINE vs == [i \in 1 .. n |-> produced[r] + i]
  <2>2. /\ r \in serving /\ r \notin unacked /\ r \in serving' /\ r \in unacked' /\ UNCHANGED toServer
        /\ produced'[r] = produced[r] + n /\ n \in Nat \ {0}
    BY <1>3, <1>5, <2>1, ConstantsAssumption DEF ServerSendsChunk, Inv, WireInv, ServerType
  <2>3. ~Unsent(r)'
    BY <1>1, <1>3, <2>2 DEF FlowInv, UnsentIsNew, Unsent
  <2>4. InFlight(r)'
    <3> SUFFICES ASSUME r \in entries PROVE Served(r)'
      BY <1>1 DEF InFlight
    <3>1. /\ r \notin ackPending /\ toServer[r] = <<>> /\ toClient[r] = <<>> /\ AllHere(r)
      BY <1>3, <2>2 DEF FlowInv, InFlight, OnItsWay, Served, Answered
    <3>2. toClient'[r] = <<Chunk(vs)>>
      BY <2>1, <3>1, Short DEF Post, Inv, WireInv, ServerType
    <3>3. vs \in Seq(Values) /\ vs # <<>> /\ Len(vs) = n /\ \A i \in 1 .. n : vs[i] = produced[r] + i
      <4>1. n \in Nat \ {0} /\ n <= MaxValues /\ \A i \in 1 .. n : produced[r] + i \in 1 .. MaxValues
        BY <1>3, <2>1, <2>2, ConstantsAssumption
      <4> QED
        BY <4>1, NumberedSeq DEF Values
    <3> HIDE DEF vs
    <3>4. PICK m \in Replies : m = Chunk(vs)
      BY <3>3, Messages
    <3>5. m.type = "Chunk" /\ m.values = vs
      BY <3>4, Kinds, Zenon
    <3>6. AllBut(r, m)'
      <4>1. m.values # <<>> /\ Len(m.values) = n /\ \A i \in 1 .. n : m.values[i] = produced[r] + i
        BY <3>3, <3>5, Zenon
      <4>2. r \in Streams => Got(r)' = produced[r]
        BY <1>3, <3>1 DEF AllHere
      <4>3. r \in Streams => Got(r)' + Len(m.values) = produced'[r]
        BY <2>2, <4>1, <4>2, Zenon
      <4>4. r \in Streams => \A i \in 1 .. Len(m.values) : m.values[i] = Got(r)' + i
        BY <4>1, <4>2, Zenon
      <4> QED
        BY <3>5, <4>1, <4>3, <4>4 DEF AllBut
    <3> QED
      BY <1>1, <2>2, <3>1, <3>2, <3>4, <3>6 DEF Served
  <2>5. r \in Streams => InOrder(r)' /\ Held(r)' /\ EndIsAll(r)'
    BY <1>1, <1>3, <2>2 DEF FlowInv, InOrder, Held, EndIsAll, Got, Inv, WireInv, ChannelType
  <2> QED
    BY <1>2, <1>5, <2>3, <2>4, <2>5 DEF FlowInv, UnsentIsNew
<1>6. CASE ServerExits(r)
  <2>1. PICK ok \in BOOLEAN : /\ ok => r \notin unacked
                              /\ toClient' = Post(toClient, r, <<Exit(ok)>>)
    BY <1>6 DEF ServerExits
  <2>2. r \in serving /\ r \notin serving' /\ UNCHANGED <<toServer, produced>>
    BY <1>6 DEF ServerExits
  <2>3. ~Unsent(r)'
    BY <1>1, <1>3, <2>2 DEF FlowInv, UnsentIsNew, Unsent
  <2>4. /\ AllHere(r)' <=> AllHere(r)
        /\ \A m \in Replies : AllBut(r, m)' <=> AllBut(r, m)
        /\ NoRequest(r)' <=> NoRequest(r)
    BY <1>3, <2>2 DEF AllHere, AllBut, NoRequest
  <2>5. InFlight(r)'
    <3> SUFFICES ASSUME r \in entries PROVE Answered(r)'
      BY <1>1 DEF InFlight
    <3>1. Served(r)
      BY <1>3, <2>2 DEF FlowInv, InFlight, OnItsWay, Answered
    <3>2. NoRequest(r)'
      BY <2>2, <3>1, Kinds, Short DEF Served, NoRequest
    <3>3. toClient'[r] = toClient[r] \o <<Exit(ok)>>
      BY <2>1 DEF Post, Inv, WireInv, ServerType
    <3>4. CASE toClient[r] = <<>> /\ AllHere(r)
      BY <2>2, <2>4, <3>2, <3>3, <3>4, Short DEF Answered
    <3>5. CASE r \in unacked /\ \E m \in Replies : toClient[r] = <<m>> /\ AllBut(r, m)
      BY <2>1, <2>2, <2>4, <3>2, <3>3, <3>5, Short DEF Answered
    <3> QED
      BY <3>1, <3>4, <3>5 DEF Served
  <2>6. r \in Streams => InOrder(r)' /\ Held(r)' /\ EndIsAll(r)'
    BY <1>1, <1>3, <2>2, <2>4 DEF FlowInv, InOrder, Held, EndIsAll, Got
  <2> QED
    BY <1>2, <1>6, <2>3, <2>5, <2>6 DEF FlowInv, UnsentIsNew
<1> QED
  BY <1>4, <1>5, <1>6

Ordered(d, b) ==
  (\A i \in 1 .. Len(d) : d[i] = i) /\ (\A i \in 1 .. Len(b) : b[i] = Len(d) + i)
Continues(d, b, vs) == vs # <<>> /\ \A i \in 1 .. Len(vs) : vs[i] = Len(d) + Len(b) + i
Taken(d, b, vs, n, d2, b2) == d2 = d \o SubSeq(vs, 1, n) /\ b2 = b \o SubSeq(vs, n + 1, Len(vs))

\* Values in order, the first n of them taken and the others kept.
LEMMA Joined ==
  \A d, b, vs \in Seq(Values), n \in {0, 1} : \A d2, b2 :
    (n = 1 => b = <<>>) /\ Ordered(d, b) /\ Continues(d, b, vs) /\ Taken(d, b, vs, n, d2, b2)
      => Ordered(d2, b2) /\ Len(d2) + Len(b2) = Len(d) + Len(b) + Len(vs)
<1> SUFFICES ASSUME NEW d \in Seq(Values), NEW b \in Seq(Values), NEW vs \in Seq(Values), NEW n \in {0, 1},
                    NEW d2, NEW b2, n = 1 => b = <<>>, Ordered(d, b), Continues(d, b, vs),
                    Taken(d, b, vs, n, d2, b2)
             PROVE  Ordered(d2, b2) /\ Len(d2) + Len(b2) = Len(d) + Len(b) + Len(vs)
  OBVIOUS
<1> USE DEF Ordered, Continues, Taken
<1>1. /\ Len(vs) \in Nat \ {0} /\ Len(d) \in Nat /\ Len(b) \in Nat
      /\ SubSeq(vs, 1, n) \in Seq(Values) /\ SubSeq(vs, n + 1, Len(vs)) \in Seq(Values)
      /\ Len(SubSeq(vs, 1, n)) = n /\ Len(SubSeq(vs, n + 1, Len(vs))) = Len(vs) - n
  <2>1. Len(vs) \in Nat \ {0} /\ Len(d) \in Nat /\ Len(b) \in Nat
    OBVIOUS
  <2>2. SubSeq(vs, 1, n) \in Seq(Values) /\ Len(SubSeq(vs, 1, n)) = n
    BY <2>1
  <2>3. SubSeq(vs, n + 1, Len(vs)) \in Seq(Values) /\ Len(SubSeq(vs, n + 1, Len(vs))) = Len(vs) - n
    BY <2>1
  <2> QED
    BY <2>1, <2>2, <2>3
<1>2. d2 \in Seq(Values) /\ b2 \in Seq(Values) /\ Len(d2) = Len(d) + n /\ Len(b2) = Len(b) + (Len(vs) - n)
  BY <1>1
<1>3. \A i \in 1 .. Len(d2) : d2[i] = i
  <2>1. \A i \in 1 .. Len(d) : d2[i] = i
    BY <1>1
  <2>2. n = 1 => d2[Len(d) + 1] = Len(d) + 1
    <3>1. n = 1 => d2[Len(d) + 1] = vs[1]
      BY <1>1
    <3>2. n = 1 => Len(b) = 0
      OBVIOUS
    <3> QED
      BY <1>1, <3>1, <3>2
  <2> QED
    BY <1>1, <1>2, <2>1, <2>2
<1>4. \A i \in 1 .. Len(b2) : b2[i] = Len(d2) + i
  <2>1. CASE n = 0
    <3>1. \A i \in 1 .. Len(b) : b2[i] = b[i]
      BY <1>1
    <3>2. \A i \in 1 .. Len(vs) : b2[Len(b) + i] = vs[i]
      BY <1>1, <2>1
    <3>3. \A i \in Len(b) + 1 .. Len(b) + Len(vs) : b2[i] = vs[i - Len(b)]
      BY <1>1, <2>1
    <3> QED
      BY <1>1, <1>2, <2>1, <3>1, <3>3
  <2>2. CASE n = 1
    <3>1. b = <<>> /\ Len(b) = 0
      BY <2>2
    <3>2. \A i \in 1 .. Len(vs) - 1 : b2[i] = vs[i + 1]
      BY <1>1, <2>2, <3>1
    <3> QED
      BY <1>1, <1>2, <2>2, <3>1, <3>2
  <2> QED
    BY <2>1, <2>2
<1>5. Len(d2) + Len(b2) = Len(d) + Len(b) + Len(vs)
  <2>1. \A m, k, l \in Nat : (m + n) + (k + (l - n)) = m + k + l
    OBVIOUS
  <2>2. (Len(d) + n) + (Len(b) + (Len(vs) - n)) = Len(d) + Len(b) + Len(vs)
    BY <1>1, <2>1
  <2> QED
    BY <1>2, <2>2, Zenon
<1> QED
  BY <1>3, <1>4, <1>5, Zenon

\* A chunk is taken up by the channel: its first value by a consumer that waits.
LEMMA TakesUp ==
  ASSUME Inv, NEW s \in Streams, NEW vs \in Seq(Values), vs # <<>>, Push(s, vs), terminal[s] = "none",
         InOrder(s), \A i \in 1 .. Len(vs) : vs[i] = Got(s) + i, Got(s) + Len(vs) = produced[s]
  PROVE  /\ Got(s)' = Got(s) + Len(vs)
         /\ \A i \in 1 .. Len(delivered'[s]) : delivered'[s][i] = i
         /\ \A i \in 1 .. Len(buffer'[s]) : buffer'[s][i] = Len(delivered'[s]) + i
         /\ consumer'[s] = IF consumer[s] = "pulling" THEN "ready" ELSE consumer[s]
<1> DEFINE n == IF consumer[s] = "pulling" THEN 1 ELSE 0
<1>1. /\ buffer' = [buffer EXCEPT ![s] = @ \o SubSeq(vs, n + 1, Len(vs))]
      /\ delivered' = [delivered EXCEPT ![s] = @ \o SubSeq(vs, 1, n)]
      /\ consumer' = [consumer EXCEPT ![s] = IF n = 1 THEN "ready" ELSE @]
  BY Zenon DEF Push
<1>2. /\ delivered[s] \in Seq(Values) /\ buffer[s] \in Seq(Values) /\ n \in {0, 1}
      /\ n = 1 => buffer[s] = <<>>
  BY DEF Inv, WireInv, ChannelType, InOrder
<1>3. /\ \A i \in 1 .. Len(delivered[s]) : delivered[s][i] = i
      /\ \A i \in 1 .. Len(buffer[s]) : buffer[s][i] = Len(delivered[s]) + i
      /\ \A i \in 1 .. Len(vs) : vs[i] = Len(delivered[s]) + Len(buffer[s]) + i
  BY DEF InOrder, Got
<1>4. /\ buffer'[s] = buffer[s] \o SubSeq(vs, n + 1, Len(vs))
      /\ delivered'[s] = delivered[s] \o SubSeq(vs, 1, n)
      /\ consumer'[s] = IF consumer[s] = "pulling" THEN "ready" ELSE consumer[s]
  BY <1>1 DEF Inv, WireInv, ChannelType, RequestsInv, RequestsType
<1> HIDE DEF n
<1>5. /\ Len(delivered'[s]) + Len(buffer'[s]) = Len(delivered[s]) + Len(buffer[s]) + Len(vs)
      /\ \A i \in 1 .. Len(delivered'[s]) : delivered'[s][i] = i
      /\ \A i \in 1 .. Len(buffer'[s]) : buffer'[s][i] = Len(delivered'[s]) + i
  <2>1. PICK d, b, d2, b2, k : /\ d = delivered[s] /\ b = buffer[s] /\ k = n
                              /\ d2 = delivered'[s] /\ b2 = buffer'[s]
    OBVIOUS
  <2>2. d \in Seq(Values) /\ b \in Seq(Values) /\ k \in {0, 1} /\ (k = 1 => b = <<>>)
    BY <1>2, <2>1, Zenon
  <2>3. Taken(d, b, vs, k, d2, b2)
    BY <1>4, <2>1, Zenon DEF Taken
  <2>4. Ordered(d, b) /\ Continues(d, b, vs)
    BY <1>3, <2>1, Zenon DEF Ordered, Continues
  <2>5. Ordered(d2, b2) /\ Len(d2) + Len(b2) = Len(d) + Len(b) + Len(vs)
    BY <2>2, <2>3, <2>4, vs \in Seq(Values), Joined
  <2> QED
    BY <2>1, <2>5, Zenon DEF Ordered
<1> QED
  BY <1>4, <1>5, Zenon DEF Got

LEMMA OthersOfEnvelope ==
  ASSUME Inv, NEW r \in Requests, OnEnvelope(r), NEW t \in Requests \ {r}
  PROVE  FlowInv(t)'
<1> USE Apart DEF Inv, RequestsInv, RequestsType, WireInv, ServerType, ChannelType
<1>1. /\ UNCHANGED <<resumed, serving, unacked, produced>>
      /\ toClient'[t] = toClient[t]
  <2>1. UNCHANGED <<serving, unacked, produced>> /\ toClient'[t] = toClient[t]
    BY DEF OnEnvelope, server
  <2>2. CASE OnChunk(r, Head(toClient[r]).values)
    BY <2>1, <2>2 DEF OnChunk, client
  <2>3. CASE OnExit(r, Head(toClient[r]).ok)
    BY <2>1, <2>3 DEF OnExit, client
  <2> QED
    BY <2>1, <2>2, <2>3, Zenon DEF OnEnvelope
<1>2. CASE OnChunk(r, Head(toClient[r]).values)
  <2>1. /\ UNCHANGED <<entries, returned, terminal>>
        /\ t \in ackPending' <=> t \in ackPending
        /\ toServer'[t] = toServer[t]
    BY <1>2 DEF OnChunk, client, channel, Post
  <2>2. t \in Streams =>
         /\ consumer'[t] = consumer[t]
         /\ buffer'[t] = buffer[t] /\ delivered'[t] = delivered[t]
    BY <1>2 DEF OnChunk, Push, client, channel
  <2>3. Same(t)
    BY <1>1, <2>1, <2>2 DEF Same
  <2> QED
    BY <2>3, SameFlow
<1>3. CASE OnExit(r, Head(toClient[r]).ok) /\ UNCHANGED toServer
  <2>1. /\ t \in entries' <=> t \in entries
        /\ t \in ackPending' <=> t \in ackPending
        /\ UNCHANGED <<returned, buffer, delivered>>
    BY <1>3 DEF OnExit, client, channel
  <2>2. t \in Streams => consumer'[t] = consumer[t] /\ terminal'[t] = terminal[t]
    BY <1>3 DEF OnExit, client, channel, Terminate
  <2>3. Same(t)
    BY <1>1, <1>3, <2>1, <2>2 DEF Same
  <2> QED
    BY <2>3, SameFlow
<1> QED
  BY <1>2, <1>3, Zenon DEF OnEnvelope

\* A request that is in flight and has an envelope to receive.
LEMMA Receivable ==
  ASSUME Inv, NEW r \in Requests, OnEnvelope(r), r \in entries
  PROVE  \/ /\ Served(r) /\ r \in unacked /\ r \notin ackPending /\ toServer[r] = <<>> /\ toClient'[r] = <<>>
            /\ AllBut(r, Head(toClient[r])) /\ Head(toClient[r]) \in Replies
         \/ /\ Answered(r) /\ toClient'[r] = <<Exit(FALSE)>>
            /\ AllBut(r, Head(toClient[r])) /\ Head(toClient[r]) \in Replies
         \/ /\ Answered(r) /\ toClient'[r] = <<>>
            /\ AllHere(r) /\ \E ok \in BOOLEAN : Head(toClient[r]) = Exit(ok)
<1>1. toClient[r] # <<>> /\ toClient'[r] = Tail(toClient[r])
  BY DEF OnEnvelope, Inv, WireInv, ServerType
<1>2. Served(r) \/ Answered(r)
  BY <1>1, Idle DEF FlowInv, InFlight, OnItsWay
<1>3. CASE Served(r)
  <2>1. PICK m \in Replies : toClient[r] = <<m>> /\ AllBut(r, m)
    BY <1>1, <1>3 DEF Served
  <2>2. Head(toClient[r]) = m /\ toClient'[r] = <<>>
    BY <1>1, <2>1, Short, Zenon
  <2>3. r \in unacked /\ r \notin ackPending /\ toServer[r] = <<>>
    BY <1>1, <1>3 DEF Served
  <2>4. AllBut(r, Head(toClient[r])) /\ Head(toClient[r]) \in Replies
    BY <2>1, <2>2
  <2>5. toClient'[r] = <<>>
    BY <2>2
  <2> QED
    BY <1>3, <2>3, <2>4, <2>5, Zenon
<1>4. CASE Answered(r)
  <2>1. CASE \E ok \in BOOLEAN : toClient[r] = <<Exit(ok)>> /\ AllHere(r)
    BY <1>1, <1>4, <2>1, Short, Zenon
  <2>2. CASE \E m \in Replies : toClient[r] = <<m, Exit(FALSE)>> /\ AllBut(r, m)
    <3>1. PICK m \in Replies : toClient[r] = <<m, Exit(FALSE)>> /\ AllBut(r, m)
      BY <2>2
    <3>2. Head(toClient[r]) = m /\ toClient'[r] = <<Exit(FALSE)>>
      <4>1. Head(toClient[r]) = m /\ Tail(toClient[r]) = <<Exit(FALSE)>>
        BY <3>1, PairParts, Zenon
      <4> QED
        BY <1>1, <4>1, Zenon
    <3>3. AllBut(r, Head(toClient[r])) /\ Head(toClient[r]) \in Replies
      BY <3>1, <3>2, Zenon
    <3>4. toClient'[r] = <<Exit(FALSE)>>
      BY <3>2, Zenon
    <3> QED
      BY <1>4, <3>3, <3>4, Zenon
  <2> QED
    BY <1>4, <2>1, <2>2 DEF Answered
<1> QED
  BY <1>2, <1>3, <1>4

\* An envelope of a request that is settled changes nothing.
LEMMA StrayFlow ==
  ASSUME Inv, NEW r \in Requests, OnEnvelope(r), r \notin entries
  PROVE  FlowInv(r)'
<1>1. UNCHANGED <<client, toServer, server>> /\ toClient[r] # <<>>
  BY Kinds DEF OnEnvelope, OnChunk, OnExit
<1>2. FlowInv(r) /\ ~Unsent(r) /\ r \notin ackPending
  BY <1>1, Idle DEF FlowInv, UnsentIsNew
<1>3. /\ ~Unsent(r)' /\ (NoRequest(r)' <=> NoRequest(r)) /\ Got(r)' = Got(r)
      /\ r \in Streams => InOrder(r)'
  BY <1>1, <1>2 DEF client, channel, server, Unsent, NoRequest, Got, FlowInv, InOrder
<1> QED
  BY <1>1, <1>2, <1>3, NotInFlight DEF client, channel, server

LEMMA ChunkFlow ==
  ASSUME Inv, NEW r \in Requests, OnEnvelope(r), r \in entries, OnChunk(r, Head(toClient[r]).values),
         AllBut(r, Head(toClient[r])), Head(toClient[r]) \in Replies,
         \/ /\ Served(r) /\ r \in unacked /\ r \notin ackPending /\ toServer[r] = <<>> /\ toClient'[r] = <<>>
         \/ /\ Answered(r) /\ toClient'[r] = <<Exit(FALSE)>>
  PROVE  FlowInv(r)'
<1> DEFINE vs == Head(toClient[r]).values
<1>1. /\ FlowInv(r) /\ ~Unsent(r) /\ UNCHANGED <<entries, resumed, returned, terminal, serving, unacked, produced>>
      /\ vs \in Seq(Values) /\ vs # <<>>
      /\ r \in Streams => (\A i \in 1 .. Len(vs) : vs[i] = Got(r) + i) /\ Got(r) + Len(vs) = produced[r]
  <2>1. FlowInv(r) /\ ~Unsent(r)
    BY Idle
  <2>2. UNCHANGED <<serving, unacked, produced>>
    BY DEF OnEnvelope, server
  <2>3. UNCHANGED <<entries, resumed, returned, terminal>>
    BY DEF OnChunk, client, channel
  <2>4. vs \in Seq(Values)
    BY DEF AllBut, Replies
  <2> QED
    BY <2>1, <2>2, <2>3, <2>4 DEF AllBut
<1> HIDE DEF vs
<1>2. toServer'[r] \in {toServer[r], toServer[r] \o <<Ack>>}
  BY DEF OnChunk, Post, Inv, WireInv, ServerType
<1>3. NoRequest(r) => NoRequest(r)'
  <2>1. toServer[r] \in Seq(Sendings)
    BY DEF Inv, WireInv, ServerType
  <2> QED
    BY <1>2, <2>1, NoRequestAdded DEF NoRequest
<1>4. ~Unsent(r)'
  <2>1. CASE r \in Calls
    BY <1>1, <2>1 DEF Unsent
  <2>2. CASE r \in Streams /\ r \notin Calls
    <3>1. consumer[r] \in {"ready", "pulling"} /\ terminal[r] = "none" /\ Push(r, vs)
      BY <2>2, Idle DEF OnChunk, vs
    <3>2. consumer'[r] \in {"ready", "pulling"}
      BY <1>1, <2>2, <3>1, Idle, TakesUp DEF FlowInv
    <3> QED
      BY <2>2, <3>2 DEF Unsent
  <2> QED
    BY <2>1, <2>2, Apart
<1>5. /\ AllHere(r)'
      /\ \/ toServer'[r] = toServer[r] \o <<Ack>> /\ r \notin ackPending'
         \/ r \in Streams /\ toServer'[r] = toServer[r] /\ r \in ackPending'
      /\ r \in Streams => InOrder(r)' /\ Held(r)'
  <2>1. CASE r \in Calls
    <3>1. r \notin Streams /\ r \notin ackPending
      BY <2>1, Idle
    <3>2. UNCHANGED ackPending /\ toServer' = Post(toServer, r, <<Ack>>)
      BY <2>1, <3>1 DEF OnChunk, client
    <3> QED
      BY <3>1, <3>2 DEF AllHere, Post, Inv, WireInv, ServerType
  <2>2. CASE r \in Streams /\ r \notin Calls
    <3>1. terminal[r] = "none" /\ consumer[r] \in {"ready", "pulling"} /\ Push(r, vs)
      BY <2>2, Idle DEF OnChunk, vs
    <3>2. /\ Got(r)' = Got(r) + Len(vs)
          /\ \A i \in 1 .. Len(delivered'[r]) : delivered'[r][i] = i
          /\ \A i \in 1 .. Len(buffer'[r]) : buffer'[r][i] = Len(delivered'[r]) + i
          /\ consumer'[r] = IF consumer[r] = "pulling" THEN "ready" ELSE consumer[r]
      BY <1>1, <2>2, <3>1, TakesUp DEF FlowInv
    <3>3. Got(r)' = produced'[r]
      BY <1>1, <2>2, <3>2, Zenon
    <3>4. consumer'[r] = "ready"
      BY <3>1, <3>2
    <3>5. InOrder(r)'
      <4>1. Got(r)' <= produced'[r]
        BY <1>1, <3>3 DEF Inv, WireInv, ServerType
      <4> QED
        BY <3>2, <3>4, <4>1 DEF InOrder
    <3>6. IF MayAck(r, TRUE, Len(buffer'[r]))
          THEN toServer' = Post(toServer, r, <<Ack>>) /\ ackPending' = ackPending \ {r}
          ELSE ackPending' = ackPending \cup {r} /\ UNCHANGED toServer
      BY <2>2 DEF OnChunk
    <3>7. Len(buffer'[r]) \in Nat /\ (MayAck(r, TRUE, Len(buffer'[r])) <=> ~(Len(buffer'[r]) > HighWaterMark))
      <4>1. buffer'[r] \in Seq(Values)
        BY <2>2, OtherSteps DEF Inv, Receive, WireInv, ChannelType
      <4> QED
        BY <4>1, ConstantsAssumption DEF MayAck
    <3>8. Held(r)'
      BY <1>1, <3>6, <3>7 DEF Held
    <3> QED
      BY <2>2, <3>3, <3>5, <3>6, <3>8 DEF AllHere, Post, Inv, WireInv, ServerType
  <2> QED
    BY <2>1, <2>2, Apart
<1>6. InFlight(r)'
  <2>1. CASE Served(r) /\ r \in unacked /\ toServer[r] = <<>> /\ toClient'[r] = <<>>
    <3>1. toServer[r] \o <<Ack>> = <<Ack>>
      BY <2>1, Short, Zenon
    <3> QED
      BY <1>1, <1>5, <2>1, <3>1 DEF InFlight, Served
  <2>2. CASE Answered(r) /\ toClient'[r] = <<Exit(FALSE)>>
    BY <1>1, <1>3, <1>5, <2>2 DEF InFlight, Answered
  <2> QED
    BY <2>1, <2>2
<1>7. r \in Streams => EndIsAll(r)'
  BY <1>1, Idle DEF EndIsAll
<1> QED
  BY <1>4, <1>5, <1>6, <1>7 DEF FlowInv, UnsentIsNew

LEMMA ExitFlow ==
  ASSUME Inv, NEW r \in Requests, OnEnvelope(r), r \in entries, OnExit(r, Head(toClient[r]).ok), UNCHANGED toServer,
         Answered(r), AllHere(r)
  PROVE  FlowInv(r)'
<1>1. /\ FlowInv(r) /\ ~Unsent(r) /\ r \notin entries' /\ r \notin ackPending'
      /\ UNCHANGED <<resumed, returned, buffer, delivered, serving, produced>>
      /\ NoRequest(r) /\ NoRequest(r)' /\ r \notin serving
  BY Idle DEF OnExit, OnEnvelope, client, server, Answered, NoRequest
<1>2. r \in Streams => consumer'[r] \in {"ready", "finished"}
  BY Idle DEF OnExit, client, Terminate
<1>3. ~Unsent(r)'
  BY <1>1, <1>2, Apart DEF Unsent
<1>4. r \in Streams => InOrder(r)' /\ EndIsAll(r)' /\ Held(r)'
  <2> SUFFICES ASSUME r \in Streams PROVE InOrder(r)' /\ EndIsAll(r)' /\ Held(r)'
    OBVIOUS
  <2>1. Got(r)' = Got(r) /\ Got(r) = produced[r]
    BY <1>1 DEF Got, AllHere
  <2>2. InOrder(r)'
    BY <1>1, <1>2, <2>1 DEF FlowInv, InOrder
  <2> QED
    BY <1>1, <2>1, <2>2 DEF EndIsAll, Held
<1> QED
  BY <1>1, <1>3, <1>4 DEF FlowInv, UnsentIsNew, InFlight

LEMMA EnvelopeFlow ==
  ASSUME Inv, NEW r \in Requests, OnEnvelope(r)
  PROVE  \A t \in Requests : FlowInv(t)'
<1>1. CASE r \notin entries
  BY <1>1, StrayFlow, OthersOfEnvelope
<1>2. CASE r \in entries
  <2>1. CASE Head(toClient[r]).type = "Chunk" /\ OnChunk(r, Head(toClient[r]).values)
    <3>1. ~\E ok \in BOOLEAN : Head(toClient[r]) = Exit(ok)
      BY <2>1, Kinds
    <3>2. FlowInv(r)'
      BY <1>2, <2>1, <3>1, Receivable, ChunkFlow
    <3> QED
      BY <3>2, OthersOfEnvelope
  <2>2. CASE Head(toClient[r]).type = "Exit" /\ OnExit(r, Head(toClient[r]).ok) /\ UNCHANGED toServer
    <3>1. ~AllBut(r, Head(toClient[r]))
      BY <2>2 DEF AllBut
    <3>2. FlowInv(r)'
      BY <1>2, <2>2, <3>1, Receivable, ExitFlow
    <3> QED
      BY <3>2, OthersOfEnvelope
  <2> QED
    BY <2>1, <2>2, Zenon DEF OnEnvelope
<1> QED
  BY <1>1, <1>2

LEMMA FlowStep == Inv /\ [Next]_vars => Inv'
<1> SUFFICES ASSUME Inv, [Next]_vars PROVE \A r \in Requests : FlowInv(r)'
  BY RequestsStep, WireStep DEF Inv
<1>1. CASE UNCHANGED vars
  BY <1>1, SameFlow, Idle DEF vars, client, channel, wire, server, Same
<1>2. CASE User \/ Consume \/ Continue
  BY <1>2, CallFlow, StreamFlow DEF User, Consume, Continue
<1>3. CASE Receive
  BY <1>3, EnvelopeFlow DEF Receive
<1>4. CASE Server
  BY <1>4, ServerFlow DEF Server
<1>5. CASE OnDefect \/ Transport
  BY <1>5, LinkFlow
<1> QED
  BY <1>1, <1>2, <1>3, <1>4, <1>5 DEF Next

LEMMA FlowInit == Init => Inv
<1> SUFFICES ASSUME Init, NEW r \in Requests PROVE FlowInv(r)
  BY RequestsInit, WireInit DEF Inv
<1> USE Apart, ConstantsAssumption DEF Init
<1>1. UnsentIsNew(r) /\ InFlight(r)
  BY DEF UnsentIsNew, InFlight
<1>2. ASSUME r \in Streams PROVE InOrder(r) /\ Held(r) /\ EndIsAll(r)
  BY <1>2 DEF InOrder, Held, EndIsAll, Got
<1> QED
  BY <1>1, <1>2 DEF FlowInv

LEMMA FlowCorrect == Spec => []Inv
BY FlowInit, FlowStep, PTL DEF Spec

\* How many envelopes of a kind there are in a queue this short.
LEMMA Counts ==
  /\ \A type : Cardinality(Envelopes(<<>>, type)) = 0
  /\ \A m : Cardinality(Envelopes(<<m>>, m.type)) = 1
<1>1. \A type : Envelopes(<<>>, type) = {}
  BY DEF Envelopes
<1>2. \A m : Envelopes(<<m>>, m.type) = {1}
  BY DEF Envelopes
<1> QED
  BY <1>1, <1>2, FS_EmptySet, FS_Singleton

\* A sequence numbered from 1, in two parts.
LEMMA Numbered ==
  ASSUME NEW d \in Seq(Nat), NEW b \in Seq(Nat),
         \A i \in 1 .. Len(d) : d[i] = i,
         \A i \in 1 .. Len(b) : b[i] = Len(d) + i
  PROVE  Len(d \o b) = Len(d) + Len(b) /\ d \o b = UpTo(Len(d \o b))
<1>1. /\ d \o b \in Seq(Nat) /\ Len(d \o b) = Len(d) + Len(b)
      /\ \A i \in 1 .. Len(d) + Len(b) : (d \o b)[i] = IF i <= Len(d) THEN d[i] ELSE b[i - Len(d)]
  BY ConcatProperties
<1>2. Len(d) \in Nat /\ Len(b) \in Nat
  OBVIOUS
<1>3. ASSUME NEW i \in 1 .. Len(d) + Len(b) PROVE (d \o b)[i] = i
  <2>1. CASE i <= Len(d)
    BY <1>1, <1>2, <2>1
  <2>2. CASE ~(i <= Len(d))
    <3>1. i - Len(d) \in 1 .. Len(b)
      BY <1>2, <2>2
    <3> QED
      BY <1>1, <1>2, <2>2, <3>1
  <2> QED
    BY <2>1, <2>2
<1>4. \A n \in Nat : /\ UpTo(n) \in Seq(Nat) /\ Len(UpTo(n)) = n
                     /\ \A i \in 1 .. n : UpTo(n)[i] = i
  BY DEF UpTo
<1>5. Len(d) + Len(b) \in Nat
  BY <1>2
<1>6. \A p \in Seq(Nat), q \in Seq(Nat) :
        Len(p) = Len(q) /\ (\A i \in 1 .. Len(p) : p[i] = q[i]) => p = q
  BY SeqEqual
<1>7. d \o b = UpTo(Len(d) + Len(b))
  <2>1. UpTo(Len(d) + Len(b)) \in Seq(Nat) /\ Len(UpTo(Len(d) + Len(b))) = Len(d) + Len(b)
    BY <1>4, <1>5
  <2>2. \A i \in 1 .. Len(d) + Len(b) : UpTo(Len(d) + Len(b))[i] = i
    BY <1>4, <1>5
  <2>3. \A i \in 1 .. Len(d \o b) : (d \o b)[i] = UpTo(Len(d) + Len(b))[i]
    BY <1>1, <1>3, <2>2
  <2> QED
    BY <1>1, <1>6, <2>1, <2>3
<1> QED
  BY <1>1, <1>7

LEMMA InvIsOrder == Inv => ValuesInOrder
<1> SUFFICES ASSUME Inv, NEW s \in Streams
             PROVE  LET got == delivered[s] \o buffer[s]
                    IN got = UpTo(Len(got)) /\ Len(got) <= produced[s]
  BY DEF ValuesInOrder
<1>1. delivered[s] \in Seq(Nat) /\ buffer[s] \in Seq(Nat)
  BY ConstantsAssumption DEF Inv, WireInv, ChannelType, Values
<1>2. InOrder(s)
  BY Apart DEF Inv, FlowInv
<1> QED
  BY <1>1, <1>2, Numbered DEF InOrder, Got

LEMMA InvIsConservation == Inv => AckConservation
<1> SUFFICES ASSUME Inv, NEW r \in entries \cap serving
             PROVE  Cardinality(Envelopes(toClient[r], "Chunk"))
                      + Cardinality(Envelopes(toServer[r], "Ack"))
                      + (IF r \in ackPending THEN 1 ELSE 0)
                    = IF r \in unacked THEN 1 ELSE 0
  BY DEF AckConservation
<1>1. Served(r)
  BY DEF Inv, FlowInv, InFlight, OnItsWay, Answered, RequestsInv, RequestsType
<1>2. Cardinality(Envelopes(<<Ack>>, "Ack")) = 1
  BY Counts, Kinds
<1>3. \A m : m.type = "Chunk" => Cardinality(Envelopes(<<m>>, "Chunk")) = 1
  BY Counts
<1> QED
  BY <1>1, <1>2, <1>3, Counts DEF Served, AllBut

\* A stream hands over what the server sent, in order and to the end; an Ack is held back just
\* while there is more than the mark to consume and is never lost nor sent twice, for every
\* mark, chunk size and number of values (rpcConnection.ts:209-219, 242-289,
\* asyncIterable.ts:43-83).
THEOREM StreamCorrectAlways == Spec => []StreamCorrect
<1>1. Inv => CompleteAtEnd
  BY Apart DEF Inv, FlowInv, EndIsAll, Got, CompleteAtEnd
<1>2. Inv => AckHeldForBacklog
  BY Apart DEF Inv, FlowInv, Held, AckHeldForBacklog, RequestsInv, RequestsType
<1>3. Inv => StreamCorrect
  BY <1>1, <1>2, InvIsOrder, InvIsConservation DEF StreamCorrect, StreamFaithful, FlowControlled
<1> QED
  BY <1>3, FlowCorrect, PTL
===================================================================================
