------------------------------- MODULE ProxyProofs -------------------------------
(* Theorems about Bridge and ProxyConnection, for every size of frame, high-water *)
(* mark, read and number of frames.                                               *)
EXTENDS ProxyConnection, FiniteSetTheorems, FunctionTheorems, TLAPS

LEMMA SidesFacts == /\ "client" \in Sides /\ "server" \in Sides
                    /\ \A s \in Sides : Other(s) \in Sides /\ Other(s) # s
BY DEF Sides, Other

LEMMA Constants == /\ GoingAway \in Nat /\ Protocol \in Nat /\ NoCode \in Nat /\ Lost \in Nat /\ Unknown \in Nat
BY DEF GoingAway, Protocol, NoCode, Lost, Unknown

LEMMA ItemTypes ==
  /\ \A n \in Nat, size \in Sizes : Frame(n, size) \in Writable
  /\ \A c \in Nat, why \in {"peer", "own", "bridge"} : CloseFrame(c, why) \in Writable
  /\ Writable \subseteq Items /\ Malformed \in Items
BY DEF Frame, CloseFrame, Malformed, Items, Writable

LEMMA ItemFields ==
  /\ \A item \in Items : item.kind = "frame" => item \in Writable /\ item.size \in Sizes
  /\ \A item \in Items : item.kind = "close" => item.code \in Nat
  /\ \A item \in Writable : item.kind # "frame" => item.code \in Nat
BY DEF Items, Writable

\* The sequence operators the model is built from.
LEMMA QueueOps ==
  ASSUME NEW T, NEW q \in Seq(T)
  PROVE  /\ Len(q) \in Nat /\ (q # <<>> <=> Len(q) > 0)
         /\ \A x \in T : Append(q, x) \in Seq(T) /\ Len(Append(q, x)) = Len(q) + 1
         /\ q # <<>> => Head(q) \in T /\ Tail(q) \in Seq(T) /\ Len(Tail(q)) = Len(q) - 1
OBVIOUS

LEMMA EmptyQueue == \A T : <<>> \in Seq(T) /\ Len(<<>>) = 0
OBVIOUS

-----------------------------------------------------------------------------
(* The queues *)

States == {"none", "connecting", "open", "closing", "closed"}

InboxInv ==
  /\ inbox \in [Sides -> Seq(Items)] /\ chunk \in [Sides -> Nat]
  /\ \A s \in Sides : chunk[s] <= Len(inbox[s])
OutboxInv == outbox \in [Sides -> Seq(Writable)]
TallyInv  == tally \in [Sides -> Tallies] /\ code \in [Sides -> Nat]

QueuesInv == InboxInv /\ OutboxInv /\ TallyInv

LEMMA ClosesQueues ==
  ASSUME OutboxInv, NEW S, NEW c \in Nat, NEW why \in {"peer", "own", "bridge"}, Closes(S, c, why)
  PROVE  OutboxInv'
BY ItemTypes, QueueOps DEF Closes, OutboxInv

LEMMA HeadType ==
  ASSUME InboxInv, NEW s \in Sides, chunk[s] > 0
  PROVE  /\ inbox[s] # <<>> /\ Head(inbox[s]) \in Items
         /\ Tail(inbox[s]) \in Seq(Items) /\ Len(Tail(inbox[s])) = Len(inbox[s]) - 1
         /\ chunk[s] \in Nat /\ Len(inbox[s]) \in Nat /\ chunk[s] <= Len(inbox[s])
<1>1. inbox[s] \in Seq(Items) /\ chunk[s] <= Len(inbox[s]) /\ chunk[s] \in Nat
  BY DEF InboxInv
<1>2. QED
  BY <1>1, QueueOps

LEMMA OutHead ==
  ASSUME OutboxInv, NEW s \in Sides, outbox[s] # <<>>
  PROVE  Head(outbox[s]) \in Writable /\ Tail(outbox[s]) \in Seq(Writable)
BY QueueOps DEF OutboxInv

\* The queue of a side is emptied, once nothing of it will be received.
LEMMA Emptied ==
  ASSUME InboxInv, NEW s \in Sides,
         inbox' = [inbox EXCEPT ![s] = <<>>], chunk' = [chunk EXCEPT ![s] = 0]
  PROVE  InboxInv'
BY EmptyQueue DEF InboxInv

LEMMA PeerSendsQueues == ASSUME QueuesInv, NEW s \in Sides, PeerSends(s) PROVE QueuesInv'
<1>1. PICK x \in Items : inbox' = [inbox EXCEPT ![s] = Append(@, x)]
  <2>1. tally[s].sent + 1 \in Nat
    BY DEF QueuesInv, TallyInv, Tallies
  <2>2. CASE \E size \in Sizes : inbox' = [inbox EXCEPT ![s] = Append(@, Frame(tally[s].sent + 1, size))]
    BY <2>1, <2>2, ItemTypes
  <2>3. CASE \E last \in {CloseFrame(c, "peer") : c \in Codes \cup {NoCode}} \cup {Malformed} :
               inbox' = [inbox EXCEPT ![s] = Append(@, last)]
    <3>1. Codes \cup {NoCode} \subseteq Nat
      BY Constants, BridgeAssumption DEF Readable
    <3>2. {CloseFrame(c, "peer") : c \in Codes \cup {NoCode}} \cup {Malformed} \subseteq Items
      BY <3>1, ItemTypes
    <3>3. QED
      BY <2>3, <3>2
  <2>4. QED
    BY <2>2, <2>3 DEF PeerSends
<1>2. InboxInv'
  <2>1. /\ Append(inbox[s], x) \in Seq(Items) /\ Len(Append(inbox[s], x)) = Len(inbox[s]) + 1
        /\ Len(inbox[s]) \in Nat
    BY QueueOps DEF QueuesInv, InboxInv
  <2>2. chunk' = chunk
    BY DEF PeerSends
  <2>3. inbox' \in [Sides -> Seq(Items)]
    BY <1>1, <2>1 DEF QueuesInv, InboxInv
  <2>4. ASSUME NEW r \in Sides PROVE chunk'[r] <= Len(inbox'[r])
    BY <1>1, <2>1, <2>2 DEF QueuesInv, InboxInv
  <2>5. QED
    BY <2>2, <2>3, <2>4 DEF QueuesInv, InboxInv
<1>3. OutboxInv' /\ code' = code
  BY DEF PeerSends, QueuesInv, OutboxInv, sockets
<1>4. tally' \in [Sides -> Tallies]
  <2>1. CASE UNCHANGED tally
    BY <2>1 DEF QueuesInv, TallyInv
  <2>2. CASE tally' = [tally EXCEPT ![s].sent = @ + 1]
    BY <2>2 DEF QueuesInv, TallyInv, Tallies
  <2>3. QED
    BY <2>1, <2>2 DEF PeerSends
<1>5. QED
  BY <1>2, <1>3, <1>4 DEF QueuesInv, TallyInv

LEMMA ReadQueues == ASSUME QueuesInv, NEW s \in Sides, Read(s) PROVE QueuesInv'
<1>1. PICK n \in 1..Chunk : n <= Len(inbox[s]) /\ chunk' = [chunk EXCEPT ![s] = n]
  BY DEF Read
<1>2. InboxInv'
  BY <1>1, BridgeAssumption DEF Read, QueuesInv, InboxInv
<1>3. QED
  BY <1>2 DEF Read, sockets, QueuesInv, OutboxInv, TallyInv

LEMMA ForwardQueues ==
  ASSUME OutboxInv, NEW s \in Sides, NEW frame \in Writable, Forward(s, frame)
  PROVE  OutboxInv'
<1>1. CASE UNCHANGED outbox
  BY <1>1 DEF OutboxInv
<1>2. CASE outbox' = [outbox EXCEPT ![Other(s)] = Append(@, frame)]
  BY <1>2, QueueOps, SidesFacts DEF OutboxInv
<1>3. QED
  BY <1>1, <1>2 DEF Forward

LEMMA ReceivesQueues == ASSUME QueuesInv, NEW s \in Sides, Receives(s) PROVE QueuesInv'
<1> DEFINE item == Head(inbox[s])
<1>1. CASE ReceiveFrame(s)
  <2>1. item \in Writable
    BY <1>1, HeadType, ItemFields DEF ReceiveFrame, QueuesInv
  <2>2. OutboxInv'
    BY <1>1, <2>1, ForwardQueues DEF ReceiveFrame, QueuesInv
  <2>3. InboxInv'
    <3>1. inbox' = [inbox EXCEPT ![s] = Tail(@)] /\ chunk' = [chunk EXCEPT ![s] = @ - 1]
      BY <1>1 DEF ReceiveFrame
    <3>2. /\ Tail(inbox[s]) \in Seq(Items) /\ Len(Tail(inbox[s])) = Len(inbox[s]) - 1
          /\ Len(inbox[s]) \in Nat /\ chunk[s] \in Nat /\ chunk[s] > 0 /\ chunk[s] <= Len(inbox[s])
      BY <1>1, HeadType DEF ReceiveFrame, QueuesInv
    <3>3. inbox' \in [Sides -> Seq(Items)] /\ chunk' \in [Sides -> Nat]
      BY <3>1, <3>2 DEF QueuesInv, InboxInv
    <3>4. ASSUME NEW r \in Sides PROVE chunk'[r] <= Len(inbox'[r])
      BY <3>1, <3>2 DEF QueuesInv, InboxInv
    <3>5. QED
      BY <3>3, <3>4 DEF InboxInv
  <2>4. TallyInv'
    <3>1. tally' = [tally EXCEPT ![s].received = @ + 1] /\ code' = code
      BY <1>1 DEF ReceiveFrame, sockets
    <3>2. QED
      BY <3>1 DEF QueuesInv, TallyInv, Tallies
  <2>5. QED
    BY <2>2, <2>3, <2>4 DEF QueuesInv
<1>2. CASE ReceiveClose(s)
  <2>1. item.code \in Nat
    BY <1>2, HeadType, ItemFields DEF ReceiveClose, QueuesInv
  <2>2. OutboxInv'
    BY <1>2, <2>1, ClosesQueues DEF ReceiveClose, QueuesInv
  <2>3. InboxInv'
    BY <1>2, Emptied DEF ReceiveClose, QueuesInv
  <2>4. TallyInv'
    BY <1>2, <2>1 DEF ReceiveClose, QueuesInv, TallyInv
  <2>5. QED
    BY <2>2, <2>3, <2>4 DEF QueuesInv
<1>3. CASE ReceiveMalformed(s)
  <2>1. OutboxInv'
    <3>1. CASE Closes({s}, Protocol, "own")
      BY <3>1, Constants, ClosesQueues DEF QueuesInv
    <3>2. CASE outbox' = [outbox EXCEPT ![s] = Append(@, CloseFrame(Protocol, "own"))]
      BY <3>2, Constants, ItemTypes, QueueOps DEF QueuesInv, OutboxInv
    <3>3. CASE outbox' = outbox
      BY <3>3 DEF QueuesInv, OutboxInv
    <3>4. QED
      BY <1>3, <3>1, <3>2, <3>3 DEF ReceiveMalformed
  <2>2. InboxInv'
    BY <1>3, Emptied DEF ReceiveMalformed, QueuesInv
  <2>3. TallyInv'
    BY <1>3, Constants DEF ReceiveMalformed, QueuesInv, TallyInv
  <2>4. QED
    BY <2>1, <2>2, <2>3 DEF QueuesInv
<1>4. QED
  BY <1>1, <1>2, <1>3 DEF Receives

LEMMA WriteQueues == ASSUME QueuesInv, NEW s \in Sides, Write(s) \/ WriteFails(s) PROVE QueuesInv'
<1>1. outbox[s] # <<>> /\ outbox' = [outbox EXCEPT ![s] = Tail(@)] /\ UNCHANGED <<code, inbox, chunk>>
  BY DEF Write, WriteFails, sockets
<1>2. OutboxInv' /\ InboxInv'
  BY <1>1, OutHead DEF QueuesInv, OutboxInv, InboxInv
<1>3. tally' \in [Sides -> Tallies]
  <2> DEFINE item == Head(outbox[s])
  <2>1. item \in Writable
    BY <1>1, OutHead DEF QueuesInv
  <2>2. CASE item.kind = "frame" /\ tally' = [tally EXCEPT ![s].written = @ + 1]
    BY <2>2 DEF QueuesInv, TallyInv, Tallies
  <2>3. CASE item.kind # "frame" /\ tally' = [tally EXCEPT ![s].told = IF item.why = "bridge" THEN item.code ELSE @]
    <3>1. item.code \in Nat
      BY <2>1, <2>3, ItemFields
    <3>2. QED
      BY <2>3, <3>1 DEF QueuesInv, TallyInv, Tallies
  <2>4. CASE UNCHANGED tally
    BY <2>4 DEF QueuesInv, TallyInv
  <2>5. QED
    BY <2>2, <2>3, <2>4 DEF Write, WriteFails
<1>4. QED
  BY <1>1, <1>2, <1>3 DEF QueuesInv, TallyInv

LEMMA GoneQueues == ASSUME QueuesInv, NEW s \in Sides, Gone(s) PROVE QueuesInv'
<1>1. OutboxInv'
  <2>1. CASE outbox' = outbox
    BY <2>1 DEF QueuesInv, OutboxInv
  <2>2. CASE \E c \in Nat : outbox' = [outbox EXCEPT ![Other(s)] = Append(@, CloseFrame(c, "bridge"))]
    BY <2>2, ItemTypes, SidesFacts, QueueOps DEF QueuesInv, OutboxInv
  <2>3. (IF CanSendCloseCode(code[s]) THEN code[s] ELSE NoCode) \in Nat
    BY Constants DEF QueuesInv, TallyInv
  <2>4. QED
    BY <2>1, <2>2, <2>3 DEF Gone, OnClose
<1>2. InboxInv'
  BY Emptied DEF Gone, QueuesInv
<1>3. QED
  BY <1>1, <1>2 DEF Gone, QueuesInv, TallyInv

LEMMA StopQueues == ASSUME QueuesInv, Stop PROVE QueuesInv'
<1>1. PICK open : outbox' = [s \in Sides |-> IF s \in open THEN Append(outbox[s], CloseFrame(GoingAway, "own"))
                                             ELSE outbox[s]]
  BY DEF Stop
<1>2. OutboxInv'
  BY <1>1, Constants, ItemTypes, QueueOps DEF QueuesInv, OutboxInv
<1>3. QED
  BY <1>2 DEF Stop, QueuesInv, InboxInv, TallyInv

LEMMA QueuesStep == QueuesInv /\ [Next]_vars => QueuesInv'
<1> SUFFICES ASSUME QueuesInv, [Next]_vars PROVE QueuesInv'
  OBVIOUS
<1>1. CASE UNCHANGED <<inbox, chunk, outbox, tally, code>>
  BY <1>1 DEF QueuesInv, InboxInv, OutboxInv, TallyInv
<1>2. CASE UNCHANGED vars
  BY <1>1, <1>2 DEF vars, bridgeVars, sockets, traffic
<1>3. CASE Request \/ ClientLeaves \/ Accepted \/ Refused \/ UpgradeFails \/ Sweep \/ Stopped
  BY <1>1, <1>3 DEF Request, ClientLeaves, Accepted, Refused, UpgradeFails, Sweep, Stopped,
                    bridgeVars, sockets, traffic
<1>4. ASSUME NEW s \in Sides, SocketGone(s) PROVE QueuesInv'
  BY <1>1, <1>4, GoneQueues DEF SocketGone, traffic
<1>5. ASSUME NEW s \in Sides, Breaks(s) \/ CloseTimer(s) PROVE QueuesInv'
  BY <1>1, <1>5 DEF Breaks, CloseTimer, traffic
<1>6. ASSUME NEW s \in Sides, PeerSends(s) \/ Write(s) \/ WriteFails(s) \/ Read(s) \/ Receives(s)
      PROVE  QueuesInv'
  BY <1>6, PeerSendsQueues, WriteQueues, ReadQueues, ReceivesQueues
<1>7. QED
  BY <1>2, <1>3, <1>4, <1>5, <1>6, StopQueues DEF Next, Peers, Work, Settles

LEMMA QueuesInit == Init => QueuesInv
BY EmptyQueue, Constants
   DEF Init, BridgeInit, QueuesInv, InboxInv, OutboxInv, TallyInv, Tallies

-----------------------------------------------------------------------------
(* NothingLeft *)

\* A socket that close() need not end any more.
Over(s) == ws[s] \in {"none", "closed"} \/ torn[s]

SocketsInv == ws \in [Sides -> States] /\ torn \in [Sides -> BOOLEAN]

EndInv ==
  /\ SocketsInv
  /\ phase \in {"swept", "done"} => /\ tcp \notin {"idle"} \cup Waiting
                                    /\ \A s \in Sides : Over(s)
  /\ phase = "done" => tcp = "gone"

\* What an action of the bridge may do to its sockets.
OverStays == SocketsInv' /\ \A s \in Sides : Over(s) => Over(s)'

LEMMA SocketsUnchanged == SocketsInv /\ UNCHANGED <<ws, torn>> => OverStays
BY DEF SocketsInv, OverStays, Over

LEMMA ClosesSockets ==
  ASSUME SocketsInv, NEW S, NEW c, NEW why, Closes(S, c, why), UNCHANGED torn
  PROVE  OverStays
BY DEF SocketsInv, OverStays, Over, Closes, States

LEMMA TerminatesSockets ==
  ASSUME SocketsInv, NEW S, Terminates(S)
  PROVE  OverStays /\ \A s \in S \cap Sides : Over(s)'
BY DEF SocketsInv, OverStays, Over, Terminates, States

LEMMA GoneSockets ==
  ASSUME SocketsInv, NEW s \in Sides, Gone(s)
  PROVE  OverStays
BY SidesFacts DEF SocketsInv, OverStays, Over, Gone, OnClose, States

LEMMA MalformedSockets ==
  ASSUME SocketsInv, ReceiveMalformed("server")
  PROVE  OverStays
<1>1. Live("server") /\ torn["server"] = FALSE /\ ws["server"] \in {"open", "closing"}
  BY SidesFacts DEF ReceiveMalformed, Live, SocketsInv
<1>2. CASE ws["client"] \in {"open", "closing"}
  <2>1. torn' = [torn EXCEPT !["client"] = TRUE] /\ ws' = [client |-> "closing", server |-> "closing"]
    BY <1>2 DEF ReceiveMalformed
  <2>2. DOMAIN ws' = Sides /\ \A s \in Sides : ws'[s] = "closing"
    BY <2>1 DEF Sides
  <2>3. ws' \in [Sides -> States]
    <3>1. ws' = [s \in Sides |-> "closing"]
      BY <2>1 DEF Sides
    <3>2. QED
      BY <3>1 DEF States
  <2>4. torn' \in [Sides -> BOOLEAN]
    BY <2>1 DEF SocketsInv
  <2>5. ASSUME NEW s \in Sides, Over(s) PROVE Over(s)'
    <3>1. CASE s = "client"
      BY <3>1, <2>1, SidesFacts DEF Over, SocketsInv
    <3>2. CASE s = "server"
      BY <3>2, <1>1, <2>5 DEF Over
    <3>3. QED
      BY <3>1, <3>2 DEF Sides
  <2>6. QED
    BY <2>3, <2>4, <2>5 DEF OverStays, SocketsInv
<1>3. CASE ws["client"] \notin {"open", "closing"}
  BY <1>3, ClosesSockets DEF ReceiveMalformed
<1>4. QED
  BY <1>2, <1>3

LEMMA ReceivesSockets ==
  ASSUME SocketsInv, NEW s \in Sides, Receives(s)
  PROVE  OverStays
<1>1. CASE ReceiveFrame(s)
  BY <1>1, SocketsUnchanged DEF ReceiveFrame, sockets
<1>2. CASE ReceiveClose(s)
  BY <1>2, ClosesSockets DEF ReceiveClose
<1>3. CASE ReceiveMalformed(s)
  <2>1. CASE s = "server"
    BY <1>3, <2>1, MalformedSockets
  <2>2. CASE s = "client"
    BY <1>3, <2>2, ClosesSockets DEF ReceiveMalformed
  <2>3. QED
    BY <2>1, <2>2 DEF Sides
<1>4. QED
  BY <1>1, <1>2, <1>3 DEF Receives

LEMMA BridgedSockets ==
  ASSUME SocketsInv, NEW s \in Sides,
         PeerSends(s) \/ Breaks(s) \/ Write(s) \/ Settles(s)
  PROVE  OverStays
<1>1. CASE PeerSends(s)
  BY <1>1, SocketsUnchanged DEF PeerSends, sockets
<1>2. CASE Breaks(s)
  BY <1>2 DEF Breaks, SocketsInv, OverStays, Over, States
<1>3. CASE Write(s)
  BY <1>3, SocketsUnchanged DEF Write, sockets
<1>4. CASE Read(s)
  BY <1>4, SocketsUnchanged DEF Read, sockets
<1>5. CASE Receives(s)
  BY <1>5, ReceivesSockets
<1>6. CASE CloseTimer(s)
  BY <1>6 DEF CloseTimer, SocketsInv, OverStays, Over
<1>7. CASE WriteFails(s)
  BY <1>7, SocketsUnchanged DEF WriteFails, sockets
<1>8. QED
  BY <1>1, <1>2, <1>3, <1>4, <1>5, <1>6, <1>7 DEF Settles

LEMMA EndInit == Init => EndInv
BY DEF Init, BridgeInit, EndInv, SocketsInv, States

\* A request, and what follows it until the bridge is built, need a client that waits.
LEMMA UpgradeEnd ==
  ASSUME EndInv, Request \/ ClientLeaves \/ Accepted \/ Refused \/ UpgradeFails
  PROVE  EndInv'
<1> USE SidesFacts
<1>1. CASE Request
  <2>1. ws' \in [Sides -> States] /\ torn' \in [Sides -> BOOLEAN]
    BY <1>1 DEF Request, EndInv, SocketsInv, States
  <2>2. QED
    BY <1>1, <2>1 DEF Request, EndInv, SocketsInv
<1>2. CASE ClientLeaves
  <2>1. OverStays
    BY <1>2, TerminatesSockets DEF ClientLeaves, EndInv
  <2>2. phase \notin {"swept", "done"} /\ phase' = phase
    BY <1>2 DEF ClientLeaves, EndInv
  <2>3. QED
    BY <2>1, <2>2 DEF EndInv, OverStays
<1>3. CASE Accepted
  <2>1. phase \notin {"swept", "done"} /\ phase' = phase
    BY <1>3 DEF Accepted, EndInv, Waiting
  <2>2. CASE ws' = [s \in Sides |-> "open"] /\ UNCHANGED torn
    BY <2>1, <2>2 DEF EndInv, SocketsInv, States
  <2>3. CASE Terminates({"server"})
    BY <2>1, <2>3, TerminatesSockets DEF EndInv, OverStays
  <2>4. QED
    BY <1>3, <2>2, <2>3 DEF Accepted
<1>4. CASE Refused
  BY <1>4 DEF Refused, EndInv, SocketsInv, Waiting, bridgeVars, sockets
<1>5. CASE UpgradeFails
  <2>1. OverStays
    BY <1>5, TerminatesSockets DEF UpgradeFails, EndInv
  <2>2. phase \notin {"swept", "done"} /\ phase' = phase
    BY <1>5 DEF UpgradeFails, EndInv
  <2>3. QED
    BY <2>1, <2>2 DEF EndInv, OverStays
<1>6. QED
  BY <1>1, <1>2, <1>3, <1>4, <1>5

LEMMA SocketGoneEnd ==
  ASSUME EndInv, NEW s \in Sides, SocketGone(s)
  PROVE  EndInv'
<1>1. OverStays
  <2>1. CASE Gone(s)
    BY <2>1, GoneSockets DEF EndInv
  <2>2. CASE ws' = [ws EXCEPT ![s] = "closed"] /\ UNCHANGED torn
    BY <2>2 DEF EndInv, SocketsInv, OverStays, Over, States
  <2>3. QED
    BY <2>1, <2>2 DEF SocketGone
<1>2. phase' = phase /\ (tcp' = tcp \/ tcp' = "gone")
  BY DEF SocketGone
<1>3. QED
  BY <1>1, <1>2 DEF EndInv, OverStays, Waiting

\* The sweep is where the listener's close() leaves nothing: it ends what is tracked then.
LEMMA CloseEnd ==
  ASSUME EndInv, Stop \/ Sweep \/ Stopped
  PROVE  EndInv'
<1>1. CASE Stop
  <2>1. ws' \in [Sides -> States] /\ torn' \in [Sides -> BOOLEAN]
    BY <1>1 DEF Stop, EndInv, SocketsInv, States
  <2>2. QED
    BY <1>1, <2>1 DEF Stop, EndInv, SocketsInv
<1>2. CASE Sweep
  <2>1. PICK S : Tracked \subseteq S /\ Terminates(S)
    BY <1>2 DEF Sweep, Ended
  <2>2. OverStays /\ \A s \in S \cap Sides : Over(s)'
    BY <2>1, TerminatesSockets DEF EndInv
  <2>3. \A s \in Sides \ S : Over(s)
    BY <2>1 DEF Tracked, Over, EndInv, SocketsInv, States
  <2>4. \A s \in Sides : Over(s)'
    BY <2>2, <2>3 DEF OverStays
  <2>5. phase' = "swept" /\ tcp' \notin {"idle"} \cup Waiting
    BY <1>2 DEF Sweep, Waiting
  <2>6. QED
    BY <2>2, <2>4, <2>5 DEF EndInv, OverStays
<1>3. CASE Stopped
  BY <1>3 DEF Stopped, EndInv, SocketsInv, Over, bridgeVars, sockets
<1>4. QED
  BY <1>1, <1>2, <1>3

LEMMA EndStep == EndInv /\ [Next]_vars => EndInv'
<1> SUFFICES ASSUME EndInv, [Next]_vars PROVE EndInv'
  OBVIOUS
<1>1. CASE UNCHANGED vars
  BY <1>1 DEF vars, bridgeVars, sockets, EndInv, SocketsInv, Over
<1>2. ASSUME NEW s \in Sides, Bridged, PeerSends(s) \/ Breaks(s) \/ Write(s) \/ Settles(s)
      PROVE  EndInv'
  <2>1. OverStays
    BY <1>2, BridgedSockets DEF EndInv
  <2>2. QED
    BY <2>1, <1>2 DEF Bridged, EndInv, OverStays
<1>3. QED
  BY <1>1, <1>2, UpgradeEnd, SocketGoneEnd, CloseEnd DEF Next, Peers, Work

\* When the listener's close() has resolved, no connection is left (service.ts:116-139).
THEOREM NothingLeftCorrect == Spec => []NothingLeft
<1>1. EndInv => NothingLeft
  BY DEF EndInv, NothingLeft, Over
<1>2. QED
  BY <1>1, EndInit, EndStep, PTL DEF Spec

-----------------------------------------------------------------------------
(* BufferBounded *)

\* No frame is larger.
Largest(most) == most \in Sizes /\ \A size \in Sizes : size <= most

\* A side is paused when its count has reached the mark; what of a read is still to come
\* is the difference to what the count may become.
FlowInv ==
  /\ flow \in [Sides -> [unsent : Int, paused : BOOLEAN]]
  /\ \A s \in Sides : flow[s].paused <=> flow[s].unsent >= HighWater
  /\ \A s \in Sides : \A most : Largest(most) =>
       flow[s].unsent + chunk[s] * most < HighWater + Chunk * most

LEMMA Products ==
  /\ \A n, m \in Nat : n * m \in Nat
  /\ \A n, m \in Nat : n > 0 => (n - 1) * m = n * m - m
  /\ \A n, k, m \in Nat : n <= k => n * m <= k * m
<1>1. \A n, m \in Nat : n * m \in Nat
  OBVIOUS
<1>2. \A n, m \in Nat : n > 0 => (n - 1) * m = n * m - m
  OBVIOUS
<1>3. ASSUME NEW n \in Nat, NEW k \in Nat, NEW m \in Nat, n <= k PROVE n * m <= k * m
  <2>1. (k - n) * m \in Nat /\ k * m = n * m + (k - n) * m
    BY <1>3
  <2>2. n * m \in Nat /\ k * m \in Nat
    OBVIOUS
  <2>3. QED
    BY <2>1, <2>2
<1>4. QED
  BY <1>1, <1>2, <1>3

\* Neither the count nor the rest of the read has grown.
LEMMA FlowShrinks ==
  ASSUME FlowInv, chunk \in [Sides -> Nat], chunk' \in [Sides -> Nat],
         flow' = flow, \A s \in Sides : chunk'[s] <= chunk[s]
  PROVE  FlowInv'
<1>1. ASSUME NEW s \in Sides, NEW most, Largest(most)
      PROVE  flow[s].unsent + chunk'[s] * most < HighWater + Chunk * most
  <2>1. most \in Nat /\ HighWater \in Nat /\ Chunk \in Nat
    BY <1>1, BridgeAssumption DEF Largest
  <2>2. chunk'[s] * most <= chunk[s] * most
    BY <2>1, Products
  <2>3. /\ chunk'[s] * most \in Nat /\ chunk[s] * most \in Nat /\ Chunk * most \in Nat
        /\ flow[s].unsent \in Int
    BY <2>1, Products DEF FlowInv
  <2>4. flow[s].unsent + chunk[s] * most < HighWater + Chunk * most
    BY <1>1 DEF FlowInv
  <2>5. QED
    BY <2>1, <2>2, <2>3, <2>4
<1>2. QED
  BY <1>1 DEF FlowInv, Largest

\* The count of one side changes, and with it what is still to come of its read.
LEMMA FlowCounts ==
  ASSUME FlowInv, NEW s \in Sides, NEW count \in Int,
         flow' = [flow EXCEPT ![s] = [unsent |-> count, paused |-> Paused(count)]],
         \A r \in Sides \ {s} : chunk'[r] = chunk[r],
         \A most : Largest(most) => count + chunk'[s] * most < HighWater + Chunk * most
  PROVE  FlowInv'
<1>1. flow' \in [Sides -> [unsent : Int, paused : BOOLEAN]]
  BY DEF FlowInv, Paused
<1>2. flow'[s] = [unsent |-> count, paused |-> Paused(count)]
  BY DEF FlowInv
<1>3. \A r \in Sides \ {s} : flow'[r] = flow[r]
  BY DEF FlowInv
<1>4. ASSUME NEW r \in Sides PROVE flow'[r].paused <=> flow'[r].unsent >= HighWater
  BY <1>2, <1>3 DEF FlowInv, Paused
<1>5. ASSUME NEW r \in Sides, NEW most, Largest(most)
      PROVE  flow'[r].unsent + chunk'[r] * most < HighWater + Chunk * most
  <2>1. CASE r = s
    BY <2>1, <1>2, <1>5
  <2>2. CASE r # s
    BY <2>2, <1>3, <1>5 DEF FlowInv
  <2>3. QED
    BY <2>1, <2>2
<1>6. QED
  BY <1>1, <1>4, <1>5 DEF FlowInv, Largest

LEMMA ReadFlow == ASSUME QueuesInv, FlowInv, NEW s \in Sides, Read(s) PROVE FlowInv'
<1>1. PICK n \in 1..Chunk : chunk' = [chunk EXCEPT ![s] = n]
  BY DEF Read
<1>2. flow' = flow /\ flow[s].unsent < HighWater /\ flow[s].unsent \in Int
  BY BridgeAssumption DEF Read, FlowInv
<1>3. ASSUME NEW r \in Sides, NEW most, Largest(most)
      PROVE  flow[r].unsent + chunk'[r] * most < HighWater + Chunk * most
  <2>1. CASE r = s
    <3>1. most \in Nat /\ HighWater \in Nat /\ Chunk \in Nat /\ n \in Nat /\ n <= Chunk
      BY <1>3, BridgeAssumption DEF Largest
    <3>2. n * most <= Chunk * most /\ n * most \in Nat /\ Chunk * most \in Nat
      BY <3>1, Products
    <3>3. chunk'[s] = n
      BY <1>1 DEF QueuesInv, InboxInv
    <3>4. QED
      BY <2>1, <1>2, <3>1, <3>2, <3>3
  <2>2. CASE r # s
    BY <2>2, <1>1, <1>3 DEF FlowInv, QueuesInv, InboxInv
  <2>3. QED
    BY <2>1, <2>2
<1>4. QED
  BY <1>2, <1>3 DEF FlowInv, Largest

LEMMA ReceivesFlow == ASSUME QueuesInv, FlowInv, NEW s \in Sides, Receives(s) PROVE FlowInv'
<1>1. CASE ReceiveFrame(s)
  <2> DEFINE size  == Head(inbox[s]).size
             count == flow[s].unsent + size
  <2>1. /\ size \in Sizes /\ size \in Nat /\ chunk[s] \in Nat /\ chunk[s] > 0
        /\ chunk' = [chunk EXCEPT ![s] = @ - 1] /\ Forward(s, Head(inbox[s]))
    BY <1>1, HeadType, ItemFields, BridgeAssumption DEF ReceiveFrame, QueuesInv
  <2>2. /\ chunk' \in [Sides -> Nat] /\ chunk'[s] = chunk[s] - 1
        /\ \A r \in Sides \ {s} : chunk'[r] = chunk[r]
    BY <2>1 DEF QueuesInv, InboxInv
  <2>3. CASE UNCHANGED <<outbox, flow>>
    <3>1. \A r \in Sides : chunk'[r] <= chunk[r]
      BY <2>1, <2>2 DEF QueuesInv, InboxInv
    <3>2. QED
      BY <2>2, <2>3, <3>1, FlowShrinks DEF QueuesInv, InboxInv
  <2>4. CASE flow' = [flow EXCEPT ![s] = [unsent |-> count, paused |-> Paused(count)]]
    <3>1. ASSUME NEW most, Largest(most)
          PROVE  count + chunk'[s] * most < HighWater + Chunk * most
      <4>1. most \in Nat /\ size <= most /\ HighWater \in Nat /\ Chunk \in Nat
        BY <2>1, <3>1, BridgeAssumption DEF Largest
      <4>2. chunk'[s] * most = chunk[s] * most - most
        BY <2>1, <2>2, <4>1, Products
      <4>3. flow[s].unsent + chunk[s] * most < HighWater + Chunk * most
        BY <3>1 DEF FlowInv
      <4>4. flow[s].unsent \in Int /\ chunk[s] * most \in Nat /\ Chunk * most \in Nat
        BY <2>1, <4>1, Products DEF FlowInv
      <4>5. QED
        BY <2>1, <4>1, <4>2, <4>3, <4>4
    <3>2. count \in Int
      BY <2>1 DEF FlowInv
    <3>3. QED
      BY <2>2, <2>4, <3>1, <3>2, FlowCounts
  <2>5. QED
    BY <2>1, <2>3, <2>4 DEF Forward
<1>2. CASE ReceiveClose(s) \/ ReceiveMalformed(s)
  <2>1. chunk' = [chunk EXCEPT ![s] = 0] /\ flow' = flow
    BY <1>2 DEF ReceiveClose, ReceiveMalformed
  <2>2. chunk' \in [Sides -> Nat] /\ \A r \in Sides : chunk'[r] <= chunk[r]
    BY <2>1 DEF QueuesInv, InboxInv
  <2>3. QED
    BY <2>1, <2>2, FlowShrinks DEF QueuesInv, InboxInv
<1>3. QED
  BY <1>1, <1>2 DEF Receives

LEMMA WriteFlow == ASSUME QueuesInv, FlowInv, NEW s \in Sides, Write(s) \/ WriteFails(s) PROVE FlowInv'
<1> DEFINE item  == Head(outbox[s])
           r     == Other(s)
           count == flow[r].unsent - item.size
<1>1. outbox[s] # <<>> /\ chunk' = chunk /\ r \in Sides
  BY SidesFacts DEF Write, WriteFails
<1>2. CASE flow' = flow
  BY <1>1, <1>2, FlowShrinks DEF QueuesInv, InboxInv
<1>3. CASE item.kind = "frame" /\ flow' = [flow EXCEPT ![r] = [unsent |-> count, paused |-> Paused(count)]]
  <2>1. item.size \in Nat
    BY <1>1, <1>3, OutHead, ItemTypes, ItemFields, BridgeAssumption DEF QueuesInv
  <2>2. count \in Int /\ flow[r].unsent \in Int
    BY <1>1, <2>1 DEF FlowInv
  <2>3. ASSUME NEW most, Largest(most)
        PROVE  count + chunk'[r] * most < HighWater + Chunk * most
    <3>1. most \in Nat /\ HighWater \in Nat /\ Chunk \in Nat /\ chunk[r] \in Nat
      BY <1>1, <2>3, BridgeAssumption DEF Largest, QueuesInv, InboxInv
    <3>2. flow[r].unsent + chunk[r] * most < HighWater + Chunk * most
      BY <1>1, <2>3 DEF FlowInv
    <3>3. chunk[r] * most \in Nat /\ Chunk * most \in Nat
      BY <3>1, Products
    <3>4. chunk'[r] * most = chunk[r] * most
      BY <1>1
    <3>5. count < flow[r].unsent + 1
      BY <2>1, <2>2
    <3>6. count \in Int /\ flow[r].unsent \in Int
      BY <2>2
    <3> HIDE DEF count
    <3>7. QED
      BY <3>1, <3>2, <3>3, <3>4, <3>5, <3>6
  <2>4. QED
    BY <1>1, <1>3, <2>2, <2>3, FlowCounts
<1>4. QED
  BY <1>2, <1>3 DEF Write, WriteFails, Sent

LEMMA FlowStep == QueuesInv /\ FlowInv /\ [Next]_vars => FlowInv'
<1> SUFFICES ASSUME QueuesInv, FlowInv, [Next]_vars PROVE FlowInv'
  OBVIOUS
<1> USE DEF QueuesInv, InboxInv
<1>1. CASE UNCHANGED <<flow, chunk>>
  BY <1>1, FlowShrinks
<1>2. CASE UNCHANGED vars
  BY <1>1, <1>2 DEF vars, bridgeVars, traffic
<1>3. CASE Request \/ ClientLeaves \/ Accepted \/ Refused \/ UpgradeFails \/ Stop \/ Sweep \/ Stopped
  BY <1>1, <1>3 DEF Request, ClientLeaves, Accepted, Refused, UpgradeFails, Stop, Sweep, Stopped,
                    bridgeVars, traffic
<1>4. ASSUME NEW s \in Sides, PeerSends(s) \/ Breaks(s) \/ CloseTimer(s) PROVE FlowInv'
  BY <1>1, <1>4 DEF PeerSends, Breaks, CloseTimer, traffic
<1>5. ASSUME NEW s \in Sides, SocketGone(s) PROVE FlowInv'
  <2>1. CASE Gone(s)
    <3>1. chunk' = [chunk EXCEPT ![s] = 0] /\ flow' = flow
      BY <2>1 DEF Gone
    <3>2. QED
      BY <3>1, FlowShrinks
  <2>2. CASE UNCHANGED traffic
    BY <1>1, <2>2 DEF traffic
  <2>3. QED
    BY <1>5, <2>1, <2>2 DEF SocketGone
<1>6. ASSUME NEW s \in Sides, Write(s) \/ WriteFails(s) \/ Read(s) \/ Receives(s) PROVE FlowInv'
  BY <1>6, WriteFlow, ReadFlow, ReceivesFlow
<1>7. QED
  BY <1>2, <1>3, <1>4, <1>5, <1>6 DEF Next, Peers, Work, Settles

LEMMA FlowInit == Init => FlowInv
<1> SUFFICES ASSUME Init PROVE FlowInv
  OBVIOUS
<1>1. \A s \in Sides : flow[s] = [unsent |-> 0, paused |-> FALSE] /\ chunk[s] = 0
  BY DEF Init, BridgeInit, NewFlow
<1>2. flow \in [Sides -> [unsent : Int, paused : BOOLEAN]]
  BY DEF Init, BridgeInit, NewFlow
<1>3. ASSUME NEW s \in Sides, NEW most, Largest(most)
      PROVE  flow[s].unsent + chunk[s] * most < HighWater + Chunk * most
  <2>1. most \in Nat /\ HighWater \in Nat \ {0} /\ Chunk \in Nat
    BY <1>3, BridgeAssumption DEF Largest
  <2>2. Chunk * most \in Nat /\ 0 * most = 0
    BY <2>1, Products
  <2>3. QED
    BY <1>1, <2>1, <2>2
<1>4. QED
  BY <1>1, <1>2, <1>3, BridgeAssumption DEF FlowInv

LEMMA FlowCorrect == Spec => [](QueuesInv /\ FlowInv)
<1>1. Init => QueuesInv /\ FlowInv
  BY QueuesInit, FlowInit
<1>2. QueuesInv /\ FlowInv /\ [Next]_vars => (QueuesInv /\ FlowInv)'
  BY QueuesStep, FlowStep
<1>3. QED
  BY <1>1, <1>2, PTL DEF Spec

\* A slow peer slows its sender: what waits for it stays below the high-water mark and
\* one read more, for every mark, size of frame and size of read (bridge.ts:7-8).
THEOREM BufferBoundedCorrect == Spec => []BufferBounded
<1>1. QueuesInv /\ FlowInv => BufferBounded
  <2> SUFFICES ASSUME QueuesInv, FlowInv, NEW s \in Sides, NEW most \in Sizes,
                      \A size \in Sizes : size <= most
               PROVE  flow[s].unsent < HighWater + Chunk * most
    BY DEF BufferBounded
  <2>1. Largest(most)
    BY DEF Largest
  <2>2. most \in Nat /\ HighWater \in Nat /\ Chunk \in Nat /\ chunk[s] \in Nat /\ flow[s].unsent \in Int
    BY BridgeAssumption DEF QueuesInv, InboxInv, FlowInv
  <2>3. chunk[s] * most \in Nat /\ Chunk * most \in Nat
    BY <2>2, Products
  <2>4. flow[s].unsent + chunk[s] * most < HighWater + Chunk * most
    BY <2>1 DEF FlowInv
  <2>5. QED
    BY <2>2, <2>3, <2>4
<1>2. QED
  BY <1>1, FlowCorrect, PTL

-----------------------------------------------------------------------------
(* TypeOK *)

ControlInv ==
  /\ tcp \in {"idle", "bridged", "gone"} \cup Waiting
  /\ phase \in {"run", "grace", "swept", "done"}
  /\ pending \subseteq Sides

LEMMA ControlStep == ControlInv /\ [Next]_vars => ControlInv'
<1> SUFFICES ASSUME ControlInv, [Next]_vars PROVE ControlInv'
  OBVIOUS
<1> USE DEF ControlInv
<1>1. CASE UNCHANGED vars
  BY <1>1 DEF vars
<1>2. CASE Request \/ ClientLeaves \/ Accepted \/ Refused \/ UpgradeFails
  BY <1>2 DEF Request, ClientLeaves, Accepted, Refused, UpgradeFails, Waiting
<1>3. CASE Stop
  BY <1>3 DEF Stop, Tracked
<1>4. CASE Sweep
  BY <1>4 DEF Sweep
<1>5. CASE Stopped
  BY <1>5 DEF Stopped
<1>6. ASSUME NEW s \in Sides, SocketGone(s) PROVE ControlInv'
  BY <1>6 DEF SocketGone
<1>7. CASE Bridged
  BY <1>7 DEF Bridged
<1>8. QED
  BY <1>1, <1>2, <1>3, <1>4, <1>5, <1>6, <1>7 DEF Next, Peers, Work

\* Every variable keeps to its type.
THEOREM TypeCorrect == Spec => []TypeOK
<1>1. QueuesInv /\ FlowInv /\ EndInv /\ ControlInv => TypeOK
  BY DEF QueuesInv, InboxInv, OutboxInv, TallyInv, FlowInv, EndInv, SocketsInv, States, ControlInv, TypeOK
<1>2. Init => ControlInv
  BY DEF Init, ControlInv
<1>3. QED
  BY <1>1, <1>2, ControlStep, FlowCorrect, EndInit, EndStep, PTL DEF Spec

-----------------------------------------------------------------------------
(* What is unsent *)

LEMMA BytesAre ==
  ASSUME NEW q
  PROVE  \A i, k : <<i, k>> \in Bytes(q) <=> i \in FramesOf(q) /\ k \in 1..q[i].size
BY DEF Bytes

LEMMA BytesArePairs ==
  ASSUME NEW q, NEW b \in Bytes(q)
  PROVE  b = <<b[1], b[2]>> /\ b[1] \in FramesOf(q) /\ b[2] \in 1..q[b[1]].size
BY DEF Bytes

\* What is appended to a queue is its last item; what is taken was its first.
LEMMA Appended ==
  ASSUME NEW T, NEW q \in Seq(T), NEW x \in T
  PROVE  /\ Len(q) \in Nat /\ DOMAIN q = 1..Len(q) /\ Append(q, x) # <<>>
         /\ DOMAIN Append(q, x) = 1..Len(q) + 1 /\ Len(Append(q, x)) = Len(q) + 1
         /\ Append(q, x)[Len(q) + 1] = x /\ \A i \in DOMAIN q : Append(q, x)[i] = q[i]
<1>1. Append(q, x) # <<>>
  BY Append(q, x) \in Seq(T), Len(Append(q, x)) = Len(q) + 1, Len(q) \in Nat
<1> QED
  BY <1>1

LEMMA Taken ==
  ASSUME NEW T, NEW q \in Seq(T), q # <<>>
  PROVE  /\ Len(q) \in Nat /\ Len(q) >= 1 /\ DOMAIN q = 1..Len(q) /\ Head(q) = q[1] /\ q[1] \in T
         /\ DOMAIN Tail(q) = 1..Len(q) - 1 /\ Len(Tail(q)) = Len(q) - 1
         /\ \A i \in DOMAIN Tail(q) : Tail(q)[i] = q[i + 1]
         /\ (Tail(q) = <<>> <=> Len(q) = 1)
<1>1. Tail(q) \in Seq(T) /\ Len(Tail(q)) = Len(q) - 1 /\ Len(q) \in Nat /\ Len(q) >= 1
  OBVIOUS
<1>2. Tail(q) = <<>> <=> Len(Tail(q)) = 0
  BY <1>1
<1> QED
  BY <1>1, <1>2

Finite(q) == IsFiniteSet(Bytes(q)) /\ Total(q) \in Nat

LEMMA NoBytes == Finite(<<>>) /\ Total(<<>>) = 0
<1>1. Bytes(<<>>) = {}
  BY DEF Bytes, FramesOf
<1> QED
  BY <1>1, FS_EmptySet DEF Finite, Total

\* One frame's share.
LEMMA RowOf ==
  ASSUME NEW n \in Nat, NEW size \in Nat
  PROVE  IsFiniteSet({n} \X (1..size)) /\ Cardinality({n} \X (1..size)) = size
<1>1. IsFiniteSet({n}) /\ Cardinality({n}) = 1
  BY FS_Singleton
<1>2. IsFiniteSet(1..size) /\ Cardinality(1..size) = size
  BY FS_Interval
<1>3. /\ IsFiniteSet({n} \X (1..size))
      /\ Cardinality({n} \X (1..size)) = Cardinality({n}) * Cardinality(1..size)
  BY <1>1, <1>2, FS_Product, ZenonT(30)
<1> QED
  BY <1>1, <1>2, <1>3

LEMMA BytesAppended ==
  ASSUME NEW q \in Seq(Writable), Finite(q), NEW x \in Writable
  PROVE  /\ Finite(Append(q, x))
         /\ Total(Append(q, x)) = Total(q) + IF x.kind = "frame" THEN x.size ELSE 0
<1> DEFINE r   == Append(q, x)
           n   == Len(q) + 1
           row == {n} \X (1..x.size)
<1>0. /\ Len(q) \in Nat /\ DOMAIN q = 1..Len(q) /\ DOMAIN r = 1..n /\ r[n] = x
      /\ \A i \in DOMAIN q : r[i] = q[i]
  BY Appended
<1>1. CASE x.kind = "frame"
  <2>1. FramesOf(r) = FramesOf(q) \cup {n} /\ n \notin FramesOf(q)
    BY <1>0, <1>1 DEF FramesOf
  <2>2. Bytes(r) = Bytes(q) \cup row
    <3>1. ASSUME NEW b \in Bytes(r) PROVE b \in Bytes(q) \cup row
      <4>1. b = <<b[1], b[2]>> /\ b[1] \in FramesOf(r) /\ b[2] \in 1..r[b[1]].size
        BY BytesArePairs
      <4>2. CASE b[1] = n
        BY <1>0, <4>1, <4>2
      <4>3. CASE b[1] # n
        <5>1. b[1] \in FramesOf(q) /\ r[b[1]] = q[b[1]]
          BY <1>0, <2>1, <4>1, <4>3 DEF FramesOf
        <5> QED
          BY <4>1, <5>1, BytesAre
      <4> QED
        BY <4>2, <4>3
    <3>2. ASSUME NEW b \in Bytes(q) PROVE b \in Bytes(r)
      <4>1. b = <<b[1], b[2]>> /\ b[1] \in FramesOf(q) /\ b[2] \in 1..q[b[1]].size
        BY BytesArePairs
      <4>2. b[1] \in FramesOf(r) /\ r[b[1]] = q[b[1]]
        BY <1>0, <2>1, <4>1 DEF FramesOf
      <4> QED
        BY <4>1, <4>2, BytesAre
    <3>3. ASSUME NEW b \in row PROVE b \in Bytes(r)
      <4>1. b = <<n, b[2]>> /\ b[2] \in 1..x.size
        OBVIOUS
      <4>2. n \in FramesOf(r) /\ b[2] \in 1..r[n].size
        BY <1>0, <2>1, <4>1
      <4>3. <<n, b[2]>> \in Bytes(r)
        BY <4>2, BytesAre
      <4> QED
        BY <4>1, <4>3
    <3> QED
      BY <3>1, <3>2, <3>3
  <2>3. Bytes(q) \cap row = {}
    <3>1. \A b \in Bytes(q) : b[1] # n
      BY <2>1, BytesArePairs
    <3>2. \A b \in row : b[1] = n
      OBVIOUS
    <3> QED
      BY <3>1, <3>2
  <2>4. x.size \in Nat
    BY <1>1, ItemFields, ItemTypes, BridgeAssumption
  <2>5. n \in Nat
    BY <1>0
  <2> HIDE DEF n
  <2>6. IsFiniteSet(row) /\ Cardinality(row) = x.size
    BY <2>4, <2>5, RowOf
  <2> HIDE DEF row, r
  <2>7. /\ IsFiniteSet(Bytes(q) \cup row)
        /\ Cardinality(Bytes(q) \cup row) = Cardinality(Bytes(q)) + Cardinality(row) - Cardinality(Bytes(q) \cap row)
    BY <2>6, FS_Union DEF Finite
  <2>8. Cardinality(Bytes(q) \cap row) = 0
    BY <2>3, FS_EmptySet
  <2>9. Finite(r) /\ Total(r) = Total(q) + x.size
    BY <2>2, <2>4, <2>6, <2>7, <2>8 DEF Finite, Total
  <2> QED
    BY <1>1, <2>9 DEF r
<1>2. CASE x.kind # "frame"
  <2>1. FramesOf(r) = FramesOf(q)
    BY <1>0, <1>2 DEF FramesOf
  <2>2. \A i \in FramesOf(q) : r[i] = q[i]
    BY <1>0 DEF FramesOf
  <2>3. Bytes(r) = Bytes(q)
    BY <2>1, <2>2 DEF Bytes
  <2> HIDE DEF r
  <2>4. Finite(r) /\ Total(r) = Total(q) /\ Total(q) \in Nat
    BY <2>3 DEF Finite, Total
  <2> QED
    BY <1>2, <2>4 DEF r
<1> QED
  BY <1>1, <1>2

LEMMA BytesTaken ==
  ASSUME NEW q \in Seq(Writable), Finite(q), q # <<>>
  PROVE  /\ Finite(Tail(q))
         /\ Total(q) = Total(Tail(q)) + IF Head(q).kind = "frame" THEN Head(q).size ELSE 0
<1> DEFINE x     == Head(q)
           r     == Tail(q)
           row   == {b \in Bytes(q) : b[1] = 1}
           rest  == Bytes(q) \ row
           shift == [b \in rest |-> <<b[1] - 1, b[2]>>]
<1>0. /\ Len(q) \in Nat /\ DOMAIN q = 1..Len(q) /\ q[1] = x /\ x \in Writable
      /\ DOMAIN r = 1..Len(q) - 1 /\ \A i \in DOMAIN r : r[i] = q[i + 1]
  OBVIOUS
<1>1. \A i : i \in FramesOf(r) <=> i + 1 \in FramesOf(q) /\ i \in 1..Len(q) - 1
  BY <1>0 DEF FramesOf
<1>2. shift \in Bijection(rest, Bytes(r))
  <2>1. ASSUME NEW b \in rest
        PROVE  b = <<b[1], b[2]>> /\ b[1] \in Int /\ <<b[1] - 1, b[2]>> \in Bytes(r)
    <3>1. b = <<b[1], b[2]>> /\ b[1] \in FramesOf(q) /\ b[2] \in 1..q[b[1]].size /\ b[1] # 1
      BY BytesArePairs
    <3>2. b[1] - 1 \in 1..Len(q) - 1 /\ b[1] = (b[1] - 1) + 1 /\ b[1] \in Int
      BY <1>0, <3>1 DEF FramesOf
    <3>3. b[1] - 1 \in FramesOf(r) /\ r[b[1] - 1] = q[b[1]]
      BY <1>0, <1>1, <3>1, <3>2
    <3> QED
      BY <3>1, <3>2, <3>3, BytesAre
  <2>2. shift \in [rest -> Bytes(r)]
    BY <2>1
  <2>3. ASSUME NEW b \in rest, NEW c \in rest, shift[b] = shift[c] PROVE b = c
    <3>1. b[1] - 1 = c[1] - 1 /\ b[2] = c[2]
      BY <2>3
    <3>2. b[1] \in Int /\ c[1] \in Int /\ b = <<b[1], b[2]>> /\ c = <<c[1], c[2]>>
      BY <2>1
    <3>3. b[1] = c[1]
      BY <3>1, <3>2
    <3> QED
      BY <3>1, <3>2, <3>3
  <2>4. ASSUME NEW c \in Bytes(r) PROVE \E b \in rest : shift[b] = c
    <3>1. c = <<c[1], c[2]>> /\ c[1] \in FramesOf(r) /\ c[2] \in 1..r[c[1]].size
      BY BytesArePairs
    <3>2. c[1] \in 1..Len(q) - 1 /\ c[1] + 1 \in FramesOf(q) /\ r[c[1]] = q[c[1] + 1]
      BY <1>0, <1>1, <3>1
    <3>3. <<c[1] + 1, c[2]>> \in Bytes(q)
      BY <3>1, <3>2, BytesAre
    <3>4. c[1] + 1 # 1 /\ (c[1] + 1) - 1 = c[1]
      BY <3>2
    <3>5. <<c[1] + 1, c[2]>> \in rest
      BY <3>3, <3>4
    <3>6. shift[<<c[1] + 1, c[2]>>] = <<c[1], c[2]>>
      BY <3>4, <3>5
    <3> QED
      BY <3>1, <3>5, <3>6
  <2> HIDE DEF shift, rest, r
  <2> QED
    BY <2>2, <2>3, <2>4, Fun_IsBij
<1>3. IsFiniteSet(row) /\ IsFiniteSet(rest)
  BY FS_Subset DEF Finite
<1>4. IsFiniteSet(Bytes(r)) /\ Cardinality(Bytes(r)) = Cardinality(rest)
  <2>1. ExistsBijection(rest, Bytes(r))
    BY <1>2 DEF ExistsBijection
  <2> HIDE DEF rest, r
  <2> QED
    BY <1>3, <2>1, FS_Bijection
<1>5. Cardinality(row) = IF x.kind = "frame" THEN x.size ELSE 0
  <2>1. CASE x.kind = "frame"
    <3>1. x.size \in Nat /\ 1 \in FramesOf(q)
      <4>1. 1 \in DOMAIN q /\ q[1].kind = "frame"
        BY <1>0, <2>1, Len(q) > 0
      <4>2. x.size \in Nat
        BY <1>0, <2>1, ItemFields, ItemTypes, BridgeAssumption
      <4> QED
        BY <4>1, <4>2 DEF FramesOf
    <3>2. row = {1} \X (1..x.size)
      <4>1. ASSUME NEW b \in row PROVE b \in {1} \X (1..x.size)
        BY <1>0, BytesArePairs
      <4>2. ASSUME NEW b \in {1} \X (1..x.size) PROVE b \in row
        <5>1. b = <<1, b[2]>> /\ b[2] \in 1..x.size /\ b[1] = 1
          OBVIOUS
        <5>2. <<1, b[2]>> \in Bytes(q)
          BY <1>0, <3>1, <5>1, BytesAre
        <5> QED
          BY <5>1, <5>2
      <4> QED
        BY <4>1, <4>2
    <3>3. Cardinality({1} \X (1..x.size)) = x.size
      BY <3>1, RowOf
    <3> HIDE DEF row, x
    <3> QED
      BY <2>1, <3>2, <3>3
  <2>2. CASE x.kind # "frame"
    <3>1. row = {}
      BY <1>0, <2>2, BytesArePairs DEF FramesOf
    <3>2. Cardinality(row) = 0
      BY <3>1, FS_EmptySet
    <3> QED
      BY <2>2, <3>2
  <2> QED
    BY <2>1, <2>2
<1>6. Cardinality(Bytes(q)) = Cardinality(row) + Cardinality(rest)
  <2>1. row \cup rest = Bytes(q) /\ row \cap rest = {}
    OBVIOUS
  <2>2. Cardinality(row \cup rest) = Cardinality(row) + Cardinality(rest) - Cardinality(row \cap rest)
    BY <1>3, FS_Union
  <2>3. Cardinality(row) \in Nat /\ Cardinality(rest) \in Nat
    BY <1>3, FS_CardinalityType
  <2>4. Cardinality(row \cap rest) = 0
    BY <2>1, FS_EmptySet
  <2> HIDE DEF row, rest
  <2>5. Cardinality(row \cup rest) = Cardinality(row) + Cardinality(rest)
    BY <2>2, <2>3, <2>4
  <2> QED
    BY <2>1, <2>5
<1>7. Cardinality(rest) \in Nat /\ Cardinality(row) \in Nat
  BY <1>3, FS_CardinalityType
<1> HIDE DEF row, rest, r
<1> QED
  BY <1>4, <1>5, <1>6, <1>7 DEF Finite, Total, r

-----------------------------------------------------------------------------
(* PassedOn *)

Untold == [sent |-> 0, received |-> 0, written |-> 0, told |-> Unknown]

\* Nothing passed yet.
Quiet == \A s \in Sides : inbox[s] = <<>> /\ outbox[s] = <<>> /\ tally[s] = Untold /\ code[s] = Unknown

\* Nothing passes until the client is upgraded; only a socket that closes is destroyed.
StageInv ==
  /\ tcp = "idle" => ws["server"] = "none"
  /\ tcp \in {"idle"} \cup Waiting => ws["client"] = "none"
  /\ tcp = "bridged" => ws["client"] \in {"open", "closing"}
  /\ ws["client"] = "none" => Quiet /\ (ws["server"] \in {"none", "connecting"} \/ torn["server"])
  /\ ws["server"] \in {"none", "connecting"} => ws["client"] = "none"
  /\ ws["client"] # "connecting"
  /\ \A s \in Sides : torn[s] => ws[s] \in {"closing", "closed"}

\* How many frames a queue has whose last item only may be another one.
Whole(q) == IF q = <<>> \/ q[Len(q)].kind = "frame" THEN Len(q) ELSE Len(q) - 1

\* What the peer of s sent and s has not received.
Arriving(s) ==
  /\ code[s] \in Codes \cup {NoCode, Lost, Unknown}
  /\ code[s] # Unknown => inbox[s] = <<>> /\ tally[s].received = tally[s].sent
  /\ \A i \in DOMAIN inbox[s] : inbox[s][i].kind = "close" => inbox[s][i].code \in Codes \cup {NoCode}
  /\ ws[s] # "closed" =>
       /\ \A i \in DOMAIN inbox[s] :
            IF inbox[s][i].kind = "frame" THEN inbox[s][i].n = tally[s].received + i ELSE i = Len(inbox[s])
       /\ tally[s].sent = tally[s].received + Whole(inbox[s])

\* What the other side is closed with when s has closed.
ToldAs(s) == IF code[s] \in Codes THEN code[s] ELSE NoCode

\* The close frame that passes the end of one side on to the other.
PassedClose(item) == item.kind = "close" /\ item.why = "bridge"

\* What was received from s and the other peer was not given.
Leaving(s) ==
  LET t == Other(s)  q == outbox[t] IN
  /\ ws[t] = "open" =>
       /\ tally[t].told = Unknown /\ tally[s].received = tally[t].written + Len(q)
       /\ \A i \in DOMAIN q : q[i].kind = "frame" /\ q[i].n = tally[t].written + i
  /\ \A i \in DOMAIN q : PassedClose(q[i]) =>
       /\ i = Len(q) /\ ws[s] = "closed" /\ ws[t] # "open" /\ tally[t].told = Unknown
       /\ q[i].code = ToldAs(s)
       /\ ~torn[t] => /\ \A j \in 1..i-1 : q[j].kind = "frame"
                      /\ tally[s].received = tally[t].written + i - 1
  /\ tally[t].told # Unknown =>
       /\ ws[s] = "closed" /\ ws[t] # "open" /\ q = <<>>
       /\ tally[t].told = ToldAs(s) /\ tally[s].received = tally[t].written

\* What pauses s waits to be written to the other side.
Owing(s) == Finite(outbox[Other(s)]) /\ flow[s].unsent = Total(outbox[Other(s)])

LaneInv == \A s \in Sides : Arriving(s) /\ Leaving(s)
OwedInv == \A s \in Sides : Owing(s)

LEMMA Twice == \A s \in Sides : Other(Other(s)) = s /\ \A r \in Sides : r = s \/ r = Other(s)
BY DEF Sides, Other

LEMMA TallyFields ==
  ASSUME TallyInv
  PROVE  \A s \in Sides : /\ tally[s].sent \in Nat /\ tally[s].received \in Nat
                          /\ tally[s].written \in Nat /\ tally[s].told \in Nat
BY DEF TallyInv, Tallies

LEMMA ArrivingKept ==
  ASSUME NEW s \in Sides, Arriving(s), inbox'[s] = inbox[s], code'[s] = code[s],
         tally'[s].sent = tally[s].sent, tally'[s].received = tally[s].received,
         ws[s] = "closed" => ws'[s] = "closed"
  PROVE  Arriving(s)'
BY DEF Arriving, Whole

LEMMA LeavingKept ==
  ASSUME NEW s \in Sides, NEW t, t = Other(s), Leaving(s), outbox'[t] = outbox[t],
         ws[s] = "closed" => code'[s] = code[s] /\ ws'[s] = "closed",
         tally'[s].received = tally[s].received,
         tally'[t].written = tally[t].written, tally'[t].told = tally[t].told,
         ws'[t] = "open" => ws[t] = "open", torn[t] => torn'[t]
  PROVE  Leaving(s)'
<1>1. ws'[t] = "open" =>
        /\ tally'[t].told = Unknown /\ tally'[s].received = tally'[t].written + Len(outbox'[t])
        /\ \A i \in DOMAIN outbox'[t] : outbox'[t][i].kind = "frame" /\ outbox'[t][i].n = tally'[t].written + i
  BY DEF Leaving
<1>2. ws[s] = "closed" => ToldAs(s)' = ToldAs(s)
  BY DEF ToldAs
<1>3. ASSUME NEW i \in DOMAIN outbox'[t], PassedClose(outbox'[t][i])
      PROVE  /\ i = Len(outbox'[t]) /\ ws'[s] = "closed" /\ ws'[t] # "open" /\ tally'[t].told = Unknown
             /\ outbox'[t][i].code = ToldAs(s)'
             /\ ~torn'[t] => /\ \A j \in 1..i-1 : outbox'[t][j].kind = "frame"
                             /\ tally'[s].received = tally'[t].written + i - 1
  BY <1>2, <1>3 DEF Leaving
<1>4. tally'[t].told # Unknown =>
        /\ ws'[s] = "closed" /\ ws'[t] # "open" /\ outbox'[t] = <<>>
        /\ tally'[t].told = ToldAs(s)' /\ tally'[s].received = tally'[t].written
  BY <1>2 DEF Leaving
<1> QED
  BY <1>1, <1>3, <1>4 DEF Leaving, PassedClose

\* A close frame of the proxy itself follows what is unsent: the end of the other side is
\* not passed on any more.
LEMMA LeavingCloses ==
  ASSUME OutboxInv, NEW s \in Sides, NEW t \in Sides, t = Other(s), Leaving(s), ws[t] = "open",
         NEW c \in Nat, outbox'[t] = Append(outbox[t], CloseFrame(c, "own")),
         tally'[t].told = tally[t].told, ws'[t] # "open"
  PROVE  Leaving(s)'
<1>1. outbox[t] \in Seq(Writable) /\ DOMAIN outbox'[t] = 1..Len(outbox[t]) + 1
  BY DEF OutboxInv
<1>2. ASSUME NEW i \in DOMAIN outbox'[t] PROVE ~PassedClose(outbox'[t][i])
  <2>1. CASE i \in DOMAIN outbox[t]
    <3>1. outbox'[t][i] = outbox[t][i] /\ outbox[t][i].kind = "frame"
      BY <1>1, <2>1 DEF Leaving
    <3> QED
      BY <3>1 DEF PassedClose
  <2>2. CASE i = Len(outbox[t]) + 1
    BY <1>1, <2>2 DEF PassedClose, CloseFrame
  <2> QED
    BY <1>1, <2>1, <2>2
<1>3. tally'[t].told = Unknown
  BY DEF Leaving
<1> QED
  BY <1>2, <1>3 DEF Leaving, PassedClose

LEMMA OwingKept ==
  ASSUME NEW s \in Sides, Owing(s), outbox'[Other(s)] = outbox[Other(s)], flow'[s].unsent = flow[s].unsent
  PROVE  Owing(s)'
BY DEF Owing, Finite, Total, Bytes, FramesOf

\* A close frame does not count.
LEMMA OwingCloses ==
  ASSUME OutboxInv, NEW s \in Sides, Owing(s), flow'[s].unsent = flow[s].unsent,
         NEW c \in Nat, NEW why \in {"peer", "own", "bridge"},
         outbox'[Other(s)] = Append(outbox[Other(s)], CloseFrame(c, why))
  PROVE  Owing(s)'
<1>1. CloseFrame(c, why) \in Writable /\ CloseFrame(c, why).kind # "frame"
  BY ItemTypes DEF CloseFrame
<1>2. outbox[Other(s)] \in Seq(Writable) /\ Finite(outbox[Other(s)])
  BY SidesFacts DEF OutboxInv, Owing
<1> DEFINE x == CloseFrame(c, why)
<1> HIDE DEF x
<1>3. /\ Finite(Append(outbox[Other(s)], x))
      /\ Total(Append(outbox[Other(s)], x)) = Total(outbox[Other(s)]) + 0
  BY <1>1, <1>2, BytesAppended DEF x
<1>4. Finite(outbox'[Other(s)]) /\ Total(outbox'[Other(s)]) = Total(outbox[Other(s)])
  BY <1>2, <1>3 DEF x, Finite
<1> QED
  BY <1>4 DEF Owing, Finite, Total, Bytes, FramesOf

\* The peer of s sends: the numbers go on.
LEMMA PeerSendsLanes ==
  ASSUME QueuesInv, NEW s \in Sides, PeerSends(s), Arriving(s)
  PROVE  Arriving(s)'
<1> DEFINE q == inbox[s]
<1>1. q \in Seq(Items) /\ code[s] = Unknown /\ ws[s] # "closed" /\ (q # <<>> => q[Len(q)].kind = "frame")
  BY DEF PeerSends, MaySend, Live, QueuesInv, InboxInv, Last
<1>2. /\ \A i \in DOMAIN q : q[i].kind = "frame" /\ q[i].n = tally[s].received + i
      /\ tally[s].sent = tally[s].received + Len(q)
  <2>1. \A i \in DOMAIN q : q[i].kind = "frame"
    BY <1>1 DEF Arriving
  <2>2. Whole(q) = Len(q)
    BY <1>1 DEF Whole
  <2> QED
    BY <1>1, <2>1, <2>2 DEF Arriving
<1>3. /\ tally[s].sent \in Nat /\ tally[s].received \in Nat /\ UNCHANGED <<ws, code>>
      /\ tally'[s].received = tally[s].received
  BY TallyFields DEF QueuesInv, TallyInv, Tallies, PeerSends, sockets
<1>4. ASSUME NEW x \in Items, inbox' = [inbox EXCEPT ![s] = Append(@, x)],
             x.kind = "close" => x.code \in Codes \cup {NoCode},
             x.kind = "frame" => x.n = tally[s].sent + 1 /\ tally'[s].sent = tally[s].sent + 1,
             x.kind # "frame" => tally'[s].sent = tally[s].sent
      PROVE  Arriving(s)'
  <2> DEFINE r == Append(q, x)
  <2>1. inbox'[s] = r
    BY <1>4 DEF QueuesInv, InboxInv
  <2>2. /\ Len(q) \in Nat /\ DOMAIN q = 1..Len(q) /\ DOMAIN r = 1..Len(q) + 1 /\ r[Len(q) + 1] = x
        /\ Len(r) = Len(q) + 1 /\ r # <<>> /\ \A i \in DOMAIN q : r[i] = q[i]
    BY <1>1, <1>4, Appended
  <2> HIDE DEF r
  <2>3. \A i \in DOMAIN r : r[i].kind = "close" => r[i].code \in Codes \cup {NoCode}
    BY <1>2, <1>4, <2>2
  <2>4. \A i \in DOMAIN r : IF r[i].kind = "frame" THEN r[i].n = tally[s].received + i ELSE i = Len(r)
    <3>1. ASSUME NEW i \in DOMAIN q PROVE r[i].kind = "frame" /\ r[i].n = tally[s].received + i
      BY <1>2, <2>2
    <3>2. x.kind = "frame" => x.n = tally[s].received + (Len(q) + 1)
      BY <1>2, <1>3, <1>4, <2>2
    <3>3. \A i \in DOMAIN r : i \in DOMAIN q \/ i = Len(q) + 1
      BY <2>2
    <3> QED
      BY <2>2, <3>1, <3>2, <3>3
  <2>5. tally'[s].sent = tally[s].received + Whole(r)
    BY <1>2, <1>3, <1>4, <2>2 DEF Whole
  <2> QED
    BY <1>1, <1>3, <2>1, <2>3, <2>4, <2>5 DEF Arriving, Whole
<1>5. CASE \E size \in Sizes : inbox' = [inbox EXCEPT ![s] = Append(@, Frame(tally[s].sent + 1, size))]
                               /\ tally' = [tally EXCEPT ![s].sent = @ + 1]
  <2>1. PICK size \in Sizes : inbox' = [inbox EXCEPT ![s] = Append(@, Frame(tally[s].sent + 1, size))]
    BY <1>5
  <2>2. tally'[s].sent = tally[s].sent + 1
    BY <1>5 DEF QueuesInv, TallyInv, Tallies
  <2>3. Frame(tally[s].sent + 1, size) \in Items
    BY <1>3, ItemTypes
  <2> QED
    BY <1>4, <2>1, <2>2, <2>3 DEF Frame
<1>6. CASE UNCHANGED tally /\ \E last \in {CloseFrame(c, "peer") : c \in Codes \cup {NoCode}} \cup {Malformed} :
                                inbox' = [inbox EXCEPT ![s] = Append(@, last)]
  <2>1. PICK last \in {CloseFrame(c, "peer") : c \in Codes \cup {NoCode}} \cup {Malformed} :
               inbox' = [inbox EXCEPT ![s] = Append(@, last)]
    BY <1>6
  <2>2. CASE last = Malformed
    BY <1>4, <1>6, <2>1, <2>2, ItemTypes DEF Malformed
  <2>3. ASSUME NEW c \in Codes \cup {NoCode}, last = CloseFrame(c, "peer") PROVE Arriving(s)'
    <3>1. c \in Nat
      BY Constants, BridgeAssumption DEF Readable
    <3>2. CloseFrame(c, "peer") \in Items
      BY <3>1, ItemTypes
    <3> QED
      BY <1>4, <1>6, <2>1, <2>3, <3>2 DEF CloseFrame
  <2> QED
    BY <2>2, <2>3
<1> QED
  BY <1>5, <1>6 DEF PeerSends

\* A frame leaves the inbox.
LEMMA FrameArrives ==
  ASSUME QueuesInv, NEW s \in Sides, ReceiveFrame(s), Arriving(s)
  PROVE  /\ Arriving(s)'
         /\ Head(inbox[s]) \in Writable /\ Head(inbox[s]).kind = "frame"
         /\ Head(inbox[s]).n = tally[s].received + 1 /\ tally'[s].received = tally[s].received + 1
<1> DEFINE q == inbox[s]  r == Tail(q)
<1>1. q \in Seq(Items) /\ q # <<>> /\ q[1].kind = "frame" /\ ws[s] # "closed" /\ Head(q) \in Writable /\ Head(q) = q[1]
  BY HeadType, ItemFields DEF ReceiveFrame, Live, QueuesInv, InboxInv
<1>2. code[s] = Unknown
  BY <1>1 DEF Arriving
<1>3. /\ inbox'[s] = r /\ UNCHANGED <<ws, code>>
      /\ tally'[s].received = tally[s].received + 1 /\ tally'[s].sent = tally[s].sent
      /\ tally[s].received \in Nat
  BY TallyFields DEF QueuesInv, InboxInv, TallyInv, Tallies, ReceiveFrame, sockets
<1>4. /\ Len(q) \in Nat /\ Len(q) >= 1 /\ DOMAIN q = 1..Len(q) /\ DOMAIN r = 1..Len(q) - 1 /\ Len(r) = Len(q) - 1
      /\ \A i \in DOMAIN r : r[i] = q[i + 1]
      /\ (r = <<>> <=> Len(q) = 1)
  BY <1>1, Taken
<1>5. /\ \A i \in DOMAIN q : q[i].kind = "close" => q[i].code \in Codes \cup {NoCode}
      /\ \A i \in DOMAIN q : IF q[i].kind = "frame" THEN q[i].n = tally[s].received + i ELSE i = Len(q)
      /\ tally[s].sent = tally[s].received + Whole(q)
  BY <1>1 DEF Arriving
<1>6. q[1].n = tally[s].received + 1
  BY <1>1, <1>4, <1>5
<1>7. \A i \in DOMAIN r : i + 1 \in DOMAIN q /\ r[i] = q[i + 1] /\ i \in Nat
  BY <1>4
<1> HIDE DEF q, r
<1>8. \A i \in DOMAIN r : r[i].kind = "close" => r[i].code \in Codes \cup {NoCode}
  BY <1>5, <1>7
<1>9. \A i \in DOMAIN r : IF r[i].kind = "frame" THEN r[i].n = tally'[s].received + i ELSE i = Len(r)
  <2> SUFFICES ASSUME NEW i \in DOMAIN r
               PROVE  IF r[i].kind = "frame" THEN r[i].n = tally'[s].received + i ELSE i = Len(r)
    OBVIOUS
  <2>1. IF r[i].kind = "frame" THEN r[i].n = tally[s].received + (i + 1) ELSE i + 1 = Len(q)
    BY <1>5, <1>7
  <2> QED
    BY <1>3, <1>4, <1>7, <2>1
<1>10. Whole(r) = Whole(q) - 1 /\ Whole(q) \in Nat
  <2>1. CASE Len(q) = 1
    BY <1>1, <1>4, <2>1 DEF Whole
  <2>2. CASE Len(q) > 1
    <3>1. r[Len(r)] = q[Len(q)]
      BY <1>4, <2>2
    <3> QED
      BY <1>4, <2>2, <3>1 DEF Whole
  <2> QED
    BY <1>4, <2>1, <2>2
<1>11. tally'[s].sent = tally'[s].received + Whole(r)
  BY <1>3, <1>5, <1>10
<1>12. Arriving(s)'
  BY <1>2, <1>3, <1>8, <1>9, <1>11 DEF Arriving, Whole
<1> QED
  BY <1>1, <1>3, <1>6, <1>12 DEF q

\* The end of the peer is received: it sent nothing that was not.
LEMMA EndArrives ==
  ASSUME QueuesInv, NEW s \in Sides, ReceiveClose(s) \/ ReceiveMalformed(s), Arriving(s)
  PROVE  Arriving(s)' /\ code'[s] \in Nat
<1> DEFINE q == inbox[s]
<1>1. q \in Seq(Items) /\ q # <<>> /\ q[1].kind # "frame" /\ ws[s] # "closed" /\ Head(q) = q[1]
  BY HeadType DEF ReceiveClose, ReceiveMalformed, Live, QueuesInv, InboxInv
<1>2. 1 \in DOMAIN q /\ Len(q) \in Nat /\ Len(q) > 0
  BY <1>1
<1>3. Len(q) = 1
  BY <1>1, <1>2 DEF Arriving
<1>4. Whole(q) = 0
  BY <1>1, <1>3 DEF Whole
<1>5. tally[s].received = tally[s].sent
  BY <1>1, <1>4, TallyFields DEF Arriving, QueuesInv
<1>6. inbox'[s] = <<>> /\ tally' = tally
  BY DEF ReceiveClose, ReceiveMalformed, QueuesInv, InboxInv
<1>7. code'[s] \in Codes \cup {NoCode, Lost}
  <2>1. CASE ReceiveClose(s)
    <3>1. q[1].kind = "close"
      BY <1>1, <2>1 DEF ReceiveClose
    <3>2. q[1].code \in Codes \cup {NoCode}
      BY <1>2, <3>1 DEF Arriving
    <3>3. code'[s] = q[1].code
      BY <1>1, <2>1 DEF ReceiveClose, QueuesInv, TallyInv
    <3> QED
      BY <3>2, <3>3
  <2>2. CASE ReceiveMalformed(s)
    BY <2>2 DEF ReceiveMalformed, QueuesInv, TallyInv
  <2> QED
    BY <2>1, <2>2
<1>8. code'[s] \in Nat
  <2>1. Codes \subseteq Nat
    BY BridgeAssumption DEF Readable
  <2> QED
    BY <1>7, <2>1, Constants
<1>10. Whole(<<>>) = 0 /\ DOMAIN <<>> = {}
  BY DEF Whole
<1> QED
  BY <1>5, <1>6, <1>7, <1>8, <1>10, TallyFields DEF Arriving, QueuesInv, Whole

\* forward: the frame is the next for the other side, and counts until it is written.
LEMMA ForwardLanes ==
  ASSUME QueuesInv, FlowInv, NEW s \in Sides, NEW t \in Sides, t = Other(s), Leaving(s), Owing(s),
         NEW frame \in Writable, frame.kind = "frame", frame.n = tally[s].received + 1, Forward(s, frame),
         tally'[s].received = tally[s].received + 1, tally'[t].written = tally[t].written,
         tally'[t].told = tally[t].told, UNCHANGED sockets, ws[s] # "closed"
  PROVE  Leaving(s)' /\ Owing(s)'
<1> DEFINE q == outbox[t]  r == Append(q, frame)
<1>1. q \in Seq(Writable) /\ frame.size \in Nat /\ tally[s].received \in Nat /\ tally[t].written \in Nat
  BY TallyFields, ItemTypes, ItemFields, BridgeAssumption DEF QueuesInv, OutboxInv
<1>2. UNCHANGED <<ws, torn, code>>
  BY DEF sockets
<1>3. CASE ws[t] # "open"
  <2>1. UNCHANGED <<outbox, flow>>
    BY <1>3 DEF Forward
  <2>2. \A i \in DOMAIN q : ~PassedClose(q[i])
    BY DEF Leaving
  <2>3. tally[t].told = Unknown
    BY DEF Leaving
  <2>4. Leaving(s)'
    BY <1>2, <1>3, <2>1, <2>2, <2>3 DEF Leaving, PassedClose
  <2> QED
    BY <2>1, <2>4, OwingKept
<1>4. CASE ws[t] = "open"
  <2>1. outbox'[t] = r /\ flow'[s].unsent = flow[s].unsent + frame.size
    BY <1>4, SidesFacts DEF Forward, QueuesInv, OutboxInv, FlowInv
  <2>2. /\ Len(q) \in Nat /\ DOMAIN q = 1..Len(q) /\ DOMAIN r = 1..Len(q) + 1 /\ Len(r) = Len(q) + 1
        /\ r[Len(q) + 1] = frame /\ \A i \in DOMAIN q : r[i] = q[i]
    BY <1>1, Appended
  <2>3. /\ tally[t].told = Unknown /\ tally[s].received = tally[t].written + Len(q)
        /\ \A i \in DOMAIN q : q[i].kind = "frame" /\ q[i].n = tally[t].written + i
    BY <1>4 DEF Leaving
  <2>4. Finite(q) /\ flow[s].unsent = Total(q)
    BY DEF Owing
  <2>5. Finite(r) /\ Total(r) = Total(q) + frame.size
    BY <1>1, <2>4, BytesAppended
  <2> HIDE DEF q, r
  <2>6. \A i \in DOMAIN r : r[i].kind = "frame" /\ r[i].n = tally[t].written + i
    <3>1. \A i \in DOMAIN q : r[i].kind = "frame" /\ r[i].n = tally[t].written + i
      BY <2>2, <2>3
    <3>2. frame.n = tally[t].written + (Len(q) + 1)
      BY <1>1, <2>2, <2>3
    <3>3. \A i \in DOMAIN r : i \in DOMAIN q \/ i = Len(q) + 1
      BY <2>2
    <3> QED
      BY <2>2, <3>1, <3>2, <3>3
  <2>7. tally'[s].received = tally'[t].written + Len(r) /\ tally'[t].told = Unknown
    BY <1>1, <2>2, <2>3
  <2>8. Leaving(s)'
    BY <1>2, <1>4, <2>1, <2>6, <2>7 DEF Leaving, PassedClose
  <2>9. Owing(s)'
    BY <2>1, <2>4, <2>5 DEF Owing, Finite, Total, Bytes, FramesOf
  <2> QED
    BY <2>8, <2>9
<1> QED
  BY <1>3, <1>4

\* The first item for t is written, or fails: what counted for it does not count any more.
LEMMA WriteOwes ==
  ASSUME QueuesInv, FlowInv, NEW s \in Sides, NEW t \in Sides, t = Other(s), Owing(s), Write(t) \/ WriteFails(t)
  PROVE  Owing(s)'
<1> DEFINE q == outbox[t]
<1>1. q \in Seq(Writable) /\ q # <<>> /\ outbox'[t] = Tail(q) /\ Other(t) = s
  BY Twice DEF Write, WriteFails, QueuesInv, OutboxInv
<1>2. Finite(q) /\ flow[s].unsent = Total(q)
  BY DEF Owing
<1>3. /\ Finite(Tail(q))
      /\ Total(q) = Total(Tail(q)) + IF Head(q).kind = "frame" THEN Head(q).size ELSE 0
  BY <1>1, <1>2, BytesTaken
<1>4. flow'[s].unsent = IF Head(q).kind = "frame" THEN flow[s].unsent - Head(q).size ELSE flow[s].unsent
  BY <1>1 DEF Write, WriteFails, Sent, FlowInv
<1>5. Head(q).kind = "frame" => Head(q).size \in Nat
  BY <1>1, OutHead, ItemTypes, ItemFields, BridgeAssumption DEF QueuesInv
<1>6. Total(Tail(q)) \in Nat
  BY <1>3 DEF Finite
<1>7. flow'[s].unsent = Total(Tail(q))
  BY <1>2, <1>3, <1>4, <1>5, <1>6
<1> HIDE DEF q
<1> QED
  BY <1>1, <1>3, <1>7 DEF Owing, Finite, Total, Bytes, FramesOf

\* The parts of an item that is written.
LEMMA WriteCounts ==
  ASSUME QueuesInv, NEW t \in Sides, Write(t)
  PROVE  /\ \A r \in Sides : tally'[r].sent = tally[r].sent /\ tally'[r].received = tally[r].received
         /\ \A r \in Sides \ {t} : tally'[r] = tally[r]
         /\ Head(outbox[t]).kind = "frame" =>
              tally'[t].written = tally[t].written + 1 /\ tally'[t].told = tally[t].told
         /\ Head(outbox[t]).kind # "frame" =>
              /\ tally'[t].written = tally[t].written
              /\ tally'[t].told = IF Head(outbox[t]).why = "bridge" THEN Head(outbox[t]).code ELSE tally[t].told
<1>1. tally \in [Sides -> Tallies]
  BY DEF QueuesInv, TallyInv
<1>2. CASE Head(outbox[t]).kind = "frame"
  <2>1. tally' = [tally EXCEPT ![t].written = @ + 1]
    BY <1>2 DEF Write
  <2> QED
    BY <1>1, <1>2, <2>1 DEF Tallies
<1>3. CASE Head(outbox[t]).kind # "frame"
  <2>1. tally' = [tally EXCEPT ![t].told = IF Head(outbox[t]).why = "bridge" THEN Head(outbox[t]).code ELSE @]
    BY <1>3 DEF Write
  <2> QED
    BY <1>1, <1>3, <2>1 DEF Tallies
<1> QED
  BY <1>2, <1>3

LEMMA WriteLeaves ==
  ASSUME QueuesInv, NEW s \in Sides, NEW t \in Sides, t = Other(s), SocketsInv, Leaving(s), Write(t)
  PROVE  Leaving(s)'
<1> DEFINE q == outbox[t]  r == Tail(q)  item == Head(q)
<1>1. q \in Seq(Writable) /\ q # <<>> /\ outbox'[t] = r /\ UNCHANGED <<ws, torn, code>> /\ ~torn[t]
  BY DEF Write, Live, sockets, QueuesInv, OutboxInv, SocketsInv
<1>2. /\ Len(q) \in Nat /\ Len(q) >= 1 /\ DOMAIN q = 1..Len(q) /\ item = q[1] /\ item \in Writable
      /\ DOMAIN r = 1..Len(q) - 1 /\ Len(r) = Len(q) - 1 /\ \A i \in DOMAIN r : r[i] = q[i + 1]
      /\ (r = <<>> <=> Len(q) = 1)
  BY <1>1, Taken
<1>3. /\ tally[s].received \in Nat /\ tally[t].written \in Nat
      /\ tally'[s].received = tally[s].received
  BY TallyFields, WriteCounts DEF QueuesInv
<1>4. tally[t].told = Unknown
  BY <1>1 DEF Leaving
<1>5. /\ ws[t] = "open" =>
           /\ tally[s].received = tally[t].written + Len(q)
           /\ \A i \in DOMAIN q : q[i].kind = "frame" /\ q[i].n = tally[t].written + i
      /\ \A i \in DOMAIN q : PassedClose(q[i]) =>
           /\ i = Len(q) /\ ws[s] = "closed" /\ ws[t] # "open" /\ q[i].code = ToldAs(s)
           /\ \A j \in 1..i-1 : q[j].kind = "frame"
           /\ tally[s].received = tally[t].written + i - 1
  BY <1>1 DEF Leaving
<1>6. ToldAs(s)' = ToldAs(s)
  BY <1>1 DEF ToldAs
<1>7. 1 \in DOMAIN q /\ \A i \in DOMAIN r : i + 1 \in DOMAIN q /\ r[i] = q[i + 1] /\ i \in Nat /\ i >= 1
  BY <1>2
<1>8. CASE item.kind = "frame"
  <2>1. tally'[t].written = tally[t].written + 1 /\ tally'[t].told = Unknown
    BY <1>4, <1>8, WriteCounts
  <2> HIDE DEF q, r, item
  <2>2. ws[t] = "open" => /\ tally'[s].received = tally'[t].written + Len(r)
                          /\ \A i \in DOMAIN r : r[i].kind = "frame" /\ r[i].n = tally'[t].written + i
    <3> SUFFICES ASSUME ws[t] = "open"
                 PROVE  /\ tally'[s].received = tally'[t].written + Len(r)
                        /\ \A i \in DOMAIN r : r[i].kind = "frame" /\ r[i].n = tally'[t].written + i
      OBVIOUS
    <3>1. tally'[s].received = tally'[t].written + Len(r)
      BY <1>2, <1>3, <1>5, <2>1
    <3>2. ASSUME NEW i \in DOMAIN r PROVE r[i].kind = "frame" /\ r[i].n = tally'[t].written + i
      <4>1. r[i].kind = "frame" /\ r[i].n = tally[t].written + (i + 1)
        BY <1>5, <1>7
      <4> QED
        BY <1>3, <1>7, <2>1, <4>1
    <3> QED
      BY <3>1, <3>2
  <2>3. ASSUME NEW i \in DOMAIN r, PassedClose(r[i])
        PROVE  /\ i = Len(r) /\ ws[s] = "closed" /\ ws[t] # "open" /\ r[i].code = ToldAs(s)
               /\ \A j \in 1..i-1 : r[j].kind = "frame"
               /\ tally'[s].received = tally'[t].written + i - 1
    <3>1. i + 1 \in DOMAIN q /\ r[i] = q[i + 1] /\ i \in Nat
      BY <1>7
    <3>2. /\ i + 1 = Len(q) /\ ws[s] = "closed" /\ ws[t] # "open" /\ r[i].code = ToldAs(s)
          /\ \A j \in 1..(i+1)-1 : q[j].kind = "frame"
          /\ tally[s].received = tally[t].written + (i + 1) - 1
      BY <1>5, <2>3, <3>1
    <3>3. ASSUME NEW j \in 1..i-1 PROVE r[j].kind = "frame"
      <4>1. j + 1 \in 1..(i+1)-1 /\ j \in DOMAIN r
        BY <1>2, <3>1
      <4> QED
        BY <1>7, <3>2, <4>1
    <3> QED
      BY <1>2, <1>3, <2>1, <3>1, <3>2, <3>3
  <2> QED
    BY <1>1, <1>6, <2>1, <2>2, <2>3 DEF Leaving, PassedClose
<1>9. CASE item.kind # "frame"
  <2>1. /\ item.kind = "close" /\ ws[t] # "open" /\ tally'[t].written = tally[t].written
        /\ tally'[t].told = IF item.why = "bridge" THEN item.code ELSE Unknown
    BY <1>2, <1>4, <1>5, <1>7, <1>9, WriteCounts DEF Writable
  <2>2. CASE item.why = "bridge"
    <3>1. /\ 1 = Len(q) /\ ws[s] = "closed" /\ item.code = ToldAs(s)
          /\ tally[s].received = tally[t].written + 1 - 1
      BY <1>2, <1>5, <1>7, <2>1, <2>2 DEF PassedClose
    <3>2. r = <<>> /\ DOMAIN r = {}
      BY <1>2, <3>1
    <3>3. tally'[s].received = tally'[t].written
      BY <1>3, <2>1, <3>1
    <3> HIDE DEF q, r, item
    <3> QED
      BY <1>1, <1>6, <2>1, <2>2, <3>1, <3>2, <3>3 DEF Leaving, PassedClose
  <2>3. CASE item.why # "bridge"
    <3>1. ASSUME NEW i \in DOMAIN r PROVE ~PassedClose(r[i])
      <4>1. 1 \in 1..(i+1)-1
        BY <1>7
      <4> QED
        BY <1>2, <1>5, <1>7, <1>9, <4>1
    <3> HIDE DEF q, r, item
    <3> QED
      BY <1>1, <2>1, <2>3, <3>1 DEF Leaving, PassedClose
  <2> QED
    BY <2>2, <2>3
<1> QED
  BY <1>8, <1>9

\* What fails was for a peer that is gone.
LEMMA WriteFailsLeaves ==
  ASSUME QueuesInv, NEW s \in Sides, NEW t \in Sides, t = Other(s), StageInv, Leaving(s), WriteFails(t)
  PROVE  Leaving(s)'
<1> DEFINE q == outbox[t]  r == Tail(q)
<1>1. q \in Seq(Writable) /\ q # <<>> /\ outbox'[t] = r /\ UNCHANGED <<ws, torn, code, tally>> /\ torn[t]
  BY DEF WriteFails, sockets, QueuesInv, OutboxInv
<1>2. /\ Len(q) \in Nat /\ DOMAIN q = 1..Len(q) /\ DOMAIN r = 1..Len(q) - 1 /\ Len(r) = Len(q) - 1
      /\ \A i \in DOMAIN r : r[i] = q[i + 1]
  BY <1>1, Taken
<1>3. ws[t] # "open" /\ tally[t].told = Unknown
  BY <1>1 DEF StageInv, Leaving
<1>4. ToldAs(s)' = ToldAs(s)
  BY <1>1 DEF ToldAs
<1>5. ASSUME NEW i \in DOMAIN r, PassedClose(r[i])
      PROVE  i = Len(r) /\ ws[s] = "closed" /\ r[i].code = ToldAs(s)
  <2>1. i + 1 \in DOMAIN q /\ r[i] = q[i + 1] /\ i \in Nat
    BY <1>2
  <2>2. i + 1 = Len(q) /\ ws[s] = "closed" /\ r[i].code = ToldAs(s)
    BY <1>5, <2>1 DEF Leaving
  <2> QED
    BY <1>2, <2>1, <2>2
<1> HIDE DEF q, r
<1> QED
  BY <1>1, <1>3, <1>4, <1>5 DEF Leaving, PassedClose

\* The close event: the end of s goes behind everything that was received from it.
LEMMA GoneLeaves ==
  ASSUME QueuesInv, SocketsInv, NEW s \in Sides, NEW t \in Sides, t = Other(s), Gone(s), Arriving(s), Leaving(s)
  PROVE  Leaving(s)'
<1> DEFINE q == outbox[t]
           c == IF CanSendCloseCode(code[s]) THEN code[s] ELSE NoCode
           r == Append(q, CloseFrame(c, "bridge"))
<1>1. /\ q \in Seq(Writable) /\ ws[s] # "closed" /\ ws'[s] = "closed" /\ ws'[t] # "open"
      /\ UNCHANGED <<torn, code, flow, tally>>
  BY SidesFacts DEF Gone, OnClose, QueuesInv, OutboxInv, SocketsInv
<1>2. ToldAs(s)' = ToldAs(s)
  BY <1>1 DEF ToldAs
<1>3. tally[t].told = Unknown /\ \A i \in DOMAIN q : ~PassedClose(q[i])
  BY <1>1 DEF Leaving
<1>4. CASE ws[t] # "open"
  <2>1. outbox'[t] = q
    BY <1>4 DEF Gone, OnClose
  <2> QED
    BY <1>1, <1>3, <2>1 DEF Leaving, PassedClose
<1>5. CASE ws[t] = "open"
  <2>1. outbox'[t] = r
    BY <1>5 DEF Gone, OnClose, QueuesInv, OutboxInv
  <2>2. c = ToldAs(s) /\ c \in Nat
    <3>1. code[s] \in Codes \cup {NoCode, Lost, Unknown}
      BY DEF Arriving
    <3>2. Codes \subseteq Nat /\ \A n \in Codes : CanSendCloseCode(n)
      BY BridgeAssumption DEF Readable, CanSendCloseCode, NoCode, Lost
    <3>3. \A n \in {NoCode, Lost, Unknown} : n \notin Codes /\ ~CanSendCloseCode(n)
      BY BridgeAssumption DEF Readable, CanSendCloseCode, NoCode, Lost, Unknown
    <3> QED
      BY <3>1, <3>2, <3>3, Constants DEF ToldAs
  <2> HIDE DEF c
  <2>3. CloseFrame(c, "bridge") \in Writable
    BY <2>2, ItemTypes
  <2>4. /\ Len(q) \in Nat /\ DOMAIN q = 1..Len(q) /\ DOMAIN r = 1..Len(q) + 1 /\ Len(r) = Len(q) + 1
        /\ r[Len(q) + 1] = CloseFrame(c, "bridge") /\ \A i \in DOMAIN q : r[i] = q[i]
    BY <1>1, <2>3, Appended
  <2>5. /\ tally[s].received = tally[t].written + Len(q) /\ \A i \in DOMAIN q : q[i].kind = "frame"
        /\ tally[s].received \in Nat /\ tally[t].written \in Nat
    BY <1>5, TallyFields DEF Leaving, QueuesInv
  <2> HIDE DEF q, r
  <2>6. ASSUME NEW i \in DOMAIN r, PassedClose(r[i])
        PROVE  /\ i = Len(r) /\ r[i].code = ToldAs(s)
               /\ \A j \in 1..i-1 : r[j].kind = "frame"
               /\ tally[s].received = tally[t].written + i - 1
    <3>1. i = Len(q) + 1
      BY <1>3, <2>4, <2>6
    <3>2. r[i].code = c
      BY <2>4, <3>1 DEF CloseFrame
    <3>3. i - 1 = Len(q) /\ \A j \in 1..i-1 : r[j].kind = "frame"
      BY <2>4, <2>5, <3>1
    <3> QED
      BY <2>2, <2>4, <2>5, <3>1, <3>2, <3>3
  <2> QED
    BY <1>1, <1>2, <1>3, <2>1, <2>6 DEF Leaving, PassedClose
<1> QED
  BY <1>4, <1>5

LEMMA GoneLanes ==
  ASSUME QueuesInv, SocketsInv, NEW s \in Sides, Gone(s), LaneInv, OwedInv
  PROVE  LaneInv' /\ OwedInv'
<1> DEFINE t == Other(s)
<1>1. t \in Sides /\ t # s /\ Other(t) = s /\ \A r \in Sides : r = s \/ r = t
  BY SidesFacts, Twice
<1> HIDE DEF t
<1>2. /\ ws'[s] = "closed" /\ (ws[t] = "closed" => ws'[t] = "closed") /\ inbox'[s] = <<>> /\ inbox'[t] = inbox[t]
      /\ outbox'[s] = outbox[s] /\ UNCHANGED <<torn, code, flow, tally>>
  BY <1>1 DEF t, Gone, OnClose, QueuesInv, InboxInv, OutboxInv, SocketsInv
<1>3. Arriving(s)'
  <2>1. DOMAIN <<>> = {}
    OBVIOUS
  <2> QED
    BY <1>2, <2>1 DEF LaneInv, Arriving
<1>4. Arriving(t)'
  BY <1>1, <1>2, ArrivingKept DEF LaneInv
<1>5. Leaving(s)'
  BY <1>1, GoneLeaves DEF LaneInv, t
<1>6. Leaving(t)'
  BY <1>1, <1>2, LeavingKept DEF LaneInv
<1>7. Owing(t)'
  BY <1>1, <1>2, OwingKept DEF OwedInv
<1>8. Owing(s)'
  <2>1. CASE ws[t] # "open"
    BY <1>1, <1>2, <2>1, OwingKept DEF OwedInv, Gone, OnClose, t
  <2>2. CASE ws[t] = "open"
    <3>1. PICK c \in Nat : outbox'[t] = Append(outbox[t], CloseFrame(c, "bridge"))
      BY <1>1, <2>2, Constants DEF Gone, OnClose, t, QueuesInv, OutboxInv, TallyInv
    <3> QED
      BY <1>1, <1>2, <3>1, OwingCloses DEF OwedInv, QueuesInv, t
  <2> QED
    BY <2>1, <2>2
<1> QED
  BY <1>1, <1>3, <1>4, <1>5, <1>6, <1>7, <1>8 DEF LaneInv, OwedInv

\* What a step of the bridge does to the sockets, other than a close event.
Closing ==
  \A r \in Sides : /\ ws'[r] = ws[r] \/ (ws[r] \in {"open", "closing"} /\ ws'[r] = "closing")
                   /\ torn[r] => torn'[r]
                   /\ torn'[r] => torn[r] \/ ws'[r] = "closing"

LEMMA ClosesClosing ==
  ASSUME SocketsInv, NEW S, NEW c, NEW why, Closes(S, c, why), UNCHANGED torn
  PROVE  Closing /\ \A s \in S \cap Sides : ws'[s] # "open"
BY DEF Closes, Closing, SocketsInv

LEMMA MalformedClosing ==
  ASSUME SocketsInv, NEW s \in Sides, ReceiveMalformed(s)
  PROVE  Closing /\ ws'[s] # "open"
<1>1. CASE s = "server" /\ ws["client"] \in {"open", "closing"}
  <2>1. /\ ws' = [client |-> "closing", server |-> "closing"] /\ torn' = [torn EXCEPT !["client"] = TRUE]
        /\ ws["server"] \in {"open", "closing"}
    BY <1>1 DEF ReceiveMalformed, Live
  <2>2. \A r \in Sides : ws'[r] = "closing" /\ ws[r] \in {"open", "closing"} /\ (torn[r] => torn'[r])
    BY <1>1, <2>1 DEF Sides, SocketsInv
  <2> QED
    BY <2>2 DEF Closing
<1>2. CASE ~(s = "server" /\ ws["client"] \in {"open", "closing"})
  <2>1. Closes({s}, Protocol, "own") /\ UNCHANGED torn
    BY <1>2 DEF ReceiveMalformed
  <2> QED
    BY <2>1, ClosesClosing
<1> QED
  BY <1>1, <1>2

LEMMA BridgeCloses ==
  ASSUME SocketsInv, NEW s \in Sides, PeerSends(s) \/ Breaks(s) \/ Write(s) \/ Settles(s)
  PROVE  Closing
<1>1. CASE UNCHANGED <<ws, torn>>
  BY <1>1 DEF Closing
<1>2. CASE PeerSends(s) \/ Write(s) \/ WriteFails(s) \/ Read(s) \/ ReceiveFrame(s)
  BY <1>1, <1>2 DEF PeerSends, Write, WriteFails, Read, ReceiveFrame, sockets
<1>3. CASE Breaks(s)
  BY <1>3 DEF Breaks, Live, Closing, SocketsInv
<1>4. CASE CloseTimer(s)
  BY <1>4 DEF CloseTimer, Closing, SocketsInv
<1>5. CASE ReceiveClose(s)
  BY <1>5, ClosesClosing DEF ReceiveClose
<1>6. CASE ReceiveMalformed(s)
  BY <1>6, MalformedClosing
<1> QED
  BY <1>2, <1>3, <1>4, <1>5, <1>6 DEF Settles, Receives

\* The end of s is received: its own socket answers, and it passes nothing more.
LEMMA EndLanes ==
  ASSUME QueuesInv, SocketsInv, NEW s \in Sides, ReceiveClose(s) \/ ReceiveMalformed(s), LaneInv, OwedInv
  PROVE  LaneInv' /\ OwedInv'
<1> DEFINE t == Other(s)
<1>1. t \in Sides /\ t # s /\ Other(t) = s /\ \A r \in Sides : r = s \/ r = t
  BY SidesFacts, Twice
<1> HIDE DEF t
<1>2. Closing /\ ws'[s] # "open" /\ ws[s] # "closed"
  <2>1. CASE ReceiveClose(s)
    BY <2>1, ClosesClosing DEF ReceiveClose, Live
  <2>2. CASE ReceiveMalformed(s)
    BY <2>2, MalformedClosing DEF ReceiveMalformed, Live
  <2> QED
    BY <2>1, <2>2
<1>3. /\ inbox'[t] = inbox[t] /\ outbox'[t] = outbox[t] /\ code'[t] = code[t] /\ UNCHANGED <<flow, tally>>
      /\ ws[s] # "open" => outbox'[s] = outbox[s]
      /\ ws[s] = "open" => \E c \in Nat : outbox'[s] = Append(outbox[s], CloseFrame(c, "own"))
  <2>1. CASE ReceiveClose(s)
    <3>1. Head(inbox[s]).code \in Nat
      BY <2>1, HeadType, ItemFields DEF ReceiveClose, QueuesInv
    <3> QED
      BY <1>1, <2>1, <3>1 DEF ReceiveClose, Closes, QueuesInv, InboxInv, OutboxInv, TallyInv
  <2>2. CASE ReceiveMalformed(s)
    <3>1. inbox'[t] = inbox[t] /\ code'[t] = code[t] /\ UNCHANGED <<flow, tally>>
      BY <1>1, <2>2 DEF ReceiveMalformed, QueuesInv, InboxInv, TallyInv
    <3>2. \/ Closes({s}, Protocol, "own")
          \/ outbox' = IF ws[s] = "open" THEN [outbox EXCEPT ![s] = Append(@, CloseFrame(Protocol, "own"))] ELSE outbox
      BY <2>2 DEF ReceiveMalformed
    <3> QED
      BY <1>1, <3>1, <3>2, Constants DEF Closes, QueuesInv, OutboxInv
  <2> QED
    BY <2>1, <2>2
<1>4. Arriving(s)'
  BY EndArrives DEF LaneInv
<1>5. Arriving(t)'
  BY <1>1, <1>2, <1>3, ArrivingKept DEF LaneInv, Closing
<1>6. Leaving(s)'
  BY <1>1, <1>2, <1>3, LeavingKept DEF LaneInv, Closing, t
<1>7. Owing(s)'
  BY <1>3, OwingKept DEF OwedInv, t
<1>8. Leaving(t)' /\ Owing(t)'
  <2>1. CASE ws[s] # "open"
    BY <1>1, <1>2, <1>3, <2>1, LeavingKept, OwingKept DEF LaneInv, OwedInv, Closing
  <2>2. CASE ws[s] = "open"
    <3>1. PICK c \in Nat : outbox'[s] = Append(outbox[s], CloseFrame(c, "own"))
      BY <1>3, <2>2
    <3> QED
      BY <1>1, <1>2, <1>3, <2>2, <3>1, LeavingCloses, OwingCloses DEF LaneInv, OwedInv, QueuesInv
  <2> QED
    BY <2>1, <2>2
<1> QED
  BY <1>1, <1>4, <1>5, <1>6, <1>7, <1>8 DEF LaneInv, OwedInv

\* A socket is never opened again, nor is one that is destroyed mended.
Ending == \A r \in Sides : /\ ws'[r] = "open" => ws[r] = "open"
                           /\ ws[r] = "closed" => ws'[r] = "closed"
                           /\ torn[r] => torn'[r]

LEMMA AllKept ==
  ASSUME LaneInv, OwedInv, Ending, UNCHANGED <<inbox, outbox, code, flow, tally>>
  PROVE  LaneInv' /\ OwedInv'
<1>1. ASSUME NEW s \in Sides PROVE Arriving(s)' /\ Leaving(s)' /\ Owing(s)'
  BY SidesFacts, ArrivingKept, LeavingKept, OwingKept DEF LaneInv, OwedInv, Ending
<1> QED
  BY <1>1 DEF LaneInv, OwedInv

LEMMA QuietLanes == Quiet' => LaneInv'
<1> SUFFICES ASSUME Quiet', NEW s \in Sides PROVE Arriving(s)' /\ Leaving(s)'
  BY DEF LaneInv
<1>1. DOMAIN <<>> = {} /\ Len(<<>>) = 0
  OBVIOUS
<1>2. \A r \in Sides : inbox'[r] = <<>> /\ outbox'[r] = <<>> /\ code'[r] = Unknown
                       /\ tally'[r].sent = 0 /\ tally'[r].received = 0 /\ tally'[r].written = 0
                       /\ tally'[r].told = Unknown
  BY DEF Quiet, Untold
<1> QED
  BY <1>1, <1>2, SidesFacts DEF Arriving, Leaving, Whole

LEMMA FrameLanes ==
  ASSUME QueuesInv, FlowInv, NEW s \in Sides, ReceiveFrame(s), LaneInv, OwedInv
  PROVE  LaneInv' /\ OwedInv'
<1> DEFINE t == Other(s)
<1>1. t \in Sides /\ t # s /\ Other(t) = s /\ \A r \in Sides : r = s \/ r = t
  BY SidesFacts, Twice
<1>2. /\ Arriving(s)'
      /\ Head(inbox[s]) \in Writable /\ Head(inbox[s]).kind = "frame"
      /\ Head(inbox[s]).n = tally[s].received + 1 /\ tally'[s].received = tally[s].received + 1
  BY FrameArrives DEF LaneInv
<1>3. /\ UNCHANGED sockets /\ ws[s] # "closed" /\ Forward(s, Head(inbox[s]))
      /\ tally'[t] = tally[t] /\ inbox'[t] = inbox[t]
      /\ tally'[s].written = tally[s].written /\ tally'[s].told = tally[s].told
  BY <1>1 DEF ReceiveFrame, Live, QueuesInv, InboxInv, TallyInv, Tallies
<1>4. outbox'[s] = outbox[s] /\ flow'[t] = flow[t]
  BY <1>1, <1>3 DEF Forward, QueuesInv, OutboxInv, FlowInv
<1> HIDE DEF t
<1>5. Leaving(s)' /\ Owing(s)'
  BY <1>1, <1>2, <1>3, ForwardLanes DEF LaneInv, OwedInv, t
<1>6. Arriving(t)'
  BY <1>1, <1>3, ArrivingKept DEF LaneInv, sockets
<1>7. Leaving(t)'
  BY <1>1, <1>3, <1>4, LeavingKept DEF LaneInv, sockets
<1>8. Owing(t)'
  BY <1>1, <1>4, OwingKept DEF OwedInv
<1> QED
  BY <1>1, <1>2, <1>5, <1>6, <1>7, <1>8 DEF LaneInv, OwedInv

LEMMA WriteLanes ==
  ASSUME QueuesInv, FlowInv, SocketsInv, StageInv, NEW t \in Sides, Write(t) \/ WriteFails(t), LaneInv, OwedInv
  PROVE  LaneInv' /\ OwedInv'
<1> DEFINE s == Other(t)
<1>1. s \in Sides /\ s # t /\ Other(s) = t /\ \A r \in Sides : r = s \/ r = t
  BY SidesFacts, Twice
<1>2. /\ UNCHANGED <<ws, torn, code, inbox>> /\ outbox'[s] = outbox[s] /\ flow'[t] = flow[t]
      /\ \A r \in Sides : tally'[r].sent = tally[r].sent /\ tally'[r].received = tally[r].received
      /\ tally'[s] = tally[s]
  BY <1>1, WriteCounts DEF Write, WriteFails, Sent, sockets, QueuesInv, OutboxInv, FlowInv
<1> HIDE DEF s
<1>3. Arriving(s)' /\ Arriving(t)'
  BY <1>1, <1>2, ArrivingKept DEF LaneInv
<1>4. Leaving(t)'
  BY <1>1, <1>2, LeavingKept DEF LaneInv, s
<1>5. Leaving(s)'
  BY <1>1, WriteLeaves, WriteFailsLeaves DEF LaneInv
<1>6. Owing(t)'
  BY <1>1, <1>2, OwingKept DEF OwedInv, s
<1>7. Owing(s)'
  BY <1>1, WriteOwes DEF OwedInv
<1> QED
  BY <1>1, <1>3, <1>4, <1>5, <1>6, <1>7 DEF LaneInv, OwedInv

LEMMA PeerLanes ==
  ASSUME QueuesInv, NEW s \in Sides, PeerSends(s), LaneInv, OwedInv
  PROVE  LaneInv' /\ OwedInv'
<1> DEFINE t == Other(s)
<1>1. t \in Sides /\ t # s /\ Other(t) = s /\ \A r \in Sides : r = s \/ r = t
  BY SidesFacts, Twice
<1>2. /\ UNCHANGED <<ws, torn, code, outbox, flow>> /\ inbox'[t] = inbox[t]
  BY <1>1 DEF PeerSends, sockets, QueuesInv, InboxInv
<1>3. \A r \in Sides : /\ tally'[r].received = tally[r].received
                       /\ tally'[r].written = tally[r].written /\ tally'[r].told = tally[r].told
  <2>1. UNCHANGED tally \/ tally' = [tally EXCEPT ![s].sent = @ + 1]
    BY DEF PeerSends
  <2> QED
    BY <2>1 DEF QueuesInv, TallyInv, Tallies
<1>4. tally'[t].sent = tally[t].sent
  BY <1>1 DEF PeerSends, QueuesInv, TallyInv, Tallies
<1> HIDE DEF t
<1>5. Arriving(s)'
  BY PeerSendsLanes DEF LaneInv
<1>6. Arriving(t)'
  BY <1>1, <1>2, <1>3, <1>4, ArrivingKept DEF LaneInv
<1>7. ASSUME NEW r \in Sides PROVE Leaving(r)' /\ Owing(r)'
  BY <1>2, <1>3, SidesFacts, LeavingKept, OwingKept DEF LaneInv, OwedInv
<1> QED
  BY <1>1, <1>5, <1>6, <1>7 DEF LaneInv, OwedInv

LEMMA BridgeLanes ==
  ASSUME QueuesInv, FlowInv, SocketsInv, StageInv, LaneInv, OwedInv, NEW s \in Sides,
         PeerSends(s) \/ Breaks(s) \/ Write(s) \/ Settles(s)
  PROVE  LaneInv' /\ OwedInv'
<1>1. CASE Read(s) \/ Breaks(s) \/ CloseTimer(s)
  <2>1. Closing
    BY <1>1, BridgeCloses DEF Settles
  <2>2. Ending
    BY <2>1 DEF Closing, Ending
  <2>3. UNCHANGED <<inbox, outbox, code, flow, tally>>
    BY <1>1 DEF Read, Breaks, CloseTimer, sockets, traffic
  <2> QED
    BY <2>2, <2>3, AllKept
<1> QED
  BY <1>1, PeerLanes, WriteLanes, FrameLanes, EndLanes DEF Settles, Receives

\* The listener's close() closes what is open; what it ends at once was not open.
LEMMA StopLanes ==
  ASSUME QueuesInv, SocketsInv, LaneInv, OwedInv, Stop
  PROVE  LaneInv' /\ OwedInv'
<1>1. /\ UNCHANGED <<code, inbox, flow, tally>>
      /\ \A r \in Sides : /\ ws'[r] = IF r \in Tracked THEN "closing" ELSE ws[r]
                          /\ torn[r] => torn'[r]
                          /\ outbox'[r] = IF ws[r] = "open" THEN Append(outbox[r], CloseFrame(GoingAway, "own"))
                                          ELSE outbox[r]
  BY DEF Stop, SocketsInv
<1>2. Ending
  BY <1>1 DEF Ending, Tracked
<1>3. ASSUME NEW s \in Sides PROVE Arriving(s)' /\ Leaving(s)' /\ Owing(s)'
  <2> DEFINE t == Other(s)
  <2>1. t \in Sides
    BY SidesFacts
  <2>2. Arriving(s)'
    BY <1>1, <1>2, ArrivingKept DEF LaneInv, Ending
  <2>3. CASE ws[t] # "open"
    <3>1. outbox'[t] = outbox[t]
      BY <1>1, <2>1, <2>3
    <3>2. Leaving(s)'
      BY <1>1, <1>2, <2>1, <3>1, LeavingKept DEF LaneInv, Ending
    <3> QED
      BY <1>1, <2>2, <3>1, <3>2, OwingKept DEF OwedInv
  <2>4. CASE ws[t] = "open"
    <3>1. outbox'[t] = Append(outbox[t], CloseFrame(GoingAway, "own")) /\ ws'[t] # "open"
      BY <1>1, <2>1, <2>4 DEF Tracked
    <3>2. Leaving(s)'
      BY <1>1, <2>1, <2>4, <3>1, Constants, LeavingCloses DEF LaneInv, QueuesInv
    <3>3. Owing(s)'
      BY <1>1, <3>1, Constants, OwingCloses DEF OwedInv, QueuesInv
    <3> QED
      BY <2>2, <3>2, <3>3
  <2> QED
    BY <2>3, <2>4
<1> QED
  BY <1>3 DEF LaneInv, OwedInv

LEMMA SweepLanes ==
  ASSUME SocketsInv, StageInv, LaneInv, OwedInv, Sweep
  PROVE  LaneInv' /\ OwedInv'
<1>1. PICK S : Terminates(S) /\ \A r \in S : ws[r] # "closed"
  BY DEF Sweep, Ended, Tracked, StageInv
<1>2. Ending
  BY <1>1 DEF Terminates, Ending, SocketsInv
<1> QED
  BY <1>2, AllKept DEF Sweep, traffic

\* Before the client is upgraded, nothing passes.
LEMMA QuietStep ==
  ASSUME StageInv, LaneInv, OwedInv, ws["client"] = "none", UNCHANGED <<code, inbox, outbox, flow, tally>>
  PROVE  LaneInv' /\ OwedInv' /\ Quiet'
<1>1. Quiet'
  BY DEF StageInv, Quiet
<1>2. \A s \in Sides : Owing(s)'
  BY OwingKept DEF OwedInv
<1> QED
  BY <1>1, <1>2, QuietLanes DEF OwedInv

LEMMA SocketGoneLanes ==
  ASSUME QueuesInv, SocketsInv, StageInv, LaneInv, OwedInv, NEW s \in Sides, SocketGone(s)
  PROVE  LaneInv' /\ OwedInv'
<1>1. CASE Gone(s)
  BY <1>1, GoneLanes
<1>2. CASE ~(tcp = "bridged" \/ ws["client"] # "none") /\ UNCHANGED <<torn, code, traffic, tally>>
  BY <1>2, QuietStep DEF traffic
<1> QED
  BY <1>1, <1>2 DEF SocketGone

LEMMA LanesStep ==
  QueuesInv /\ FlowInv /\ SocketsInv /\ StageInv /\ LaneInv /\ OwedInv /\ [Next]_vars => (LaneInv /\ OwedInv)'
<1> SUFFICES ASSUME QueuesInv, FlowInv, SocketsInv, StageInv, LaneInv, OwedInv, [Next]_vars
             PROVE  LaneInv' /\ OwedInv'
  OBVIOUS
<1>1. CASE UNCHANGED <<ws, torn, code, traffic, tally>>
  BY <1>1, AllKept DEF Ending, traffic
<1>2. CASE UNCHANGED vars \/ Stopped
  BY <1>1, <1>2 DEF Stopped, vars, bridgeVars, sockets
<1>3. CASE Request \/ ClientLeaves \/ Accepted \/ Refused \/ UpgradeFails
  <2>1. ws["client"] = "none"
    BY <1>3 DEF Request, ClientLeaves, Accepted, Refused, UpgradeFails, StageInv, Waiting
  <2>2. UNCHANGED <<code, inbox, outbox, flow, tally>>
    BY <1>3 DEF Request, ClientLeaves, Accepted, Refused, UpgradeFails, bridgeVars, sockets, traffic
  <2> QED
    BY <2>1, <2>2, QuietStep
<1> QED
  BY <1>2, <1>3, StopLanes, SweepLanes, SocketGoneLanes, BridgeLanes DEF Next, Peers, Work

\* Nothing of the bridge happens before the client is upgraded.
LEMMA BridgeActs ==
  ASSUME SocketsInv, StageInv, NEW s \in Sides, PeerSends(s) \/ Breaks(s) \/ Write(s) \/ Settles(s)
  PROVE  ws["client"] # "none"
<1> SUFFICES ASSUME ws["client"] = "none" PROVE FALSE
  OBVIOUS
<1>1. Quiet /\ (ws["server"] \in {"none", "connecting"} \/ torn["server"])
  BY DEF StageInv
<1>2. \A r \in Sides : ~Live(r)
  BY <1>1 DEF Sides, Live
<1>3. CASE CloseTimer(s)
  BY <1>1, <1>3 DEF CloseTimer, Sides
<1>4. CASE WriteFails(s)
  BY <1>1, <1>4 DEF WriteFails, Quiet
<1> QED
  BY <1>2, <1>3, <1>4 DEF PeerSends, MaySend, Breaks, Write, Settles, Receives, Read,
                          ReceiveFrame, ReceiveClose, ReceiveMalformed

LEMMA BridgeStage ==
  ASSUME SocketsInv, StageInv, NEW s \in Sides, Bridged, PeerSends(s) \/ Breaks(s) \/ Write(s) \/ Settles(s)
  PROVE  StageInv'
<1>1. Closing /\ ws["client"] # "none"
  BY BridgeCloses, BridgeActs
<1>2. UNCHANGED tcp
  BY DEF Bridged
<1>3. tcp \notin {"idle"} \cup Waiting /\ ws["server"] \notin {"none", "connecting"}
  BY <1>1 DEF StageInv
<1>4. /\ ws'["client"] = ws["client"] \/ (ws["client"] \in {"open", "closing"} /\ ws'["client"] = "closing")
      /\ ws'["server"] = ws["server"] \/ (ws["server"] \in {"open", "closing"} /\ ws'["server"] = "closing")
  BY <1>1, SidesFacts DEF Closing
<1>5. \A r \in Sides : torn'[r] => ws'[r] \in {"closing", "closed"}
  BY <1>1 DEF Closing, StageInv
<1> QED
  BY <1>1, <1>2, <1>3, <1>4, <1>5 DEF StageInv

LEMMA UpgradeStage ==
  ASSUME SocketsInv, StageInv, LaneInv, OwedInv,
         Request \/ ClientLeaves \/ Accepted \/ Refused \/ UpgradeFails
  PROVE  StageInv'
<1>1. ws["client"] = "none" /\ torn["client"] = FALSE
  BY SidesFacts
     DEF Request, ClientLeaves, Accepted, Refused, UpgradeFails, StageInv, SocketsInv, Waiting
<1>2. UNCHANGED <<code, inbox, outbox, flow, tally>>
  BY DEF Request, ClientLeaves, Accepted, Refused, UpgradeFails, bridgeVars, sockets, traffic
<1>3. Quiet'
  BY <1>1, <1>2, QuietStep
<1>4. /\ ws["server"] \in {"none", "connecting"} \/ torn["server"]
      /\ torn["server"] => ws["server"] \in {"closing", "closed"}
      /\ "client" \in Sides /\ "server" \in Sides /\ \A r \in Sides : r = "client" \/ r = "server"
  BY <1>1 DEF StageInv, Sides
<1>5. CASE Request
  <2>1. /\ ws'["server"] = "connecting" /\ ws'["client"] = "none" /\ torn' = torn /\ ~torn["server"]
        /\ tcp' = "upgrading"
    BY <1>1, <1>4, <1>5 DEF Request, SocketsInv, StageInv
  <2> QED
    BY <1>1, <1>3, <1>4, <2>1 DEF StageInv
<1>6. ASSUME NEW S, S \subseteq {"server"}, Terminates(S), tcp' = "gone",
             ws["server"] # "connecting" \/ S = {"server"}
      PROVE  StageInv'
  <2>1. /\ ws'["client"] = "none" /\ torn'["client"] = FALSE
        /\ ws'["server"] = (IF "server" \in S THEN "closing" ELSE ws["server"])
        /\ torn'["server"] <=> torn["server"] \/ "server" \in S
    BY <1>1, <1>4, <1>6 DEF Terminates, SocketsInv
  <2> QED
    BY <1>1, <1>3, <1>4, <1>6, <2>1 DEF StageInv, Waiting
<1>7. CASE ClientLeaves
  <2>1. ws["server"] # "connecting" \/ Tracked \cap {"server"} = {"server"}
    BY <1>4 DEF Tracked
  <2> QED
    BY <1>6, <1>7, <2>1 DEF ClientLeaves
<1>8. CASE Accepted
  <2>1. CASE tcp' = "bridged" /\ ws' = [s \in Sides |-> "open"] /\ UNCHANGED torn
    <3>1. ~torn["server"] /\ ws'["client"] = "open" /\ ws'["server"] = "open"
      BY <1>4, <1>8, <2>1 DEF Accepted
    <3> QED
      BY <1>1, <1>4, <2>1, <3>1 DEF StageInv, Waiting
  <2> QED
    BY <1>6, <1>8, <2>1 DEF Accepted
<1>9. CASE Refused
  BY <1>1, <1>3, <1>4, <1>9 DEF Refused, StageInv, Waiting, bridgeVars, sockets
<1>10. CASE UpgradeFails
  BY <1>6, <1>10 DEF UpgradeFails
<1> QED
  BY <1>5, <1>7, <1>8, <1>9, <1>10

LEMMA SocketGoneStage ==
  ASSUME SocketsInv, StageInv, LaneInv, OwedInv, NEW s \in Sides, SocketGone(s)
  PROVE  StageInv'
<1>1. "client" \in Sides /\ "server" \in Sides /\ \A r \in Sides : r = "client" \/ r = "server"
  BY DEF Sides
<1>2. ws[s] = "closing" /\ torn[s] /\ UNCHANGED torn /\ ws'[s] = "closed"
  BY DEF SocketGone, Gone, OnClose, SocketsInv
<1>3. tcp' = IF s = "client" \/ tcp \in Waiting THEN "gone" ELSE tcp
  BY DEF SocketGone
<1>4. CASE ws["client"] = "none"
  <2>1. ws' = [ws EXCEPT ![s] = "closed"] /\ UNCHANGED <<code, traffic, tally>> /\ s = "server"
    BY <1>1, <1>2, <1>4 DEF SocketGone, StageInv
  <2>2. Quiet'
    BY <1>4, <2>1, QuietStep DEF traffic
  <2>3. /\ ws'["client"] = "none" /\ ws'["server"] = "closed" /\ torn["server"] /\ torn["client"] = FALSE
        /\ tcp # "idle" /\ tcp # "bridged" /\ s = "server"
    BY <1>1, <1>2, <1>4, <2>1 DEF SocketsInv, StageInv
  <2>4. tcp' # "idle" /\ tcp' # "bridged"
    BY <1>3, <2>3
  <2>5. \A r \in Sides : torn'[r] => ws'[r] = "closed"
    BY <1>1, <1>2, <2>3
  <2> QED
    BY <2>2, <2>3, <2>4, <2>5, <1>2 DEF StageInv
<1>5. CASE ws["client"] # "none"
  <2>1. Gone(s) /\ tcp \notin {"idle"} \cup Waiting /\ ws["server"] \notin {"none", "connecting"}
    BY <1>5 DEF SocketGone, StageInv
  <2>2. \A r \in Sides : ws'[r] = ws[r] \/ (r = s /\ ws'[r] = "closed") \/ (ws[r] = "open" /\ ws'[r] = "closing")
    BY <2>1 DEF Gone, OnClose, SocketsInv
  <2>3. /\ ws'["client"] \notin {"none", "connecting"} /\ ws'["server"] \notin {"none", "connecting"}
        /\ \A r \in Sides : torn'[r] => ws'[r] \in {"closing", "closed"}
        /\ s # "client" => (ws["client"] \in {"open", "closing"} => ws'["client"] \in {"open", "closing"})
    BY <1>1, <1>2, <1>5, <2>1, <2>2 DEF StageInv
  <2> QED
    BY <1>3, <2>1, <2>3 DEF StageInv, Waiting
<1> QED
  BY <1>4, <1>5

LEMMA CloseStage ==
  ASSUME QueuesInv, SocketsInv, StageInv, Stop \/ Sweep \/ Stopped
  PROVE  StageInv'
<1>1. "client" \in Sides /\ "server" \in Sides /\ \A r \in Sides : r = "client" \/ r = "server"
  BY DEF Sides
<1>2. CASE Stop
  <2>1. /\ UNCHANGED <<code, inbox, tally, tcp>>
        /\ \A r \in Sides : /\ ws'[r] = IF ws[r] \in {"connecting", "open", "closing"} THEN "closing" ELSE ws[r]
                            /\ torn'[r] <=> torn[r] \/ ws[r] \in {"connecting", "closing"}
                            /\ ws[r] # "open" => outbox'[r] = outbox[r]
    BY <1>2 DEF Stop, Tracked, SocketsInv
  <2>2. ws["client"] = "none" => Quiet'
    <3> SUFFICES ASSUME ws["client"] = "none" PROVE Quiet'
      OBVIOUS
    <3>1. Quiet /\ \A r \in Sides : ws[r] # "open"
      BY <1>1 DEF StageInv
    <3> QED
      BY <2>1, <3>1 DEF Quiet
  <2> QED
    BY <1>1, <2>1, <2>2 DEF StageInv
<1>3. CASE Sweep
  <2>1. PICK S : Terminates(S) /\ Tracked \subseteq S /\ \A r \in S : ws[r] \in {"connecting", "open", "closing"}
    BY <1>3 DEF Sweep, Ended, Tracked, StageInv
  <2>2. \A r \in Sides : /\ ws'[r] = IF ws[r] \in {"connecting", "open", "closing"} THEN "closing" ELSE ws[r]
                         /\ torn'[r] <=> torn[r] \/ ws[r] \in {"connecting", "open", "closing"}
    BY <2>1 DEF Terminates, Tracked, SocketsInv
  <2>3. Quiet => Quiet'
    BY <1>3 DEF Sweep, traffic, Quiet
  <2>4. tcp' = IF tcp = "bridged" THEN tcp ELSE "gone"
    BY <1>3 DEF Sweep
  <2> QED
    BY <1>1, <2>2, <2>3, <2>4 DEF StageInv, Waiting
<1>4. CASE Stopped
  BY <1>4 DEF Stopped, StageInv, Quiet, bridgeVars, sockets, traffic
<1> QED
  BY <1>2, <1>3, <1>4

PassedInv == QueuesInv /\ FlowInv /\ SocketsInv /\ StageInv /\ LaneInv /\ OwedInv

LEMMA StageStep == PassedInv /\ [Next]_vars => StageInv'
<1> SUFFICES ASSUME PassedInv, [Next]_vars PROVE StageInv'
  OBVIOUS
<1> USE DEF PassedInv
<1>1. CASE UNCHANGED vars
  BY <1>1 DEF vars, bridgeVars, sockets, traffic, StageInv, Quiet
<1> QED
  BY <1>1, UpgradeStage, SocketGoneStage, CloseStage, BridgeStage DEF Next, Peers, Work

LEMMA PassedInit == Init => StageInv /\ LaneInv /\ OwedInv
<1> SUFFICES ASSUME Init PROVE StageInv /\ LaneInv /\ OwedInv
  OBVIOUS
<1>1. \A s \in Sides : /\ ws[s] = "none" /\ torn[s] = FALSE /\ inbox[s] = <<>> /\ outbox[s] = <<>>
                       /\ code[s] = Unknown /\ tally[s] = Untold /\ flow[s].unsent = 0
  BY DEF Init, BridgeInit, NewFlow, Untold
<1>2. StageInv
  BY <1>1, SidesFacts DEF Init, StageInv, Quiet, Waiting
<1>3. DOMAIN <<>> = {} /\ Len(<<>>) = 0
  OBVIOUS
<1>4. ASSUME NEW s \in Sides PROVE Arriving(s) /\ Leaving(s)
  BY <1>1, <1>3, SidesFacts DEF Arriving, Leaving, Whole, Untold
<1>5. ASSUME NEW s \in Sides PROVE Owing(s)
  BY <1>1, NoBytes, SidesFacts DEF Owing
<1> QED
  BY <1>2, <1>4, <1>5 DEF LaneInv, OwedInv

LEMMA WholeFrames ==
  ASSUME NEW q \in Seq(Items), \A i \in DOMAIN q : q[i].kind = "frame" \/ i = Len(q)
  PROVE  Cardinality(FramesOf(q)) = Whole(q)
<1>1. Len(q) \in Nat /\ DOMAIN q = 1..Len(q) /\ (q = <<>> <=> Len(q) = 0)
  OBVIOUS
<1>2. FramesOf(q) = 1..Whole(q) /\ Whole(q) \in Nat
  <2>1. CASE q = <<>> \/ q[Len(q)].kind = "frame"
    BY <1>1, <2>1 DEF FramesOf, Whole
  <2>2. CASE ~(q = <<>> \/ q[Len(q)].kind = "frame")
    <3>1. Len(q) > 0 /\ Len(q) - 1 \in Nat
      BY <1>1, <2>2
    <3>2. Whole(q) = Len(q) - 1
      BY <2>2, Zenon DEF Whole
    <3>3. ASSUME NEW i \in FramesOf(q) PROVE i \in 1..Len(q) - 1
      BY <1>1, <2>2, <3>1, <3>3 DEF FramesOf
    <3>4. ASSUME NEW i \in 1..Len(q) - 1 PROVE i \in FramesOf(q)
      BY <1>1, <2>2, <3>1, <3>4 DEF FramesOf
    <3> QED
      BY <3>1, <3>2, <3>3, <3>4
  <2> QED
    BY <2>1, <2>2
<1>3. Cardinality(1..Whole(q)) = Whole(q)
  BY <1>2, FS_Interval
<1> QED
  BY <1>2, <1>3

LEMMA PassedFollows == PassedInv => PassedOn
<1> SUFFICES ASSUME PassedInv PROVE PassedOn
  OBVIOUS
<1>1. PausedIsOwed
  BY DEF PassedInv, OwedInv, Owing, FlowInv, PausedIsOwed
<1>2. CloseIsLast
  BY DEF PassedInv, LaneInv, Arriving, Leaving, ToldAs, CloseIsLast
<1>3. ASSUME NEW s \in Sides, NEW t, t = Other(s), ws[s] = "open", ws[t] = "open"
      PROVE  /\ \A i \in DOMAIN outbox[t] :
                  outbox[t][i].kind = "frame" /\ outbox[t][i].n = tally[t].written + i
             /\ \A i \in DOMAIN inbox[s] :
                  IF inbox[s][i].kind = "frame"
                  THEN inbox[s][i].n = tally[t].written + Len(outbox[t]) + i
                  ELSE i = Len(inbox[s])
             /\ tally[s].sent = tally[t].written + Len(outbox[t]) + Cardinality(FramesOf(inbox[s]))
  <2>1. /\ tally[s].received = tally[t].written + Len(outbox[t])
        /\ \A i \in DOMAIN outbox[t] :
             outbox[t][i].kind = "frame" /\ outbox[t][i].n = tally[t].written + i
    BY <1>3 DEF PassedInv, LaneInv, Leaving
  <2>2. /\ \A i \in DOMAIN inbox[s] :
             IF inbox[s][i].kind = "frame" THEN inbox[s][i].n = tally[s].received + i ELSE i = Len(inbox[s])
        /\ tally[s].sent = tally[s].received + Whole(inbox[s])
    BY <1>3 DEF PassedInv, LaneInv, Arriving
  <2>3. Cardinality(FramesOf(inbox[s])) = Whole(inbox[s])
    BY <2>2, WholeFrames DEF PassedInv, QueuesInv, InboxInv
  <2> QED
    BY <2>1, <2>2, <2>3
<1>4. InOrder
  BY <1>3 DEF InOrder
<1> QED
  BY <1>1, <1>2, <1>4 DEF PassedOn

\* What a peer is given is what the other sent, in order, none lost and none twice, then
\* the code it closed with, and nothing holds the rest back: for every size of frame, mark,
\* read and number of frames (bridge.ts:33-52).
THEOREM PassedOnCorrect == Spec => []PassedOn
<1>1. Init => PassedInv
  BY QueuesInit, FlowInit, EndInit, PassedInit DEF EndInv, PassedInv
<1>2. EndInv /\ [Next]_vars => EndInv'
  BY EndStep
<1>3. EndInv /\ PassedInv /\ [Next]_vars => PassedInv'
  BY QueuesStep, FlowStep, EndStep, LanesStep, StageStep DEF EndInv, PassedInv
<1> QED
  BY <1>1, <1>2, <1>3, EndInit, PassedFollows, PTL DEF Spec
==================================================================================
