--------------------------------- MODULE Bridge ---------------------------------
(***************************************************************************)
(* bridge and forward (t3code-proxy/src/bridge.ts): the two WebSockets of  *)
(* one bridged connection.  A frame of one peer is sent to the other; a    *)
(* side is paused while too much of what it sent is not yet written; its   *)
(* close event closes the other side.                                      *)
(*                                                                         *)
(* The sockets are the ws library's, as bridge.ts and upgrade.ts use it:   *)
(* close() queues a close frame behind what is unsent and starts a timer;  *)
(* a close frame that is received is echoed; the callback of send() always *)
(* comes, with an error once the socket is destroyed; the close event      *)
(* comes when it is.  Bytes are written when the peer takes them.  A ping  *)
(* or pong is a frame of size 0, and the rewriting of text (frames.ts)     *)
(* does not matter here.                                                   *)
(***************************************************************************)
EXTENDS Integers, SequencesExt

CONSTANTS
  Sizes,      \* sizes of frames
  Codes,      \* close codes a peer may send, or NoCode
  HighWater,  \* HIGH_WATER_BYTES
  Chunk,      \* most frames that one read of a socket may hold
  MaxFrames,  \* bound: frames each peer sends
  MaxReplies  \* bound: frames of the other after which a peer sends none

Sides    == {"client", "server"}
Other(s) == IF s = "client" THEN "server" ELSE "client"

GoingAway == 1001
Protocol  == 1002   \* a frame that cannot be read
NoCode    == 1005   \* a close frame without a code
Lost      == 1006   \* no close frame
Unknown   == 0      \* none received yet

\* isValidStatusCode of ws: a close frame with another code cannot be read.
Readable == (1000..1003 \cup 1007..1014) \cup 3000..4999

ASSUME BridgeAssumption ==
  /\ Sizes \subseteq Nat /\ HighWater \in Nat \ {0} /\ Chunk \in Nat \ {0}
  /\ Codes \subseteq Readable /\ MaxFrames \in Nat /\ MaxReplies \in Nat

VARIABLES
  ws,      \* readyState of the proxy's socket on each side
  torn,    \* whether its connection is destroyed
  inbox,   \* what its peer sent and the bridge has not received
  chunk,   \* how much of that was read from the connection already
  outbox,  \* what was sent to its peer and is not written yet
  flow,    \* unsent and paused of forward(), by the side frames come from
  code,    \* _closeCode, once it is known
  tally    \* history: frames sent by its peer, received from it and written to it, and
           \* the code of a close frame of the bridge that was written to it

sockets    == <<ws, torn, code>>
traffic    == <<inbox, chunk, outbox, flow>>
bridgeVars == <<sockets, traffic, tally>>

NewFlow == [unsent |-> 0, paused |-> FALSE]

BridgeInit ==
  /\ ws = [s \in Sides |-> "none"]
  /\ torn = [s \in Sides |-> FALSE]
  /\ inbox = [s \in Sides |-> <<>>] /\ chunk = [s \in Sides |-> 0]
  /\ outbox = [s \in Sides |-> <<>>]
  /\ flow = [s \in Sides |-> NewFlow]
  /\ code = [s \in Sides |-> Unknown]
  /\ tally = [s \in Sides |-> [sent |-> 0, received |-> 0, written |-> 0, told |-> Unknown]]

Frame(n, size)      == [kind |-> "frame", n |-> n, size |-> size]
CloseFrame(c, why)  == [kind |-> "close", code |-> c, why |-> why]
Malformed           == [kind |-> "malformed"]

Live(s) == ws[s] \in {"open", "closing"} /\ ~torn[s]

-----------------------------------------------------------------------------
(* The ws library *)

\* Mutant: the code of a connection that was lost is passed on too.
CanSendCloseCode_Any(c) == TRUE

\* canSendCloseCode
CanSendCloseCode(c) ==
  c \in (1000..1014 \ {1004, NoCode, Lost}) \cup 3000..4999

\* WebSocket.close of the sides in S: a socket that is no longer open is left alone.
Closes(S, c, why) ==
  LET open == {s \in S : ws[s] = "open"}
  IN /\ ws' = [s \in Sides |-> IF s \in open THEN "closing" ELSE ws[s]]
     /\ outbox' = [s \in Sides |-> IF s \in open THEN Append(outbox[s], CloseFrame(c, why))
                                   ELSE outbox[s]]

\* The peer of s, which sends nothing behind its close frame.
MaySend(s) ==
  /\ Live(s)
  /\ inbox[s] # <<>> => Last(inbox[s]).kind = "frame"
  /\ code[s] = Unknown

PeerSends(s) ==
  /\ MaySend(s)
  /\ \/ /\ tally[s].sent < MaxFrames /\ tally[Other(s)].sent <= MaxReplies
        /\ \E size \in Sizes :
             inbox' = [inbox EXCEPT ![s] = Append(@, Frame(tally[s].sent + 1, size))]
        /\ tally' = [tally EXCEPT ![s].sent = @ + 1]
     \/ /\ \E last \in {CloseFrame(c, "peer") : c \in Codes \cup {NoCode}} \cup {Malformed} :
             inbox' = [inbox EXCEPT ![s] = Append(@, last)]
        /\ UNCHANGED tally
  /\ UNCHANGED <<sockets, chunk, outbox, flow>>

\* The connection is read unless it is paused.
Read(s) ==
  /\ Live(s) /\ ~flow[s].paused
  /\ chunk[s] = 0 /\ inbox[s] # <<>>
  /\ \E n \in 1..Chunk : n <= Len(inbox[s]) /\ chunk' = [chunk EXCEPT ![s] = n]
  /\ UNCHANGED <<sockets, inbox, outbox, flow, tally>>

\* The closing handshake ends, or the timer that close() started.
CloseTimer(s) ==
  /\ ws[s] = "closing" /\ ~torn[s]
  /\ torn' = [torn EXCEPT ![s] = TRUE]
  /\ UNCHANGED <<ws, code, traffic, tally>>

\* The connection fails.
Breaks(s) ==
  /\ Live(s)
  /\ torn' = [torn EXCEPT ![s] = TRUE]
  /\ ws' = [ws EXCEPT ![s] = "closing"]
  /\ UNCHANGED <<code, traffic, tally>>

-----------------------------------------------------------------------------
(* forward *)

\* Mutant: nothing is paused.
Paused_Never(unsent) == FALSE

\* What both handlers make of the count.
Paused(unsent) == unsent >= HighWater

\* Mutant: the callback does not count a frame that failed.
Sent_Written(s, size) ==
  LET left == flow[s].unsent - size
  IN flow' = [flow EXCEPT ![s] = IF torn[Other(s)] THEN @ ELSE [unsent |-> left, paused |-> Paused(left)]]

\* The callback of a frame that came from s.
Sent(s, size) ==
  LET left == flow[s].unsent - size
  IN flow' = [flow EXCEPT ![s] = [unsent |-> left, paused |-> Paused(left)]]

\* Mutant: the frame is not sent while its source is paused.
Forward_UnlessPaused(s, frame) ==
  LET unsent == flow[s].unsent + frame.size
  IN IF ws[Other(s)] # "open" \/ flow[s].paused THEN UNCHANGED <<outbox, flow>>
     ELSE /\ outbox' = [outbox EXCEPT ![Other(s)] = Append(@, frame)]
          /\ flow' = [flow EXCEPT ![s] = [unsent |-> unsent, paused |-> Paused(unsent)]]

\* The message handler.  A socket that is no longer open drops the frame and calls back
\* before anything else runs: the count is back where it was.
Forward(s, frame) ==
  LET unsent == flow[s].unsent + frame.size
  IN IF ws[Other(s)] # "open" THEN UNCHANGED <<outbox, flow>>
     ELSE /\ outbox' = [outbox EXCEPT ![Other(s)] = Append(@, frame)]
          /\ flow' = [flow EXCEPT ![s] = [unsent |-> unsent, paused |-> Paused(unsent)]]

ReceiveFrame(s) ==
  /\ Live(s) /\ chunk[s] > 0 /\ Head(inbox[s]).kind = "frame"
  /\ Forward(s, Head(inbox[s]))
  /\ inbox' = [inbox EXCEPT ![s] = Tail(@)]
  /\ chunk' = [chunk EXCEPT ![s] = @ - 1]
  /\ tally' = [tally EXCEPT ![s].received = @ + 1]
  /\ UNCHANGED sockets

\* The close frame of the peer is echoed; the close event comes later.
ReceiveClose(s) ==
  /\ Live(s) /\ chunk[s] > 0 /\ Head(inbox[s]).kind = "close"
  /\ code' = [code EXCEPT ![s] = Head(inbox[s]).code]
  /\ Closes({s}, Head(inbox[s]).code, "own")
  /\ inbox' = [inbox EXCEPT ![s] = <<>>] /\ chunk' = [chunk EXCEPT ![s] = 0]
  /\ UNCHANGED <<torn, flow, tally>>

\* A frame that cannot be read: an error, on which upgradeToBridge's handler destroys the
\* client's connection when it is the server's.
ReceiveMalformed(s) ==
  /\ Live(s) /\ chunk[s] > 0 /\ Head(inbox[s]).kind = "malformed"
  /\ IF s = "server" /\ ws["client"] \in {"open", "closing"}
     THEN /\ torn' = [torn EXCEPT !["client"] = TRUE]
          /\ ws' = [client |-> "closing", server |-> "closing"]
          /\ outbox' = IF ws[s] = "open"
                       THEN [outbox EXCEPT ![s] = Append(@, CloseFrame(Protocol, "own"))]
                       ELSE outbox
     ELSE Closes({s}, Protocol, "own") /\ UNCHANGED torn
  /\ code' = [code EXCEPT ![s] = Lost]
  /\ inbox' = [inbox EXCEPT ![s] = <<>>] /\ chunk' = [chunk EXCEPT ![s] = 0]
  /\ UNCHANGED <<flow, tally>>

\* What is first in the outbox of s is written.
Write(s) ==
  /\ Live(s) /\ outbox[s] # <<>>
  /\ LET item == Head(outbox[s])
     IN IF item.kind = "frame"
        THEN /\ Sent(Other(s), item.size)
             /\ tally' = [tally EXCEPT ![s].written = @ + 1]
        ELSE /\ tally' = [tally EXCEPT ![s].told = IF item.why = "bridge" THEN item.code ELSE @]
             /\ UNCHANGED flow
  /\ outbox' = [outbox EXCEPT ![s] = Tail(@)]
  /\ UNCHANGED <<sockets, inbox, chunk>>

\* What a destroyed connection has not written fails, one callback after the other.
WriteFails(s) ==
  /\ torn[s] /\ outbox[s] # <<>>
  /\ LET item == Head(outbox[s])
     IN IF item.kind = "frame" THEN Sent(Other(s), item.size) ELSE UNCHANGED flow
  /\ outbox' = [outbox EXCEPT ![s] = Tail(@)]
  /\ UNCHANGED <<sockets, inbox, chunk, tally>>

\* Mutants: the other side is left open, or its close frame overtakes what is unsent.
OnClose_Nothing(s) == ws' = [ws EXCEPT ![s] = "closed"] /\ UNCHANGED <<torn, outbox>>
OnClose_Overtakes(s) ==
  LET t == Other(s)
  IN /\ ws' = [ws EXCEPT ![s] = "closed", ![t] = IF @ = "open" THEN "closing" ELSE @]
     /\ outbox' = IF ws[t] = "open"
                  THEN [outbox EXCEPT ![t] = <<CloseFrame(code[s], "bridge")>> \o @] ELSE outbox
     /\ UNCHANGED torn

\* The close event: the other side is closed with the code, when that may be sent.
OnClose(s) ==
  LET t == Other(s)
      c == IF CanSendCloseCode(code[s]) THEN code[s] ELSE NoCode
  IN /\ ws' = [ws EXCEPT ![s] = "closed", ![t] = IF @ = "open" THEN "closing" ELSE @]
     /\ outbox' = IF ws[t] = "open"
                  THEN [outbox EXCEPT ![t] = Append(@, CloseFrame(c, "bridge"))] ELSE outbox
     /\ UNCHANGED torn

Gone(s) ==
  /\ ws[s] = "closing" /\ torn[s]
  /\ OnClose(s)
  /\ inbox' = [inbox EXCEPT ![s] = <<>>] /\ chunk' = [chunk EXCEPT ![s] = 0]
  /\ UNCHANGED <<code, flow, tally>>

Receives(s) == ReceiveFrame(s) \/ ReceiveClose(s) \/ ReceiveMalformed(s)
Settles(s)  == Read(s) \/ Receives(s) \/ CloseTimer(s) \/ WriteFails(s)
=============================================================================
