----------------------------- MODULE PreviewViewer -----------------------------
(***************************************************************************)
(* ViewerSession and connectPreviewViewer (transport/previewViewer.ts):    *)
(* one viewer of a tab in the server's browser.  The server keeps one      *)
(* frame on the wire until it is acknowledged, and replaces what it has    *)
(* not sent by newer frames; the acknowledgement goes out when a reader    *)
(* asks for more.  Several iterators may read, several calls of next may   *)
(* wait, and the socket may end or be closed at any point.                 *)
(*                                                                         *)
(* What a frame shows, what a message says and the inputs of `send` are    *)
(* left out; text that cannot be decoded is a message like another.        *)
(***************************************************************************)
EXTENDS Naturals, Sequences, FiniteSets

CONSTANTS
  Readers,                 \* calls of next that run side by side
  MaxFrames, MaxMessages   \* bounds: what the server sends

ASSUME ViewerAssumption == MaxFrames \in Nat /\ MaxMessages \in Nat

VARIABLES
  sock,        \* the socket's readyState; "unmade" before, "cut" once terminated
  opening,     \* the promise of connectPreviewViewer
  items,       \* #items
  frameToAck,  \* #frameToAck
  readers,     \* each call of next; a woken one has not run yet
  remote       \* the server: its frame unacknowledged, what is on the wire, acks on the way, counts

viewer == <<sock, opening, items, frameToAck, readers, remote>>

\* #ended
SocketEnded == sock = "closed"

ViewerInitAt(s) ==
  /\ sock = s
  /\ opening = "pending"
  /\ items = <<>>
  /\ frameToAck = FALSE
  /\ readers = [r \in Readers |-> "idle"]
  /\ remote = [unacked |-> FALSE, wire |-> <<>>, acks |-> 0, frames |-> 0, messages |-> 0]

ViewerInit == ViewerInitAt("unmade")

-----------------------------------------------------------------------------
(* connectPreviewViewer *)

Connect ==
  /\ sock = "unmade"
  /\ \/ sock' = "connecting" /\ UNCHANGED opening
     \/ sock' = "closed" /\ opening' = "failed"   \* the signal is aborted already
  /\ UNCHANGED <<items, frameToAck, readers, remote>>

\* Mutant: an abort leaves the socket to open.
AbortOpening_Leaves ==
  /\ sock = "connecting" /\ opening = "pending"
  /\ opening' = "failed"
  /\ UNCHANGED <<sock, items, frameToAck, readers, remote>>

\* onAbort
AbortOpening ==
  /\ sock = "connecting"
  /\ opening' = "failed" /\ sock' = "cut"
  /\ UNCHANGED <<items, frameToAck, readers, remote>>

Opens ==
  /\ sock = "connecting"
  /\ sock' = "open" /\ opening' = IF opening = "pending" THEN "viewer" ELSE opening
  /\ UNCHANGED <<items, frameToAck, readers, remote>>

-----------------------------------------------------------------------------
(* The session *)

\* Mutant: only the call that has waited longest, here any one, is woken.
WakeAll_One ==
  LET waiting == {r \in Readers : readers[r] = "waiting"}
  IN \/ waiting = {} /\ UNCHANGED readers
     \/ \E r \in waiting : readers' = [readers EXCEPT ![r] = "woken"]

\* #wakeAll
WakeAll == readers' = [r \in Readers |-> IF readers[r] = "waiting" THEN "woken" ELSE readers[r]]

\* receive, #push; a socket that is closing may still hand over what was on its way.
Receive ==
  /\ sock \in {"open", "closing"} /\ remote.wire # <<>>
  /\ items' = Append(items, Head(remote.wire))
  /\ remote' = [remote EXCEPT !.wire = Tail(@)]
  /\ WakeAll
  /\ UNCHANGED <<sock, opening, frameToAck>>

\* end
End ==
  /\ sock \in {"connecting", "open", "closing", "cut"}
  /\ sock' = "closed"
  /\ opening' = IF opening = "pending" THEN "failed" ELSE opening
  /\ remote' = [remote EXCEPT !.wire = <<>>, !.acks = 0]
  /\ WakeAll
  /\ UNCHANGED <<items, frameToAck>>

\* close, also by a `break` out of the iteration.
Close ==
  /\ opening = "viewer" /\ sock = "open"
  /\ sock' = "closing"
  /\ UNCHANGED <<opening, items, frameToAck, readers, remote>>

TakesFrame == items # <<>> /\ Head(items) = "frame"

\* Mutant: only a new call acknowledges, one that waited does not.
Acknowledges_NewCall(r) == frameToAck /\ readers[r] = "idle"

\* #acknowledgeFrame; only an open socket is told.
Acknowledges(r) == frameToAck

\* Mutant: the frame stays marked once it is acknowledged.
StillToAck_Kept(r) == frameToAck \/ TakesFrame

StillToAck(r) == TakesFrame \/ (frameToAck /\ ~Acknowledges(r))

\* One round of #next's loop: acknowledge, then take an item, end or wait.
Round(r) ==
  /\ remote' = [remote EXCEPT !.acks = IF Acknowledges(r) /\ sock = "open" THEN @ + 1 ELSE @]
  /\ items' = IF items = <<>> THEN items ELSE Tail(items)
  /\ frameToAck' = StillToAck(r)
  /\ readers' = [readers EXCEPT ![r] = CASE items # <<>> -> "idle"
                                         [] items = <<>> /\ SocketEnded -> "done"
                                         [] OTHER -> "waiting"]

\* next is called
Ask(r) ==
  /\ opening = "viewer" /\ readers[r] = "idle" /\ Round(r)
  /\ UNCHANGED <<sock, opening>>

\* A woken call goes on.
Resume(r) ==
  /\ readers[r] = "woken" /\ Round(r)
  /\ UNCHANGED <<sock, opening>>

-----------------------------------------------------------------------------
(* The server *)

ServerSends ==
  /\ sock \in {"open", "closing"}
  /\ \/ /\ ~remote.unacked /\ remote.frames < MaxFrames
        /\ remote' = [remote EXCEPT !.unacked = TRUE, !.frames = @ + 1, !.wire = Append(@, "frame")]
     \/ /\ remote.messages < MaxMessages
        /\ remote' = [remote EXCEPT !.messages = @ + 1, !.wire = Append(@, "message")]
  /\ UNCHANGED <<sock, opening, items, frameToAck, readers>>

ServerAcked ==
  /\ remote.acks > 0
  /\ remote' = [remote EXCEPT !.acks = @ - 1, !.unacked = FALSE]
  /\ UNCHANGED <<sock, opening, items, frameToAck, readers>>

ViewerNext ==
  \/ Connect \/ AbortOpening \/ Opens \/ Receive \/ End \/ Close
  \/ ServerSends \/ ServerAcked
  \/ \E r \in Readers : Ask(r) \/ Resume(r)

ViewerSpec == ViewerInit /\ [][ViewerNext]_viewer

\* The event loop runs what was woken and delivers what arrives, and a socket that was
\* cut or closed reports it (ws gives up on the peer after 30 s); nobody must read.
ViewerFairness ==
  /\ WF_viewer(Receive) /\ WF_viewer(ServerAcked)
  /\ WF_viewer(sock \in {"closing", "cut"} /\ End)
  /\ \A r \in Readers : WF_viewer(Resume(r))

-----------------------------------------------------------------------------
(* Properties *)

ViewerTypeOK ==
  /\ sock \in {"unmade", "connecting", "open", "closing", "cut", "closed"}
  /\ opening \in {"pending", "viewer", "failed"}
  /\ items \in Seq({"frame", "message"}) /\ frameToAck \in BOOLEAN
  /\ readers \in [Readers -> {"idle", "waiting", "woken", "done"}]
  /\ remote \in [unacked : BOOLEAN, wire : Seq({"frame", "message"}), acks : 0..1,
                 frames : 0..MaxFrames, messages : 0..MaxMessages]

FramesIn(s) == Cardinality({i \in DOMAIN s : s[i] = "frame"})

\* The frame the server waits for is in one place: on the wire, buffered, with a reader
\* that has not asked for more, or acknowledged (previewViewer.ts:6-9).  So a slow reader
\* has at most one old frame before it, and each is acknowledged once.  A socket is open
\* only for a caller who has the viewer.
OneFrame ==
  LET held == FramesIn(remote.wire) + FramesIn(items) + (IF frameToAck THEN 1 ELSE 0) + remote.acks
      owed == IF remote.unacked THEN 1 ELSE 0
  IN /\ ViewerTypeOK
     /\ held <= 1 /\ (sock \in {"open", "closing"} => held <= owed)
     /\ sock = "open" => held = owed /\ opening = "viewer"

\* The server is not kept waiting while somebody waits for a frame, also when the reader
\* that took the last one never comes back (previewViewer.ts:124), and the end of the
\* socket reaches every reader.
ViewerServes ==
  /\ []<>~(remote.unacked /\ sock = "open" /\ \E r \in Readers : readers[r] = "waiting")
  /\ \A r \in Readers : SocketEnded ~> readers[r] \notin {"waiting", "woken"}
  /\ sock = "cut" ~> SocketEnded
=============================================================================
