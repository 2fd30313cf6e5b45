----------------------------- MODULE ProxyConnection -----------------------------
(***************************************************************************)
(* One connection to a listener of the proxy, from upgrade request to its  *)
(* end: upgradeToBridge (upgrade.ts), which upgrades the client once the   *)
(* server has accepted, the bridge of the two sockets (Bridge), and the    *)
(* close() of the listener (service.ts), which may come at any moment.     *)
(* Requests that are not for /ws go through httpxy and are left out.       *)
(***************************************************************************)
EXTENDS Bridge

VARIABLES
  tcp,      \* the client's connection, until its upgrade
  phase,    \* where the listener's close() stands
  pending   \* the sockets close() waits for

vars == <<bridgeVars, tcp, phase, pending>>

Init == BridgeInit /\ tcp = "idle" /\ phase = "run" /\ pending = {}

Waiting == {"upgrading", "refusing"}   \* the client is not upgraded yet

\* The sockets that trackWebSocket holds.
Tracked == {s \in Sides : ws[s] \in {"connecting", "open", "closing"}}

\* terminate() of the sockets in S.
Terminates(S) ==
  /\ ws' = [s \in Sides |-> IF s \in S THEN "closing" ELSE ws[s]]
  /\ torn' = [s \in Sides |-> torn[s] \/ s \in S]

-----------------------------------------------------------------------------
(* upgradeToBridge *)

\* A request arrives on a connection that the listener accepted.
Request ==
  /\ tcp = "idle"
  /\ tcp' = "upgrading"
  /\ ws' = [ws EXCEPT !["server"] = "connecting"]
  /\ UNCHANGED <<torn, code, traffic, tally, phase, pending>>

\* Mutant: the server's socket outlives a client that left.
ClientLeaves_Alone ==
  /\ tcp \in {"idle"} \cup Waiting
  /\ tcp' = "gone"
  /\ UNCHANGED <<bridgeVars, phase, pending>>

\* The client's connection fails, closes or is half-closed: endServer.
ClientLeaves ==
  /\ tcp \in {"idle"} \cup Waiting
  /\ tcp' = "gone"
  /\ Terminates(Tracked \cap {"server"})
  /\ UNCHANGED <<code, traffic, tally, phase, pending>>

\* The server accepts.  handleUpgrade refuses a handshake it finds invalid; the end of the
\* client's connection then ends the server's.
Accepted ==
  /\ tcp = "upgrading" /\ ws["server"] = "connecting"
  /\ \/ /\ tcp' = "bridged" /\ ws' = [s \in Sides |-> "open"]
        /\ UNCHANGED torn
     \/ /\ tcp' = "gone" /\ Terminates({"server"})
  /\ UNCHANGED <<code, traffic, tally, phase, pending>>

\* The server answers with another response, which the client is given.
Refused ==
  /\ tcp = "upgrading" /\ ws["server"] = "connecting"
  /\ tcp' = "refusing"
  /\ UNCHANGED <<bridgeVars, phase, pending>>

\* The answer is there in full, or fails, or the server cannot be reached.
UpgradeFails ==
  /\ tcp \in Waiting /\ ws["server"] = "connecting"
  /\ tcp' = "gone"
  /\ Terminates({"server"})
  /\ UNCHANGED <<code, traffic, tally, phase, pending>>

\* The close event of a socket: the bridge's handler once there is one, before that the
\* client's connection is destroyed; close() counts it.
SocketGone(s) ==
  /\ IF tcp = "bridged" \/ ws["client"] # "none" THEN Gone(s)
     ELSE /\ ws[s] = "closing" /\ torn[s]
          /\ ws' = [ws EXCEPT ![s] = "closed"]
          /\ UNCHANGED <<torn, code, traffic, tally>>
  /\ tcp' = IF s = "client" \/ tcp \in Waiting THEN "gone" ELSE tcp
  /\ pending' = pending \ {s}
  /\ UNCHANGED phase

-----------------------------------------------------------------------------
(* close() of the listener *)

\* No new connections; each socket is closed, or ended when it is not open.
Stop ==
  /\ phase = "run"
  /\ phase' = "grace"
  /\ pending' = Tracked
  /\ LET open == {s \in Sides : ws[s] = "open"}
     IN /\ ws' = [s \in Sides |-> IF s \in Tracked THEN "closing" ELSE ws[s]]
        /\ torn' = [s \in Sides |-> torn[s] \/ s \in Tracked \ open]
        /\ outbox' = [s \in Sides |-> IF s \in open THEN Append(outbox[s], CloseFrame(GoingAway, "own"))
                                      ELSE outbox[s]]
  /\ UNCHANGED <<code, inbox, chunk, flow, tally, tcp>>

\* Mutant: the sweep ends the sockets it waited for.
Ended_Pending == pending

\* What is ended when the grace is over: also what was upgraded since.
Ended == Tracked

\* Mutant: what is not a WebSocket is left to end by itself.
Sweep_WebSockets ==
  /\ phase = "grace"
  /\ phase' = "swept"
  /\ Terminates(Ended)
  /\ UNCHANGED <<code, traffic, tally, tcp, pending>>

\* Every socket has closed, or the grace is over.
Sweep ==
  /\ phase = "grace"
  /\ phase' = "swept"
  /\ Terminates(Ended \cup IF tcp = "bridged" THEN {"client"} ELSE {})
  /\ tcp' = IF tcp = "bridged" THEN tcp ELSE "gone"
  /\ UNCHANGED <<code, traffic, tally, pending>>

\* The server has no connection left.
Stopped ==
  /\ phase = "swept" /\ tcp = "gone"
  /\ phase' = "done"
  /\ UNCHANGED <<bridgeVars, tcp, pending>>

-----------------------------------------------------------------------------
\* A step of the bridge alone.
Bridged == UNCHANGED <<tcp, phase, pending>>

Peers == \/ Request \/ ClientLeaves \/ Accepted \/ Refused \/ UpgradeFails \/ Stop
         \/ Bridged /\ \E s \in Sides : PeerSends(s) \/ Breaks(s) \/ Write(s)
Work  == \/ Sweep \/ Stopped
         \/ \E s \in Sides : SocketGone(s) \/ (Settles(s) /\ Bridged)
Next  == Peers \/ Work

Spec     == Init /\ [][Next]_vars
\* The event loop and its timers; not that a peer takes what is written to it.
FairSpec == Spec /\ WF_vars(Work)

-----------------------------------------------------------------------------
(* Properties *)

Writable == [kind : {"frame"}, n : Nat, size : Sizes]
            \cup [kind : {"close"}, code : Nat, why : {"peer", "own", "bridge"}]
Items    == Writable \cup [kind : {"malformed"}]
Tallies  == [sent : Nat, received : Nat, written : Nat, told : Nat]

\* Every variable keeps to its type.
TypeOK ==
  /\ ws \in [Sides -> {"none", "connecting", "open", "closing", "closed"}]
  /\ torn \in [Sides -> BOOLEAN]
  /\ inbox \in [Sides -> Seq(Items)] /\ outbox \in [Sides -> Seq(Writable)]
  /\ chunk \in [Sides -> Nat] /\ \A s \in Sides : chunk[s] <= Len(inbox[s])
  /\ flow \in [Sides -> [unsent : Int, paused : BOOLEAN]]
  /\ code \in [Sides -> Nat] /\ tally \in [Sides -> Tallies]
  /\ tcp \in {"idle", "bridged", "gone"} \cup Waiting
  /\ phase \in {"run", "grace", "swept", "done"}
  /\ pending \subseteq Sides

FramesOf(q) == {i \in DOMAIN q : q[i].kind = "frame"}

\* The bytes of the frames in q.
Bytes(q) == UNION {{i} \X (1..q[i].size) : i \in FramesOf(q)}
Total(q) == Cardinality(Bytes(q))

\* What pauses a side is in the hands of the other one's callbacks, so that a peer that
\* is slow, fails or leaves never leaves it paused (bridge.ts:33-45).
PausedIsOwed ==
  \A s \in Sides : /\ flow[s].unsent = Total(outbox[Other(s)])
                   /\ flow[s].paused <=> flow[s].unsent >= HighWater

\* A slow peer slows its sender: what waits for it stays below the mark and one read
\* more (bridge.ts:7-8).
BufferBounded ==
  \A s \in Sides, most \in Sizes :
    (\A size \in Sizes : size <= most) => flow[s].unsent < HighWater + Chunk * most

\* While both sides are open nothing is lost, repeated or reordered between the peers: the
\* frames not yet written are numbered on from those that were, up to the last one sent.
InOrder ==
  \A s \in Sides :
    LET t == Other(s)
    IN ws[s] = "open" /\ ws[t] = "open" =>
         /\ \A i \in DOMAIN outbox[t] :
              outbox[t][i].kind = "frame" /\ outbox[t][i].n = tally[t].written + i
         /\ \A i \in DOMAIN inbox[s] :
              IF inbox[s][i].kind = "frame"
              THEN inbox[s][i].n = tally[t].written + Len(outbox[t]) + i
              ELSE i = Len(inbox[s])
         /\ tally[s].sent = tally[t].written + Len(outbox[t]) + Cardinality(FramesOf(inbox[s]))

\* A side that the bridge closes was given every frame received from the other, every
\* frame its peer sent if that closed by itself, and then the code it closed with
\* (bridge.ts:49-52).
CloseIsLast ==
  \A s \in Sides :
    LET t == Other(s)
    IN tally[t].told # Unknown =>
         /\ tally[t].written = tally[s].received
         /\ tally[t].told = IF code[s] \in Codes THEN code[s] ELSE NoCode
         /\ code[s] \notin {Unknown, Lost} => tally[s].received = tally[s].sent

\* When close() has resolved no connection is left, also none that was upgraded after
\* it began (service.ts:116-139).
NothingLeft ==
  phase = "done" => tcp = "gone" /\ \A s \in Sides : ws[s] \in {"none", "closed"} \/ torn[s]

\* No side is left behind: the server's when the client is gone, nor either of a bridge
\* when the other has closed, even if its peer takes nothing any more
\* (upgrade.ts:70-78, bridge.ts:49-52).
EndsTogether ==
  /\ tcp = "gone" ~> ws["server"] \in {"none", "closed"}
  /\ ws["server"] = "closed" ~> ws["client"] \in {"none", "closed"}

\* close() resolves, whatever the peers do (service.ts:14-15).
StopEnds == phase = "grace" ~> phase = "done"

\* What a peer is given is what the other sent, then how it closed, and nothing holds the
\* rest back for good.
PassedOn == InOrder /\ CloseIsLast /\ PausedIsOwed

\* Both sides end, and so does close().
AllEnds == EndsTogether /\ StopEnds
=============================================================================
