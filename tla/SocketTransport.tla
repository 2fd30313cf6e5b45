---------------------------- MODULE SocketTransport ----------------------------
(***************************************************************************)
(* The one logical WebSocket connection of a T3Client                      *)
(* (transport/socket.ts), with its keepalive (transport/keepalive.ts), the *)
(* classification of close events (transport/socketClose.ts), the opener   *)
(* that normalises socket events (internal/websocket.ts) and the           *)
(* composition root that reconnects when the credential changes            *)
(* (client.ts).                                                            *)
(*                                                                         *)
(* One action is one turn of the event loop: a public call, a timer, a     *)
(* socket event, or the continuation of an await inside #attempt.          *)
(*                                                                         *)
(* An upgrade is named by the generation that #attempt drew for it, from   *)
(* the await on url() until its socket has reported its close; None (0) is *)
(* `undefined`.  The #closing flag is only ever set by a turn that also    *)
(* sets the state to "closed", and is never cleared: Closing reads it off  *)
(* the state.                                                              *)
(***************************************************************************)
EXTENDS Integers, FiniteSets

CONSTANTS
  Callers,          \* calls of connect(), each with its own AbortSignal
  MissedPongLimit,  \* missedPongLimit of the keepalive
  HasOpenTimeout,   \* whether openTimeoutMs is set
  MaxFaults,        \* bound: failures the network and the server cause
  MaxCredential     \* bound: credentials the client is ever given

ASSUME ConstantsAssumption ==
  /\ MissedPongLimit \in Nat
  /\ HasOpenTimeout \in BOOLEAN
  /\ MaxFaults \in Nat
  /\ MaxCredential \in Nat \ {0}

VARIABLES
  state,           \* #state
  generation,      \* #generation
  socket,          \* #socket, by generation
  reconnectTimer,  \* #reconnectTimer, "unset" or "pending"
  openTimer,       \* #openTimer, by the generation its callback closes over
  missedPongs,     \* the keepalive's count, Off when its interval is stopped
  openWaiters,     \* #openWaiters
  caller,          \* what became of the promise each connect() returned
  attempts,        \* the suspended #attempt calls
  handshaking,     \* sockets whose upgrade is not answered yet
  established,     \* sockets whose upgrade succeeded
  terminated,      \* sockets the client closed or terminated
  silent,          \* sockets whose peer is gone without a close (half open)
  credential,      \* version of the credential the client holds
  socketCred,      \* the version #socket was upgraded with
  faults           \* failures so far

client  == <<state, generation, socket, reconnectTimer, openTimer, missedPongs>>
waiting == <<openWaiters, caller>>
net     == <<handshaking, established, terminated, silent>>
vars    == <<client, waiting, attempts, net, credential, socketCred, faults>>

None == 0
Off  == -1

SocketState   == {"idle", "connecting", "open", "closed"}
CallerOutcome == {"none", "waiting", "resolved", "rejected", "aborted"}
Phase         == {"loading", "resolving", "importing"}
Attempts      == [gen : Nat, phase : Phase, cred : Nat]

TimerPending   == reconnectTimer = "pending"
Closing        == state = "closed"
IsCurrent(gen) == gen = generation
\* Mutant: a continuation only asks whether the transport was closed.
Stale_IgnoresGeneration(a) == Closing

Stale(a)       == ~IsCurrent(a.gen) \/ Closing
Sockets        == handshaking \cup established
LiveAttempts   == {a \in attempts : IsCurrent(a.gen)}
Charge         == faults < MaxFaults /\ faults' = faults + 1

Init ==
  /\ state = "idle" /\ generation = 0 /\ socket = None
  /\ reconnectTimer = "unset" /\ openTimer = None /\ missedPongs = Off
  /\ openWaiters = {} /\ caller = [c \in Callers |-> "none"]
  /\ attempts = {}
  /\ handshaking = {} /\ established = {} /\ terminated = {} /\ silent = {}
  /\ credential = 1 /\ socketCred = None /\ faults = 0

-----------------------------------------------------------------------------
(* Steps that several handlers share *)

\* Mutant: #attempt goes by the generation it finds.
Attempt_KeepsGeneration(gen) ==
  /\ attempts' = attempts \cup {[gen |-> generation, phase |-> "loading", cred |-> None]}
  /\ UNCHANGED generation

\* #attempt up to its first await, with the generation it draws.
Attempt(gen) ==
  /\ generation' = gen
  /\ attempts' = attempts \cup {[gen |-> gen, phase |-> "loading", cred |-> None]}

\* Mutant: the detached socket is never terminated.
DetachSocket_LeavesItOpen ==
  socket' = None /\ socketCred' = None /\ openTimer' = None /\ UNCHANGED net

\* #detachSocket and the terminate of what it returned, without the generation.
DetachSocket ==
  /\ socket' = None /\ socketCred' = None /\ openTimer' = None
  /\ terminated' = terminated \cup ({socket} \ {None})
  /\ UNCHANGED <<handshaking, established, silent>>

\* Mutant: the list of waiters is not emptied.
Settle_KeepsTheList(cs, outcome) ==
  /\ caller' = [c \in Callers |-> IF c \in cs THEN outcome ELSE caller[c]]
  /\ UNCHANGED openWaiters

Settle(cs, outcome) ==
  /\ openWaiters' = openWaiters \ cs
  /\ caller' = [c \in Callers |-> IF c \in cs THEN outcome ELSE caller[c]]

\* Both close() and #fail: no timer, socket or waiter outlives them.
Shut ==
  /\ state' = "closed" /\ generation' = generation + 1
  /\ reconnectTimer' = "unset" /\ missedPongs' = Off
  /\ DetachSocket
  /\ Settle(openWaiters, "rejected")

ScheduleReconnect == state' = "connecting" /\ reconnectTimer' = "pending"

\* Mutant: a dropped socket is replaced at once, without backoff.
DropSocket_WithoutBackoff ==
  /\ missedPongs' = Off /\ state' = "connecting"
  /\ DetachSocket
  /\ Attempt(generation + 2)
  /\ UNCHANGED <<waiting, reconnectTimer>>

DropSocket ==
  /\ missedPongs' = Off /\ generation' = generation + 1
  /\ DetachSocket
  /\ ScheduleReconnect
  /\ UNCHANGED <<waiting, attempts>>

-----------------------------------------------------------------------------
(* Public calls *)

ConnectWaits(c) ==
  /\ caller[c] = "none" /\ state \in {"idle", "connecting"}
  /\ openWaiters' = openWaiters \cup {c}
  /\ caller' = [caller EXCEPT ![c] = "waiting"]
  /\ state' = "connecting"
  /\ IF state = "idle" THEN Attempt(generation + 1)
                       ELSE UNCHANGED <<generation, attempts>>
  /\ UNCHANGED <<socket, reconnectTimer, openTimer, missedPongs, net, credential,
                 socketCred, faults>>

\* Mutant: connect() answers by #socket instead of by #state.
ConnectSettlesAtOnce_BySocket(c) ==
  /\ caller[c] = "none" /\ socket # None
  /\ caller' = [caller EXCEPT ![c] = "resolved"]
  /\ UNCHANGED <<client, openWaiters, attempts, net, credential, socketCred, faults>>

ConnectSettlesAtOnce(c) ==
  /\ caller[c] = "none"
  /\ \/ state = "open" /\ caller' = [caller EXCEPT ![c] = "resolved"]
     \/ state = "closed" /\ caller' = [caller EXCEPT ![c] = "rejected"]
     \/ state \notin {"open", "closed"} /\ caller' = [caller EXCEPT ![c] = "aborted"]
  /\ UNCHANGED <<client, openWaiters, attempts, net, credential, socketCred, faults>>

Abort(c) ==
  /\ caller[c] = "waiting"
  /\ openWaiters' = openWaiters \ {c}
  /\ caller' = [caller EXCEPT ![c] = "aborted"]
  /\ UNCHANGED <<client, attempts, net, credential, socketCred, faults>>

\* Mutants: reconnect() forgets one of its early returns, or adds one.
ReconnectIgnored_NotWhileWaiting == state \in {"idle", "closed"}
ReconnectIgnored_NotWhenClosed == state = "idle" \/ TimerPending
ReconnectIgnored_WhileConnecting == state # "open" \/ TimerPending

\* reconnect() ignores a call while nothing is connected, or while a timer is
\* about to resolve url() anyway.
ReconnectIgnored == state \in {"idle", "closed"} \/ TimerPending

Reconnect ==
  /\ ~ReconnectIgnored
  /\ missedPongs' = Off
  /\ DetachSocket
  /\ state' = "connecting"
  /\ Attempt(generation + 2)  \* #detachSocket drew one, #attempt the next
  /\ UNCHANGED <<waiting, reconnectTimer>>

\* The client saves another credential; its listener calls reconnect().
ChangeCredential ==
  /\ credential < MaxCredential
  /\ credential' = credential + 1
  /\ \/ Reconnect
     \/ ReconnectIgnored /\ UNCHANGED <<client, waiting, attempts, net, socketCred>>
  /\ UNCHANGED faults

Close ==
  /\ ~Closing
  /\ Shut
  /\ UNCHANGED <<attempts, credential, faults>>

-----------------------------------------------------------------------------
(* #attempt after its awaits *)

\* url() or headers() reads the credential store, then asks the server.
LoadCredential(a) ==
  /\ a.phase = "loading"
  /\ attempts' = (attempts \ {a})
       \cup {[a EXCEPT !.phase = "resolving", !.cred = credential]}
  /\ UNCHANGED <<client, waiting, net, credential, socketCred, faults>>

Abandon(a) ==
  /\ a.phase # "loading" /\ Stale(a)
  /\ attempts' = attempts \ {a}
  /\ UNCHANGED <<client, waiting, net, credential, socketCred, faults>>

ResolveFails(a) ==
  /\ a.phase = "resolving" /\ ~Stale(a)
  /\ Charge
  /\ attempts' = attempts \ {a}
  /\ \/ Shut  \* a T3AuthError
     \/ /\ ScheduleReconnect
        /\ UNCHANGED <<generation, socket, openTimer, missedPongs, waiting, net, socketCred>>
  /\ UNCHANGED credential

Resolved(a) ==
  /\ a.phase = "resolving" /\ ~Stale(a)
  /\ attempts' = (attempts \ {a}) \cup {[a EXCEPT !.phase = "importing"]}
  /\ UNCHANGED <<client, waiting, net, credential, socketCred, faults>>

OpenWebSocket(a) ==
  /\ a.phase = "importing" /\ ~Stale(a)
  /\ attempts' = attempts \ {a}
  /\ socket' = a.gen /\ socketCred' = a.cred
  /\ handshaking' = handshaking \cup {a.gen}
  /\ openTimer' = IF HasOpenTimeout THEN a.gen ELSE None
  /\ UNCHANGED <<state, generation, reconnectTimer, missedPongs, waiting, established,
                 terminated, silent, credential, faults>>

-----------------------------------------------------------------------------
(* Timers *)

ReconnectTimerFires ==
  /\ TimerPending
  /\ reconnectTimer' = "unset"
  /\ Attempt(generation + 1)
  /\ UNCHANGED <<state, socket, openTimer, missedPongs, waiting, net, credential,
                 socketCred, faults>>

\* Mutant: the open timeout is only logged.
OpenTimerFires_OnlyLogs ==
  /\ openTimer # None
  /\ openTimer' = None
  /\ UNCHANGED <<state, generation, socket, reconnectTimer, missedPongs, waiting, attempts,
                 net, credential, socketCred, faults>>

\* Firing on a peer that is only slow counts as a fault.
OpenTimerFires ==
  /\ openTimer # None /\ IsCurrent(openTimer)
  /\ IF openTimer \in silent THEN UNCHANGED faults ELSE Charge
  /\ DropSocket
  /\ UNCHANGED credential

\* Mutant: a Ping does not count as missed until it is answered.
Ping_DoesNotCount == missedPongs # Off /\ UNCHANGED vars

Ping ==
  /\ missedPongs \in 0 .. (MissedPongLimit - 1)
  /\ missedPongs' = missedPongs + 1
  /\ UNCHANGED <<state, generation, socket, reconnectTimer, openTimer, waiting, attempts,
                 net, credential, socketCred, faults>>

PingTimeout ==
  /\ missedPongs # Off /\ missedPongs >= MissedPongLimit
  /\ IF socket \in silent THEN UNCHANGED faults ELSE Charge
  /\ DropSocket
  /\ UNCHANGED credential

-----------------------------------------------------------------------------
(* Socket events; the ones of an abandoned socket change nothing *)

\* Mutant: the open timer keeps running on the opened socket.
OnOpen_KeepsTheTimer ==
  /\ state' = "open" /\ missedPongs' = 0
  /\ Settle(openWaiters, "resolved")
  /\ UNCHANGED <<generation, socket, reconnectTimer, openTimer>>

OnOpen ==
  /\ state' = "open" /\ openTimer' = None /\ missedPongs' = 0
  /\ Settle(openWaiters, "resolved")
  /\ UNCHANGED <<generation, socket, reconnectTimer>>

SocketOpens(s) ==
  /\ s \in handshaking \ (terminated \cup silent)
  /\ handshaking' = handshaking \ {s} /\ established' = established \cup {s}
  /\ IF IsCurrent(s) THEN OnOpen ELSE UNCHANGED <<client, waiting>>
  /\ UNCHANGED <<attempts, terminated, silent, credential, socketCred, faults>>

Pong(s) ==
  /\ s \in established \ silent /\ IsCurrent(s)
  /\ missedPongs' = 0
  /\ UNCHANGED <<state, generation, socket, reconnectTimer, openTimer, waiting, attempts,
                 net, credential, socketCred, faults>>

\* decodeServerFrame rejects a frame.
BadFrame(s) ==
  /\ s \in established \ silent
  /\ IF IsCurrent(s) THEN DropSocket ELSE UNCHANGED <<client, waiting, attempts, net, socketCred>>
  /\ Charge
  /\ UNCHANGED credential

\* What a close event carries; a 4xx upgrade or code 1008 is a refusal.
CloseInfo == [upgrade4xx : BOOLEAN, policyViolation : BOOLEAN]
Fatal(info) == info.upgrade4xx \/ info.policyViolation

OnClose(info) ==
  \/ Fatal(info) /\ state' = "closed" /\ generation' = generation + 1
     /\ reconnectTimer' = "unset" /\ missedPongs' = Off
     /\ socket' = None /\ socketCred' = None /\ openTimer' = None
     /\ Settle(openWaiters, "rejected")
  \/ ~Fatal(info) /\ socket' = None /\ socketCred' = None
     /\ openTimer' = None /\ missedPongs' = Off
     /\ ScheduleReconnect
     /\ UNCHANGED <<generation, waiting>>

SocketCloses(s, info) ==
  /\ s \in Sockets \ silent \/ s \in terminated
  /\ IF s \in terminated THEN UNCHANGED faults ELSE Charge
  /\ handshaking' = handshaking \ {s} /\ established' = established \ {s}
  /\ terminated' = terminated \ {s} /\ silent' = silent \ {s}
  /\ IF IsCurrent(s) THEN OnClose(info) ELSE UNCHANGED <<client, waiting, socketCred>>
  /\ UNCHANGED <<attempts, credential>>

\* The peer vanishes: no answer and no close will ever come from it.
PeerGoesSilent(s) ==
  /\ s \in Sockets \ (silent \cup terminated)
  /\ Charge
  /\ silent' = silent \cup {s}
  /\ UNCHANGED <<client, waiting, attempts, handshaking, established, terminated,
                 credential, socketCred>>

-----------------------------------------------------------------------------
Call == \/ \E c \in Callers : ConnectWaits(c) \/ ConnectSettlesAtOnce(c) \/ Abort(c)
        \/ ChangeCredential
        \/ Close

Continue == \E a \in attempts : \/ LoadCredential(a) \/ Abandon(a) \/ ResolveFails(a)
                                \/ Resolved(a) \/ OpenWebSocket(a)

Timer == ReconnectTimerFires \/ OpenTimerFires \/ Ping \/ PingTimeout

Event == \E s \in Sockets : \/ SocketOpens(s) \/ Pong(s) \/ BadFrame(s)
                            \/ PeerGoesSilent(s)
                            \/ \E info \in CloseInfo : SocketCloses(s, info)

Next == Call \/ Continue \/ Timer \/ Event

Spec == Init /\ [][Next]_vars

\* The event loop runs every pending timer and continuation, and a peer that is
\* there answers.  Faults are finite in number, so they need no fairness, and
\* nothing obliges a user to call or to abort.
Fairness ==
  /\ WF_vars(\E a \in attempts : LoadCredential(a) \/ Resolved(a) \/ OpenWebSocket(a))
  /\ WF_vars(ReconnectTimerFires)
  /\ WF_vars(OpenTimerFires)
  /\ WF_vars(Ping \/ PingTimeout)
  /\ WF_vars(\E s \in Sockets : SocketOpens(s))
  /\ WF_vars(\E s \in Sockets : Pong(s))

FairSpec == Spec /\ Fairness

-----------------------------------------------------------------------------
(* Properties *)

Logical == INSTANCE LogicalConnection

\* The transport implements the logical connection it promises its callers
\* (socket.ts:5-10): it is only ever given up by close() or a refusal, and a
\* waiter is resolved by the link coming up and rejected by its end, never else.
LogicalSpec == Logical!Spec

\* The values each variable ranges over.
TypeOK ==
  /\ state \in SocketState /\ generation \in Nat /\ socket \in Nat
  /\ reconnectTimer \in {"unset", "pending"} /\ openTimer \in Nat
  /\ missedPongs \in {Off} \cup Nat
  /\ openWaiters \in SUBSET Callers /\ caller \in [Callers -> CallerOutcome]
  /\ attempts \in SUBSET Attempts
  /\ handshaking \in SUBSET Nat /\ established \in SUBSET Nat
  /\ terminated \in SUBSET Nat /\ silent \in SUBSET Nat
  /\ credential \in Nat /\ socketCred \in Nat /\ faults \in Nat

\* A generation names one upgrade: no two attempts and no attempt and socket share
\* one, none is drawn twice, and only the current one names #socket, so that a
\* handler's comparison with #generation tells its own upgrade from every other
\* (socket.ts:181, 199-207, 305-313).
Generations ==
  /\ \A a \in attempts : a.gen \in 1 .. generation
  /\ \A a, b \in attempts : a.gen = b.gen => a = b
  /\ Sockets \cup terminated \subseteq 1 .. generation
  /\ generation \notin terminated
  /\ handshaking \cap established = {}
  /\ socket # None => socket = generation /\ socket \in Sockets
  /\ socket \in established => state = "open"

Driven == LiveAttempts # {} \/ TimerPending \/ socket # None

\* A connection that is wanted is pursued by exactly one of: an attempt whose
\* generation is current, a pending reconnect timer, the current socket.  With
\* none of them "connecting" would last forever; with two, two sockets race.
\* An idle or closed transport is pursued by none (socket.ts:157,188,199-201).
SingleFlight ==
  /\ Driven <=> state \in {"connecting", "open"}
  /\ state = "open" => socket # None
  /\ socket # None => ~TimerPending /\ LiveAttempts = {}
  /\ TimerPending => LiveAttempts = {}
  /\ \A a, b \in LiveAttempts : a = b

\* Every socket the client still lets live is the one it would send on: a drop,
\* a credential change or a close never leaves an orphan connected (263-269).
NoOrphanSocket == Sockets \ terminated \subseteq {socket}

\* A promise of connect() is pending exactly while the transport will settle it,
\* and none is pending once the socket is open or given up (218-226, 286-297).
WaitersTracked ==
  /\ \A c \in Callers : caller[c] = "waiting" <=> c \in openWaiters
  /\ state # "connecting" => openWaiters = {}

\* Both timers run exactly while they have a socket to watch: pings on an open
\* one, the open timeout on one whose upgrade is unanswered.
TimersWatchTheSocket ==
  /\ missedPongs # Off <=> state = "open"
  /\ state = "open" => socket \in established
  /\ openTimer # None =>
       openTimer = socket /\ socket \in handshaking /\ state = "connecting"
  /\ HasOpenTimeout /\ socket \in handshaking => openTimer = socket

\* However attempts, sockets, timers and their late events interleave, there is one socket
\* at most, one thing that will lead to the next, and the timers belong to it.
OneSocket == Generations /\ SingleFlight /\ NoOrphanSocket /\ TimersWatchTheSocket

\* The current socket, and an attempt that can still become it, carry the
\* credential the client holds now: a change between the load and the upgrade
\* is never lost (client.ts:117,148; socket.ts:150-167).
CredentialIsCurrent ==
  /\ socket # None => socketCred = credential
  /\ \A a \in LiveAttempts : a.phase # "loading" => a.cred = credential

\* After a failure the next upgrade waits for the backoff timer: only the first
\* connect() and a credential change start one at once (271-284).
RetriesWait ==
  [][attempts' \ attempts # {} /\ generation' # generation
       => TimerPending \/ state = "idle" \/ credential' # credential]_vars

\* A closed transport stays closed and never opens a socket again (170-178).
ClosedIsFinal ==
  [][Closing => state' = "closed" /\ Sockets' \subseteq Sockets]_vars

\* Every connect() settles, once the faults are over and no handshake can hang
\* without a timeout.
ConnectSettles == \A c \in Callers : caller[c] = "waiting" ~> caller[c] # "waiting"

\* The keepalive discovers a peer that vanished from under an open socket.
HalfOpenIsDropped == (state = "open" /\ socket \in silent) ~> (socket \notin silent)

\* A changed credential is eventually the one in use, unless the transport was
\* never asked to connect or is closed.
CredentialTakesEffect ==
  \A v \in 1 .. MaxCredential :
    credential = v ~> \/ state \in {"idle", "closed"} \/ credential > v
                      \/ state = "open" /\ socketCred = v

\* The link is made anew when its peer or its credential is no longer the right one.
LinkIsRenewed == HalfOpenIsDropped /\ CredentialTakesEffect

\* The link serves: who asked for it is answered, and a link that no longer serves is replaced.
LinkServes == ConnectSettles /\ LinkIsRenewed
=============================================================================
