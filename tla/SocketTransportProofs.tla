-------------------------- MODULE SocketTransportProofs -------------------------
(***************************************************************************)
(* The type and the safety invariants of SocketTransport, for every set of *)
(* callers, every pong limit, with and without an open timeout, and        *)
(* without the bounds on faults and credentials that the TLC runs set.     *)
(*                                                                         *)
(* None of the invariants is inductive alone.  SingleFlight needs          *)
(* Generations to know that a handler passing the generation check acts    *)
(* for the only upgrade under way, and Generations needs NoOrphanSocket to *)
(* know that a current socket is #socket; their conjunction Safe is        *)
(* inductive relative to TypeOK.                                           *)
(***************************************************************************)
EXTENDS SocketTransport, TLAPS

\* Every step of Next is one of the actions of one handler: the case split that
\* each inductive proof below makes.
LEMMA TypeInit == ASSUME ConstantsAssumption PROVE Init => TypeOK
BY DEF Init, TypeOK, SocketState, CallerOutcome, None

LEMMA TypeStep == TypeOK /\ [Next]_vars => TypeOK'
<1> SUFFICES ASSUME TypeOK, [Next]_vars PROVE TypeOK'
  OBVIOUS
<1> USE DEF TypeOK, SocketState, CallerOutcome, None, client, waiting, net
<1>1. ASSUME NEW c \in Callers, ConnectWaits(c) PROVE TypeOK'
  BY <1>1 DEF ConnectWaits, Attempt, Attempts, Phase
<1>2. ASSUME NEW c \in Callers, ConnectSettlesAtOnce(c) PROVE TypeOK'
  BY <1>2 DEF ConnectSettlesAtOnce
<1>3. ASSUME NEW c \in Callers, Abort(c) PROVE TypeOK'
  BY <1>3 DEF Abort
<1>4. CASE ChangeCredential
  <2>1. CASE Reconnect
    BY <1>4, <2>1 DEF ChangeCredential, Reconnect, DetachSocket, Attempt, Attempts, Phase
  <2>2. CASE ReconnectIgnored /\ UNCHANGED <<client, waiting, attempts, net, socketCred>>
    BY <1>4, <2>2 DEF ChangeCredential
  <2>3. QED
    BY <1>4, <2>1, <2>2 DEF ChangeCredential
<1>5. CASE Close
  BY <1>5 DEF Close, Shut, DetachSocket, Settle
<1>6. ASSUME NEW a \in attempts, LoadCredential(a) PROVE TypeOK'
  BY <1>6 DEF LoadCredential, Attempts, Phase
<1>7. ASSUME NEW a \in attempts, Abandon(a) PROVE TypeOK'
  BY <1>7 DEF Abandon
<1>8. ASSUME NEW a \in attempts, ResolveFails(a) PROVE TypeOK'
  <2>1. CASE Shut
    BY <1>8, <2>1 DEF ResolveFails, Charge, Shut, DetachSocket, Settle
  <2>2. CASE /\ ScheduleReconnect
             /\ UNCHANGED <<generation, socket, openTimer, missedPongs, waiting, net, socketCred>>
    BY <1>8, <2>2 DEF ResolveFails, Charge, ScheduleReconnect
  <2>3. QED
    BY <1>8, <2>1, <2>2 DEF ResolveFails
<1>9. ASSUME NEW a \in attempts, Resolved(a) PROVE TypeOK'
  BY <1>9 DEF Resolved, Attempts, Phase
<1>10. ASSUME NEW a \in attempts, OpenWebSocket(a) PROVE TypeOK'
  BY <1>10 DEF OpenWebSocket, Attempts
<1>11. CASE ReconnectTimerFires
  BY <1>11 DEF ReconnectTimerFires, Attempt, Attempts, Phase
<1>12. CASE OpenTimerFires
  BY <1>12 DEF OpenTimerFires, Charge, DropSocket, DetachSocket, ScheduleReconnect
<1>13. CASE Ping
  BY <1>13 DEF Ping
<1>14. CASE PingTimeout
  BY <1>14 DEF PingTimeout, Charge, DropSocket, DetachSocket, ScheduleReconnect
<1>15. ASSUME NEW s \in Sockets, SocketOpens(s) PROVE TypeOK'
  BY <1>15 DEF SocketOpens, OnOpen, Settle, Sockets
<1>16. ASSUME NEW s \in Sockets, Pong(s) PROVE TypeOK'
  BY <1>16 DEF Pong
<1>17. ASSUME NEW s \in Sockets, BadFrame(s) PROVE TypeOK'
  <2>1. CASE DropSocket
    BY <1>17, <2>1 DEF BadFrame, Charge, DropSocket, DetachSocket, ScheduleReconnect
  <2>2. CASE UNCHANGED <<client, waiting, attempts, net, socketCred>>
    BY <1>17, <2>2 DEF BadFrame, Charge
  <2>3. QED
    BY <1>17, <2>1, <2>2 DEF BadFrame
<1>18. ASSUME NEW s \in Sockets, PeerGoesSilent(s) PROVE TypeOK'
  BY <1>18 DEF PeerGoesSilent, Charge, Sockets
<1>19. ASSUME NEW s \in Sockets, NEW info \in CloseInfo, SocketCloses(s, info) PROVE TypeOK'
  <2>1. /\ handshaking' \in SUBSET Nat /\ established' \in SUBSET Nat
        /\ terminated' \in SUBSET Nat /\ silent' \in SUBSET Nat
    BY <1>19 DEF SocketCloses
  <2>2. credential' \in Nat /\ attempts' \in SUBSET Attempts /\ faults' \in Nat
    BY <1>19 DEF SocketCloses, Charge
  <2>3. CASE OnClose(info) /\ Fatal(info)
    BY <2>1, <2>2, <2>3 DEF OnClose, Settle
  <2>4. CASE OnClose(info) /\ ~Fatal(info)
    BY <2>1, <2>2, <2>4 DEF OnClose, ScheduleReconnect
  <2>5. CASE UNCHANGED <<client, waiting, socketCred>>
    BY <2>1, <2>2, <2>5
  <2>6. QED
    BY <1>19, <2>3, <2>4, <2>5 DEF SocketCloses
<1>20. CASE UNCHANGED vars
  BY <1>20 DEF vars
<1>21. QED
  BY <1>1, <1>2, <1>3, <1>4, <1>5, <1>6, <1>7, <1>8, <1>9, <1>10, <1>11, <1>12, <1>13,
     <1>14, <1>15, <1>16, <1>17, <1>18, <1>19, <1>20 DEF Next, Call, Continue, Timer, Event

\* Every variable of the transport keeps to its type (socket.ts:58-71).
THEOREM TypeCorrect == Spec => []TypeOK
<1>1. Init => TypeOK
  BY TypeInit, ConstantsAssumption
<1>2. TypeOK /\ [Next]_vars => TypeOK'
  BY TypeStep
<1>3. QED
  BY <1>1, <1>2, PTL DEF Spec

-----------------------------------------------------------------------------
Safe == /\ Generations /\ SingleFlight /\ NoOrphanSocket
        /\ WaitersTracked /\ TimersWatchTheSocket /\ CredentialIsCurrent

\* #attempt draws a generation no earlier attempt has, so its own is the one live
\* attempt after it (socket.ts:181).
LEMMA FreshAttempt ==
  ASSUME TypeOK, Generations, NEW gen \in Nat, gen > generation, Attempt(gen)
  PROVE  /\ LiveAttempts' = {[gen |-> gen, phase |-> "loading", cred |-> None]}
         /\ \A x \in attempts' : x.gen \in 1 .. generation'
         /\ \A x, y \in attempts' : x.gen = y.gen => x = y
BY DEF TypeOK, Generations, Attempt, Attempts, LiveAttempts, IsCurrent

\* A continuation that replaces its own attempt moves no other.
LEMMA SameGeneration ==
  ASSUME TypeOK, Generations, NEW a \in attempts, NEW b \in Attempts, b.gen = a.gen,
         attempts' = (attempts \ {a}) \cup {b}, generation' = generation
  PROVE  /\ \A x \in attempts' : x.gen \in 1 .. generation'
         /\ \A x, y \in attempts' : x.gen = y.gen => x = y
         /\ LiveAttempts' = IF IsCurrent(a.gen) THEN {b} ELSE LiveAttempts
<1>1. \A x \in attempts' : x.gen \in 1 .. generation'
  BY DEF Generations
<1>2. \A x, y \in attempts' : x.gen = y.gen => x = y
  BY DEF Generations
<1>3. CASE IsCurrent(a.gen)
  <2>1. \A x \in attempts' : x.gen = generation' <=> x = b
    BY <1>2, <1>3 DEF IsCurrent
  <2>2. b \in attempts'
    OBVIOUS
  <2>3. QED
    BY <1>1, <1>2, <1>3, <2>1, <2>2 DEF LiveAttempts, IsCurrent
<1>4. CASE ~IsCurrent(a.gen)
  <2>1. \A x : x \in attempts' /\ x.gen = generation' <=> x \in attempts /\ x.gen = generation
    BY <1>4 DEF IsCurrent
  <2>2. QED
    BY <1>1, <1>2, <1>4, <2>1 DEF LiveAttempts, IsCurrent
<1>5. QED
  BY <1>1, <1>2, <1>3, <1>4

\* The invariants read neither the waiters, of which only WaitersTracked speaks,
\* nor which peers are silent.
LEMMA Unmoved ==
  ASSUME Safe, WaitersTracked',
         UNCHANGED <<client, attempts, handshaking, established, terminated, credential,
                     socketCred>>
  PROVE  Safe'
<1>1. Generations' /\ NoOrphanSocket' /\ TimersWatchTheSocket'
  BY DEF Safe, client, Sockets, Generations, NoOrphanSocket, TimersWatchTheSocket
<1>2. SingleFlight' /\ CredentialIsCurrent'
  BY DEF Safe, client, LiveAttempts, IsCurrent, Driven, TimerPending, SingleFlight,
         CredentialIsCurrent
<1>3. QED
  BY <1>1, <1>2 DEF Safe

\* close() and #fail leave nothing that could still act (socket.ts:169-178, 286-303).
LEMMA ShutSafe ==
  ASSUME TypeOK, Safe, Shut, attempts' \subseteq attempts, UNCHANGED credential
  PROVE  Safe'
<1> USE DEF Safe, Shut
<1>1. Generations'
  BY DEF DetachSocket, None, Sockets, Generations, TypeOK
<1>2. SingleFlight'
  BY DEF DetachSocket, LiveAttempts, IsCurrent, Driven, TimerPending, Generations,
         SingleFlight, TypeOK
<1>3. NoOrphanSocket'
  BY DEF DetachSocket, Sockets, NoOrphanSocket
<1>4. WaitersTracked'
  BY DEF Settle, WaitersTracked
<1>5. TimersWatchTheSocket'
  BY DEF DetachSocket, TimersWatchTheSocket
<1>6. CredentialIsCurrent'
  BY DEF DetachSocket, LiveAttempts, IsCurrent, Generations, CredentialIsCurrent, TypeOK
<1>7. QED
  BY <1>1, <1>2, <1>3, <1>4, <1>5, <1>6

\* Dropping the socket in use leaves the reconnect timer as the one way forward
\* (socket.ts:263-284).
LEMMA DropSafe ==
  ASSUME TypeOK, Safe, socket # None, DropSocket, UNCHANGED credential
  PROVE  Safe'
<1> USE DEF Safe, DropSocket
<1>1. Generations'
  BY DEF DetachSocket, None, Sockets, Generations, TypeOK
<1>2. SingleFlight'
  BY DEF DetachSocket, ScheduleReconnect, LiveAttempts, IsCurrent, Driven, TimerPending,
         Generations, SingleFlight, TypeOK
<1>3. NoOrphanSocket'
  BY DEF DetachSocket, Sockets, NoOrphanSocket
<1>4. WaitersTracked'
  BY DEF ScheduleReconnect, waiting, WaitersTracked, SingleFlight, Driven
<1>5. TimersWatchTheSocket'
  BY DEF DetachSocket, ScheduleReconnect, TimersWatchTheSocket
<1>6. CredentialIsCurrent'
  BY DEF DetachSocket, LiveAttempts, IsCurrent, Generations, CredentialIsCurrent, TypeOK
<1>7. QED
  BY <1>1, <1>2, <1>3, <1>4, <1>5, <1>6

LEMMA SafeInit == Init => Safe
BY DEF Init, Safe, Generations, SingleFlight, NoOrphanSocket, WaitersTracked,
       TimersWatchTheSocket, CredentialIsCurrent, Sockets, LiveAttempts, Driven,
       TimerPending, None, Off

\* reconnect() replaces whatever was under way by one fresh attempt (socket.ts:150-167).
LEMMA ReconnectSafe == ASSUME TypeOK, Safe, Reconnect PROVE Safe'
<1> USE DEF Safe, Reconnect
<1>1. /\ LiveAttempts' = {[gen |-> generation + 2, phase |-> "loading", cred |-> None]}
      /\ \A x \in attempts' : x.gen \in 1 .. generation'
      /\ \A x, y \in attempts' : x.gen = y.gen => x = y
  BY FreshAttempt DEF TypeOK
<1>2. ~TimerPending /\ state \notin {"idle", "closed"} /\ generation' = generation + 2
  BY DEF ReconnectIgnored, Attempt
<1>3. Generations'
  BY <1>1, <1>2 DEF DetachSocket, None, Sockets, Generations, TypeOK
<1>4. SingleFlight'
  BY <1>1, <1>2 DEF DetachSocket, Driven, TimerPending,
                         SingleFlight
<1>5. NoOrphanSocket'
  BY DEF DetachSocket, Sockets, NoOrphanSocket
<1>6. WaitersTracked'
  BY DEF waiting, WaitersTracked
<1>7. TimersWatchTheSocket'
  BY DEF DetachSocket, TimersWatchTheSocket, Generations
<1>8. CredentialIsCurrent'
  BY <1>1 DEF DetachSocket, CredentialIsCurrent
<1>9. QED
  BY <1>3, <1>4, <1>5, <1>6, <1>7, <1>8

LEMMA SafeStep == ASSUME TypeOK, Safe, [Next]_vars PROVE Safe'
<1> USE DEF Safe
<1>1. ASSUME NEW c \in Callers, ConnectWaits(c) PROVE Safe'
  <2>1. CASE state = "idle"
    <3>1. /\ LiveAttempts' = {[gen |-> generation + 1, phase |-> "loading", cred |-> None]}
          /\ \A x \in attempts' : x.gen \in 1 .. generation'
          /\ \A x, y \in attempts' : x.gen = y.gen => x = y
          /\ generation' = generation + 1
      BY <1>1, <2>1, FreshAttempt DEF ConnectWaits, Attempt, TypeOK
    <3>2. socket = None /\ ~TimerPending
      BY <2>1 DEF SingleFlight, Driven
    <3>3. Generations'
      BY <1>1, <3>1, <3>2 DEF ConnectWaits, net, Sockets, None, Generations, TypeOK
    <3>4. SingleFlight'
      BY <1>1, <3>1, <3>2 DEF ConnectWaits, Driven, TimerPending, SingleFlight
    <3>5. TimersWatchTheSocket'
      BY <1>1, <2>1 DEF ConnectWaits, net, TimersWatchTheSocket
    <3>6. CredentialIsCurrent'
      BY <1>1, <3>1, <3>2 DEF ConnectWaits, CredentialIsCurrent
    <3>7. NoOrphanSocket' /\ WaitersTracked'
      BY <1>1 DEF ConnectWaits, net, Sockets, NoOrphanSocket, WaitersTracked, TypeOK
    <3>8. QED
      BY <3>3, <3>4, <3>5, <3>6, <3>7
  <2>2. CASE state # "idle"
    <3>1. WaitersTracked'
      BY <1>1 DEF ConnectWaits, WaitersTracked, TypeOK
    <3>2. UNCHANGED <<client, attempts, handshaking, established, terminated, credential,
                      socketCred>>
      BY <1>1, <2>2 DEF ConnectWaits, client, net
    <3>3. QED
      BY <3>1, <3>2, Unmoved
  <2>3. QED
    BY <2>1, <2>2
<1>2. ASSUME NEW c \in Callers, ConnectSettlesAtOnce(c) PROVE Safe'
  <2>1. WaitersTracked'
    BY <1>2 DEF ConnectSettlesAtOnce, client, WaitersTracked, TypeOK
  <2>2. QED
    BY <1>2, <2>1, Unmoved DEF ConnectSettlesAtOnce, net
<1>3. ASSUME NEW c \in Callers, Abort(c) PROVE Safe'
  <2>1. WaitersTracked'
    BY <1>3 DEF Abort, client, WaitersTracked, TypeOK
  <2>2. QED
    BY <1>3, <2>1, Unmoved DEF Abort, net
<1>4. CASE ChangeCredential
  <2>1. CASE Reconnect
    BY <2>1, ReconnectSafe
  <2>2. CASE ReconnectIgnored /\ UNCHANGED <<client, waiting, attempts, net, socketCred>>
    <3>1. socket = None /\ LiveAttempts = {}
      BY <2>2 DEF ReconnectIgnored, SingleFlight, Driven
    <3>2. Generations' /\ NoOrphanSocket' /\ TimersWatchTheSocket' /\ WaitersTracked'
      BY <2>2 DEF client, waiting, net, Sockets, Generations, NoOrphanSocket,
                  TimersWatchTheSocket, WaitersTracked
    <3>3. SingleFlight'
      BY <2>2 DEF client, LiveAttempts, IsCurrent, Driven, TimerPending, SingleFlight
    <3>4. CredentialIsCurrent'
      BY <2>2, <3>1 DEF client, LiveAttempts, IsCurrent, CredentialIsCurrent
    <3>5. QED
      BY <3>2, <3>3, <3>4
  <2>3. QED
    BY <1>4, <2>1, <2>2 DEF ChangeCredential
<1>5. CASE Close
  BY <1>5, ShutSafe DEF Close
<1>6. ASSUME NEW a \in attempts, LoadCredential(a) PROVE Safe'
  <2> DEFINE b == [a EXCEPT !.phase = "resolving", !.cred = credential]
  <2>1. b \in Attempts /\ b.gen = a.gen /\ b.cred = credential
    BY DEF TypeOK, Attempts, Phase
  <2>2. attempts' = (attempts \ {a}) \cup {b} /\ generation' = generation
    BY <1>6 DEF LoadCredential, client
  <2> HIDE DEF b
  <2>3. /\ \A x \in attempts' : x.gen \in 1 .. generation'
        /\ \A x, y \in attempts' : x.gen = y.gen => x = y
        /\ LiveAttempts' = IF IsCurrent(a.gen) THEN {b} ELSE LiveAttempts
    BY <2>1, <2>2, SameGeneration
  <2>4. Generations'
    BY <1>6, <2>3 DEF LoadCredential, client, net, Sockets, Generations
  <2>5. SingleFlight'
    BY <1>6, <2>3 DEF LoadCredential, client, LiveAttempts, Driven, TimerPending, SingleFlight
  <2>6. CredentialIsCurrent'
    BY <1>6, <2>1, <2>3 DEF LoadCredential, client, CredentialIsCurrent
  <2>7. NoOrphanSocket' /\ WaitersTracked' /\ TimersWatchTheSocket'
    BY <1>6 DEF LoadCredential, client, waiting, net, Sockets, NoOrphanSocket,
                WaitersTracked, TimersWatchTheSocket
  <2>8. QED
    BY <2>4, <2>5, <2>6, <2>7
<1>7. ASSUME NEW a \in attempts, Abandon(a) PROVE Safe'
  <2>1. Generations' /\ NoOrphanSocket' /\ WaitersTracked' /\ TimersWatchTheSocket'
    BY <1>7 DEF Abandon, client, waiting, net, Sockets, Generations, NoOrphanSocket,
                WaitersTracked, TimersWatchTheSocket
  <2>2. SingleFlight'
    BY <1>7 DEF Abandon, Stale, Closing, client, LiveAttempts, IsCurrent, Driven,
                TimerPending, SingleFlight
  <2>3. CredentialIsCurrent'
    BY <1>7 DEF Abandon, client, LiveAttempts, IsCurrent, CredentialIsCurrent
  <2>4. QED
    BY <2>1, <2>2, <2>3
<1>8. ASSUME NEW a \in attempts, ResolveFails(a) PROVE Safe'
  <2>1. CASE Shut
    BY <1>8, <2>1, ShutSafe DEF ResolveFails
  <2>2. CASE /\ ScheduleReconnect
             /\ UNCHANGED <<generation, socket, openTimer, missedPongs, waiting, net, socketCred>>
    <3>1. LiveAttempts = {a} /\ LiveAttempts' = {} /\ socket = None
          /\ state = "connecting"
      BY <1>8, <2>2 DEF ResolveFails, Stale, Closing, LiveAttempts, IsCurrent, Driven,
                        Generations, SingleFlight
    <3>2. Generations' /\ NoOrphanSocket' /\ WaitersTracked'
      BY <1>8, <2>2, <3>1 DEF ResolveFails, ScheduleReconnect, waiting, net, Sockets,
                  Generations, NoOrphanSocket, WaitersTracked
    <3>3. SingleFlight'
      BY <2>2, <3>1 DEF ScheduleReconnect, Driven, TimerPending, SingleFlight
    <3>4. TimersWatchTheSocket' /\ CredentialIsCurrent'
      BY <2>2, <3>1 DEF ScheduleReconnect, net, TimersWatchTheSocket, CredentialIsCurrent
    <3>5. QED
      BY <3>2, <3>3, <3>4
  <2>3. QED
    BY <1>8, <2>1, <2>2 DEF ResolveFails
<1>9. ASSUME NEW a \in attempts, Resolved(a) PROVE Safe'
  <2> DEFINE b == [a EXCEPT !.phase = "importing"]
  <2>1. b \in Attempts /\ b.gen = a.gen /\ b.cred = a.cred /\ a.phase = "resolving"
    BY <1>9 DEF Resolved, TypeOK, Attempts, Phase
  <2>2. attempts' = (attempts \ {a}) \cup {b} /\ generation' = generation
    BY <1>9 DEF Resolved, client
  <2> HIDE DEF b
  <2>3. /\ \A x \in attempts' : x.gen \in 1 .. generation'
        /\ \A x, y \in attempts' : x.gen = y.gen => x = y
        /\ LiveAttempts' = IF IsCurrent(a.gen) THEN {b} ELSE LiveAttempts
    BY <2>1, <2>2, SameGeneration
  <2>4. Generations'
    BY <1>9, <2>3 DEF Resolved, client, net, Sockets, Generations
  <2>5. SingleFlight'
    BY <1>9, <2>3 DEF Resolved, client, LiveAttempts, Driven, TimerPending, SingleFlight
  <2>6. CredentialIsCurrent'
    BY <1>9, <2>1, <2>3 DEF Resolved, client, LiveAttempts, CredentialIsCurrent
  <2>7. NoOrphanSocket' /\ WaitersTracked' /\ TimersWatchTheSocket'
    BY <1>9 DEF Resolved, client, waiting, net, Sockets, NoOrphanSocket,
                WaitersTracked, TimersWatchTheSocket
  <2>8. QED
    BY <2>4, <2>5, <2>6, <2>7
<1>10. ASSUME NEW a \in attempts, OpenWebSocket(a) PROVE Safe'
  <2>1. /\ a.gen = generation /\ LiveAttempts = {a} /\ LiveAttempts' = {}
        /\ socket = None /\ generation \notin Sockets /\ state = "connecting"
    BY <1>10 DEF OpenWebSocket, Stale, Closing, LiveAttempts, IsCurrent, Sockets, Driven,
                 TimerPending, TypeOK, SocketState, Generations, SingleFlight,
                 NoOrphanSocket, None
  <2>2. Generations'
    BY <1>10, <2>1 DEF OpenWebSocket, Sockets, Generations
  <2>3. SingleFlight'
    BY <1>10, <2>1 DEF OpenWebSocket, None, Driven, TimerPending, Generations, SingleFlight
  <2>4. NoOrphanSocket'
    BY <1>10, <2>1 DEF OpenWebSocket, None, Sockets, Generations, NoOrphanSocket
  <2>5. WaitersTracked'
    BY <1>10 DEF OpenWebSocket, waiting, WaitersTracked
  <2>6. TimersWatchTheSocket'
    BY <1>10, <2>1 DEF OpenWebSocket, TimersWatchTheSocket
  <2>7. CredentialIsCurrent'
    BY <1>10, <2>1 DEF OpenWebSocket, CredentialIsCurrent
  <2>8. QED
    BY <2>2, <2>3, <2>4, <2>5, <2>6, <2>7
<1>11. CASE ReconnectTimerFires
  <2>1. /\ LiveAttempts' = {[gen |-> generation + 1, phase |-> "loading", cred |-> None]}
        /\ \A x \in attempts' : x.gen \in 1 .. generation'
        /\ \A x, y \in attempts' : x.gen = y.gen => x = y
        /\ generation' = generation + 1
    BY <1>11, FreshAttempt DEF ReconnectTimerFires, Attempt, TypeOK
  <2>2. socket = None /\ state = "connecting"
    BY <1>11 DEF ReconnectTimerFires, SingleFlight, Driven
  <2>3. Generations'
    BY <1>11, <2>1, <2>2 DEF ReconnectTimerFires, net, Sockets, None, Generations, TypeOK
  <2>4. SingleFlight'
    BY <1>11, <2>1, <2>2 DEF ReconnectTimerFires, Driven, TimerPending, SingleFlight
  <2>5. NoOrphanSocket' /\ WaitersTracked' /\ TimersWatchTheSocket'
    BY <1>11 DEF ReconnectTimerFires, waiting, net, Sockets, NoOrphanSocket,
                 WaitersTracked, TimersWatchTheSocket
  <2>6. CredentialIsCurrent'
    BY <1>11, <2>1, <2>2 DEF ReconnectTimerFires, CredentialIsCurrent
  <2>7. QED
    BY <2>3, <2>4, <2>5, <2>6
<1>12. CASE OpenTimerFires
  BY <1>12, DropSafe DEF OpenTimerFires, TimersWatchTheSocket
<1>13. CASE Ping
  <2>1. Generations' /\ NoOrphanSocket' /\ WaitersTracked'
    BY <1>13 DEF Ping, waiting, net, Sockets, Generations, NoOrphanSocket, WaitersTracked
  <2>2. TimersWatchTheSocket'
    BY <1>13 DEF Ping, Off, net, TimersWatchTheSocket
  <2>3. SingleFlight' /\ CredentialIsCurrent'
    BY <1>13 DEF Ping, LiveAttempts, IsCurrent, Driven, TimerPending, SingleFlight,
                 CredentialIsCurrent
  <2>4. QED
    BY <2>1, <2>2, <2>3
<1>14. CASE PingTimeout
  BY <1>14, DropSafe DEF PingTimeout, TimersWatchTheSocket, SingleFlight
<1>15. ASSUME NEW s \in Sockets, SocketOpens(s) PROVE Safe'
  <2>1. Generations'
    BY <1>15 DEF SocketOpens, OnOpen, None, Sockets, IsCurrent, client, Generations
  <2>2. SingleFlight'
    BY <1>15 DEF SocketOpens, OnOpen, None, Sockets, LiveAttempts, IsCurrent, Driven,
                 TimerPending, client, Generations, SingleFlight, NoOrphanSocket
  <2>3. NoOrphanSocket'
    BY <1>15 DEF SocketOpens, OnOpen, Sockets, client, NoOrphanSocket
  <2>4. WaitersTracked'
    BY <1>15 DEF SocketOpens, OnOpen, Settle, client, waiting, WaitersTracked
  <2>5. TimersWatchTheSocket'
    BY <1>15 DEF SocketOpens, OnOpen, None, Off, Sockets, IsCurrent, client, Generations,
                 NoOrphanSocket, TimersWatchTheSocket
  <2>6. CredentialIsCurrent'
    BY <1>15 DEF SocketOpens, OnOpen, LiveAttempts, IsCurrent, client, CredentialIsCurrent
  <2>7. QED
    BY <2>1, <2>2, <2>3, <2>4, <2>5, <2>6
<1>16. ASSUME NEW s \in Sockets, Pong(s) PROVE Safe'
  <2>1. Generations' /\ NoOrphanSocket' /\ WaitersTracked'
    BY <1>16 DEF Pong, waiting, net, Sockets, Generations, NoOrphanSocket, WaitersTracked
  <2>2. TimersWatchTheSocket'
    BY <1>16 DEF Pong, Off, Sockets, IsCurrent, net, Generations, NoOrphanSocket,
                 TimersWatchTheSocket
  <2>3. SingleFlight' /\ CredentialIsCurrent'
    BY <1>16 DEF Pong, LiveAttempts, IsCurrent, Driven, TimerPending, SingleFlight,
                 CredentialIsCurrent
  <2>4. QED
    BY <2>1, <2>2, <2>3
<1>17. ASSUME NEW s \in Sockets, BadFrame(s) PROVE Safe'
  <2>1. CASE IsCurrent(s)
    <3>1. socket # None
      BY <1>17, <2>1 DEF BadFrame, IsCurrent, Sockets, None, NoOrphanSocket, Generations
    <3>2. QED
      BY <1>17, <2>1, <3>1, DropSafe DEF BadFrame
  <2>2. CASE ~IsCurrent(s)
    <3>1. WaitersTracked'
      BY <1>17, <2>2 DEF BadFrame, client, waiting, WaitersTracked
    <3>2. QED
      BY <1>17, <2>2, <3>1, Unmoved DEF BadFrame, net
  <2>3. QED
    BY <2>1, <2>2
<1>18. ASSUME NEW s \in Sockets, PeerGoesSilent(s) PROVE Safe'
  <2>1. WaitersTracked'
    BY <1>18 DEF PeerGoesSilent, client, waiting, WaitersTracked
  <2>2. QED
    BY <1>18, <2>1, Unmoved DEF PeerGoesSilent
<1>19. ASSUME NEW s \in Sockets, NEW info \in CloseInfo, SocketCloses(s, info) PROVE Safe'
  <2>1. Generations'
    BY <1>19 DEF SocketCloses, OnClose, None, Sockets, IsCurrent, client, Generations, TypeOK
  <2>2. SingleFlight'
    BY <1>19 DEF SocketCloses, OnClose, ScheduleReconnect, None, Sockets, LiveAttempts,
                 IsCurrent, Driven, TimerPending, client, Generations, SingleFlight,
                 NoOrphanSocket, TypeOK
  <2>3. NoOrphanSocket'
    BY <1>19 DEF SocketCloses, OnClose, Sockets, IsCurrent, client, Generations, NoOrphanSocket
  <2>4. WaitersTracked'
    BY <1>19 DEF SocketCloses, OnClose, ScheduleReconnect, Settle, client, waiting,
                 WaitersTracked
  <2>5. TimersWatchTheSocket'
    BY <1>19 DEF SocketCloses, OnClose, ScheduleReconnect, None, IsCurrent, client,
                 Generations, TimersWatchTheSocket
  <2>6. CredentialIsCurrent'
    BY <1>19 DEF SocketCloses, OnClose, LiveAttempts, IsCurrent, client, Generations,
                 CredentialIsCurrent, TypeOK
  <2>7. QED
    BY <2>1, <2>2, <2>3, <2>4, <2>5, <2>6
<1>20. CASE UNCHANGED vars
  <2>1. WaitersTracked'
    BY <1>20 DEF vars, client, waiting, WaitersTracked
  <2>2. QED
    BY <1>20, <2>1, Unmoved DEF vars, net
<1>21. QED
  BY <1>1, <1>2, <1>3, <1>4, <1>5, <1>6, <1>7, <1>8, <1>9, <1>10, <1>11, <1>12, <1>13,
     <1>14, <1>15, <1>16, <1>17, <1>18, <1>19, <1>20 DEF Next, Call, Continue, Timer, Event

LEMMA SafeAlways == Spec => []Safe
<1>1. Init => Safe
  BY SafeInit
<1>2. TypeOK /\ Safe /\ [Next]_vars => Safe'
  BY SafeStep
<1>3. QED
  BY <1>1, <1>2, TypeCorrect, PTL DEF Spec

\* One socket at most, one way forward while a connection is wanted, no socket left behind,
\* and timers that belong to the socket in use (socket.ts:150-215, 263-316).
THEOREM OneSocketCorrect == Spec => []OneSocket
<1>1. Safe => OneSocket
  BY DEF Safe, OneSocket
<1>2. QED
  BY <1>1, SafeAlways, PTL

\* No connect() is forgotten, and none waits on a transport that is open or closed
\* (socket.ts:112-140, 218-226, 286-297).
THEOREM WaitersTrackedCorrect == Spec => []WaitersTracked
<1>1. Safe => WaitersTracked
  BY DEF Safe
<1>2. QED
  BY <1>1, SafeAlways, PTL

\* No credential change is lost between its load and the upgrade (client.ts:148,
\* socket.ts:150-167).
THEOREM CredentialIsCurrentCorrect == Spec => []CredentialIsCurrent
<1>1. Safe => CredentialIsCurrent
  BY DEF Safe
<1>2. QED
  BY <1>1, SafeAlways, PTL

\* Only the first connect(), the reconnect timer and a new credential begin an
\* upgrade: a failure always waits for its backoff (socket.ts:271-284).
THEOREM RetriesWaitCorrect == Spec => RetriesWait
<1> DEFINE Begins  == attempts' \ attempts # {} /\ generation' # generation
           Allowed == TimerPending \/ state = "idle" \/ credential' # credential
<1>1. ASSUME TypeOK, [Next]_vars PROVE Begins => Allowed
  <2>1. ASSUME NEW c \in Callers, ConnectWaits(c) PROVE Begins => Allowed
    BY <2>1 DEF ConnectWaits
  <2>2. CASE ChangeCredential
    BY <1>1, <2>2 DEF ChangeCredential, TypeOK
  <2>3. CASE ReconnectTimerFires
    BY <2>3 DEF ReconnectTimerFires
  <2>4. ASSUME NEW c \in Callers, ConnectSettlesAtOnce(c) \/ Abort(c) PROVE ~Begins
    BY <2>4 DEF ConnectSettlesAtOnce, Abort
  <2>5. CASE Close \/ Ping \/ UNCHANGED vars
    BY <2>5 DEF Close, Ping, vars
  <2>6. ASSUME NEW a \in attempts, LoadCredential(a) \/ Resolved(a) PROVE ~Begins
    BY <2>6 DEF LoadCredential, Resolved, client
  <2>7. ASSUME NEW a \in attempts, Abandon(a) \/ ResolveFails(a) \/ OpenWebSocket(a)
        PROVE  ~Begins
    BY <2>7 DEF Abandon, ResolveFails, OpenWebSocket
  <2>8. CASE OpenTimerFires \/ PingTimeout
    BY <2>8 DEF OpenTimerFires, PingTimeout, DropSocket
  <2>9. ASSUME NEW s \in Sockets, SocketOpens(s) \/ Pong(s) \/ PeerGoesSilent(s) PROVE ~Begins
    BY <2>9 DEF SocketOpens, Pong, PeerGoesSilent
  <2>10. ASSUME NEW s \in Sockets, BadFrame(s) PROVE ~Begins
    BY <2>10 DEF BadFrame, DropSocket
  <2>11. ASSUME NEW s \in Sockets, NEW info \in CloseInfo, SocketCloses(s, info) PROVE ~Begins
    BY <2>11 DEF SocketCloses
  <2>12. QED
    BY <1>1, <2>1, <2>2, <2>3, <2>4, <2>5, <2>6, <2>7, <2>8, <2>9, <2>10, <2>11
       DEF Next, Call, Continue, Timer, Event
<1>2. QED
  BY <1>1, TypeCorrect, PTL DEF Spec, RetriesWait

\* A closed transport has nothing left that could act: no timer, no live attempt,
\* no socket that is not already terminated.
LEMMA ClosedIsQuiet ==
  ASSUME TypeOK, Safe, Closing
  PROVE  /\ socket = None /\ LiveAttempts = {} /\ ~TimerPending
         /\ openTimer = None /\ missedPongs = Off
         /\ \A s \in Sockets : ~IsCurrent(s)
<1>1. socket = None /\ LiveAttempts = {} /\ ~TimerPending
  BY DEF Safe, Closing, SingleFlight, Driven
<1>2. openTimer = None /\ missedPongs = Off
  BY DEF Safe, Closing, TimersWatchTheSocket
<1>3. \A s \in Sockets : ~IsCurrent(s)
  BY <1>1 DEF Safe, IsCurrent, Generations, NoOrphanSocket, None, Sockets
<1>4. QED
  BY <1>1, <1>2, <1>3

\* close() and a refusal are final: no later event revives the transport
\* (socket.ts:169-178, 286-303).
THEOREM ClosedIsFinalCorrect == Spec => ClosedIsFinal
<1> DEFINE Quiet == state' = "closed" /\ Sockets' \subseteq Sockets
<1>1. ASSUME TypeOK, Safe, Closing, [Next]_vars PROVE Quiet
  <2>1. ASSUME NEW c \in Callers, ConnectWaits(c) PROVE FALSE
    BY <1>1, <2>1 DEF ConnectWaits, Closing
  <2>2. ASSUME NEW c \in Callers, ConnectSettlesAtOnce(c) \/ Abort(c) PROVE Quiet
    BY <1>1, <2>2 DEF ConnectSettlesAtOnce, Abort, Closing, client, net, Sockets
  <2>3. CASE ChangeCredential
    BY <1>1, <2>3 DEF ChangeCredential, Reconnect, ReconnectIgnored, Closing, client, net,
                      Sockets
  <2>4. CASE Close \/ ReconnectTimerFires \/ OpenTimerFires \/ PingTimeout
    BY <1>1, <2>4, ClosedIsQuiet DEF Close, ReconnectTimerFires, OpenTimerFires, PingTimeout
  <2>5. CASE Ping \/ UNCHANGED vars
    BY <1>1, <2>5 DEF Ping, vars, client, net, Sockets, Closing
  <2>6. ASSUME NEW a \in attempts, LoadCredential(a) \/ Abandon(a) PROVE Quiet
    BY <1>1, <2>6 DEF LoadCredential, Abandon, Closing, client, net, Sockets
  <2>7. ASSUME NEW a \in attempts, ResolveFails(a) \/ Resolved(a) \/ OpenWebSocket(a)
        PROVE  FALSE
    BY <1>1, <2>7 DEF ResolveFails, Resolved, OpenWebSocket, Stale
  <2>8. ASSUME NEW s \in Sockets, SocketOpens(s) \/ Pong(s) \/ PeerGoesSilent(s) PROVE Quiet
    <3>1. ~IsCurrent(s)
      BY <1>1, ClosedIsQuiet
    <3>2. QED
      BY <1>1, <2>8, <3>1 DEF SocketOpens, Pong, PeerGoesSilent, Closing, client, Sockets
  <2>9. ASSUME NEW s \in Sockets, BadFrame(s) PROVE Quiet
    <3>1. ~IsCurrent(s)
      BY <1>1, ClosedIsQuiet
    <3>2. QED
      BY <1>1, <2>9, <3>1 DEF BadFrame, Closing, client, net, Sockets
  <2>10. ASSUME NEW s \in Sockets, NEW info \in CloseInfo, SocketCloses(s, info) PROVE Quiet
    <3>1. ~IsCurrent(s)
      BY <1>1, ClosedIsQuiet
    <3>2. QED
      BY <1>1, <2>10, <3>1 DEF SocketCloses, Closing, client, Sockets
  <2>11. QED
    BY <1>1, <2>1, <2>2, <2>3, <2>4, <2>5, <2>6, <2>7, <2>8, <2>9, <2>10
       DEF Next, Call, Continue, Timer, Event
<1>2. QED
  BY <1>1, TypeCorrect, SafeAlways, PTL DEF Spec, ClosedIsFinal

-----------------------------------------------------------------------------
(* The transport implements LogicalConnection under the identity mapping: the *)
(* two variables of the abstract link are variables of the transport.         *)

LogicalStep == [Logical!Next]_<<state, caller>>

\* The list of waiters is the set of callers who wait, so that settling the list
\* settles them all.
LEMMA WaitersAreWaiting ==
  ASSUME TypeOK, Safe, NEW outcome, Settle(openWaiters, outcome)
  PROVE  Logical!SettleAll(outcome)
<1>1. openWaiters = Logical!Waiting
  BY DEF TypeOK, Safe, WaitersTracked, Logical!Waiting
<1>2. QED
  BY <1>1 DEF Settle, Logical!SettleAll

LEMMA ShutGivesUp ==
  ASSUME TypeOK, Safe, ~Closing, Shut
  PROVE  LogicalStep
BY WaitersAreWaiting DEF Shut, Closing, LogicalStep, Logical!Next, Logical!GiveUp

LEMMA DropLoses ==
  ASSUME Safe, socket # None, DropSocket
  PROVE  LogicalStep
<1>1. state \in {"connecting", "open"}
  BY DEF Safe, SingleFlight, Driven
<1>2. QED
  BY <1>1 DEF DropSocket, ScheduleReconnect, waiting, LogicalStep, Logical!Next, Logical!Lose

LEMMA CurrentIsSocket ==
  ASSUME Safe, NEW s \in Sockets, IsCurrent(s)
  PROVE  /\ s \notin terminated /\ s = socket /\ socket # None
         /\ state \in {"connecting", "open"}
BY DEF Safe, IsCurrent, Sockets, None, Generations, NoOrphanSocket, SingleFlight, Driven

LEMMA StepImplements == ASSUME TypeOK, Safe, [Next]_vars PROVE LogicalStep
<1>1. ASSUME NEW c \in Callers, ConnectWaits(c) PROVE LogicalStep
  BY <1>1 DEF ConnectWaits, LogicalStep, Logical!Next, Logical!Ask
<1>2. ASSUME NEW c \in Callers, ConnectSettlesAtOnce(c) PROVE LogicalStep
  BY <1>2 DEF ConnectSettlesAtOnce, client, TypeOK, SocketState, LogicalStep, Logical!Next,
              Logical!Answer, Logical!Withdraw
<1>3. ASSUME NEW c \in Callers, Abort(c) PROVE LogicalStep
  BY <1>3 DEF Abort, client, LogicalStep, Logical!Next, Logical!Withdraw
<1>4. CASE ChangeCredential
  <2>1. CASE Reconnect
    <3>1. state \in {"connecting", "open"} /\ state' = "connecting" /\ caller' = caller
      BY <2>1 DEF Reconnect, ReconnectIgnored, TypeOK, SocketState, waiting
    <3>2. QED
      BY <3>1 DEF LogicalStep, Logical!Next, Logical!Lose
  <2>2. QED
    BY <1>4, <2>1 DEF ChangeCredential, client, waiting, LogicalStep
<1>5. CASE Close
  BY <1>5, ShutGivesUp DEF Close
<1>6. ASSUME NEW a \in attempts,
             LoadCredential(a) \/ Abandon(a) \/ Resolved(a) \/ OpenWebSocket(a)
      PROVE  LogicalStep
  BY <1>6 DEF LoadCredential, Abandon, Resolved, OpenWebSocket, client, waiting, LogicalStep
<1>7. ASSUME NEW a \in attempts, ResolveFails(a) PROVE LogicalStep
  <2>1. CASE Shut
    BY <1>7, <2>1, ShutGivesUp DEF ResolveFails, Stale
  <2>2. CASE ScheduleReconnect /\ UNCHANGED waiting
    <3>1. state = "connecting"
      BY <1>7 DEF ResolveFails, Safe, Stale, Closing, LiveAttempts, SingleFlight, Driven,
                  Generations
    <3>2. QED
      BY <2>2, <3>1 DEF ScheduleReconnect, waiting, LogicalStep
  <2>3. QED
    BY <1>7, <2>1, <2>2 DEF ResolveFails
<1>8. CASE ReconnectTimerFires \/ Ping
  BY <1>8 DEF ReconnectTimerFires, Ping, waiting, LogicalStep
<1>9. CASE OpenTimerFires
  BY <1>9, DropLoses DEF OpenTimerFires, Safe, TimersWatchTheSocket
<1>10. CASE PingTimeout
  BY <1>10, DropLoses DEF PingTimeout, Safe, TimersWatchTheSocket, SingleFlight
<1>11. ASSUME NEW s \in Sockets, SocketOpens(s) PROVE LogicalStep
  <2>1. CASE IsCurrent(s)
    <3>1. state = "connecting"
      BY <1>11, <2>1, CurrentIsSocket DEF SocketOpens, Safe, TimersWatchTheSocket, Generations
    <3>2. QED
      BY <1>11, <2>1, <3>1, WaitersAreWaiting
         DEF SocketOpens, OnOpen, LogicalStep, Logical!Next, Logical!Establish
  <2>2. QED
    BY <1>11, <2>1 DEF SocketOpens, client, waiting, LogicalStep
<1>12. ASSUME NEW s \in Sockets, Pong(s) \/ PeerGoesSilent(s) PROVE LogicalStep
  BY <1>12 DEF Pong, PeerGoesSilent, client, waiting, LogicalStep
<1>13. ASSUME NEW s \in Sockets, BadFrame(s) PROVE LogicalStep
  <2>1. CASE IsCurrent(s)
    BY <1>13, <2>1, CurrentIsSocket, DropLoses DEF BadFrame
  <2>2. QED
    BY <1>13, <2>1 DEF BadFrame, client, waiting, LogicalStep
<1>14. ASSUME NEW s \in Sockets, NEW info \in CloseInfo, SocketCloses(s, info)
       PROVE  LogicalStep
  <2>1. CASE IsCurrent(s) /\ Fatal(info)
    BY <1>14, <2>1, CurrentIsSocket, WaitersAreWaiting
       DEF SocketCloses, OnClose, LogicalStep, Logical!Next, Logical!GiveUp
  <2>2. CASE IsCurrent(s) /\ ~Fatal(info)
    BY <1>14, <2>2, CurrentIsSocket
       DEF SocketCloses, OnClose, ScheduleReconnect, waiting, LogicalStep, Logical!Next,
           Logical!Lose
  <2>3. QED
    BY <1>14, <2>1, <2>2 DEF SocketCloses, client, waiting, LogicalStep
<1>15. CASE UNCHANGED vars
  BY <1>15 DEF vars, client, waiting, LogicalStep
<1>16. QED
  BY <1>1, <1>2, <1>3, <1>4, <1>5, <1>6, <1>7, <1>8, <1>9, <1>10, <1>11, <1>12, <1>13,
     <1>14, <1>15 DEF Next, Call, Continue, Timer, Event

\* Whatever attempts, timers and sockets do, callers of connect() see one link that
\* is sought, comes up, drops and is given up only for good (socket.ts:5-10).
THEOREM ImplementsLogical == Spec => LogicalSpec
<1>1. Init => Logical!Init
  BY DEF Init, Logical!Init
<1>2. TypeOK /\ Safe /\ [Next]_vars => [Logical!Next]_<<state, caller>>
  BY StepImplements DEF LogicalStep
<1>3. QED
  BY <1>1, <1>2, TypeCorrect, SafeAlways, PTL DEF Spec, LogicalSpec, Logical!Spec

=============================================================================
