------------------------------ MODULE SharedClient ------------------------------
(***************************************************************************)
(* SharedClient (t3code-mcp/src/clients.ts): the one upstream client of an *)
(* MCP connection, made when the first tool call needs it, by a process    *)
(* that reads the profile files while the commands of Profiles change      *)
(* them.  Calls that come while it is made share the attempt; an attempt   *)
(* that fails is forgotten; closing the connection closes the client, also *)
(* one that is still being made.                                           *)
(***************************************************************************)
EXTENDS Profiles

CONSTANT Calls   \* tool calls of the connection

VARIABLES
  selection,  \* the connection options
  attempt,    \* #pending: where #initialize stands
  closing,    \* #closing; the connection counts as closed from "waiting" on
  clients,    \* clients made and clients closed
  calls,      \* each call's wait for the client; idle also once it was interrupted
  fair        \* history: calls that began with no attempt in flight and could have
              \* been served ever since

shared == <<selection, attempt, closing, clients, calls, fair>>
vars   == <<profiles, shared>>

InFlight == {"reading", "creating", "discarding"}
Closed   == closing # "no"

\* ProfileManager.resolve or resolveProfile: a server needs no profile.
Resolvable(cfg) ==
  CASE selection.by = "current" -> cfg.current # None
    [] selection.by = "profile" -> Named(cfg, selection.name)
    [] OTHER -> TRUE

Init ==
  /\ ProfilesInit
  /\ selection \in [by : {"current", "server"}, name : {None}] \cup [by : {"profile"}, name : Names]
  /\ attempt = "none"
  /\ closing = "no"
  /\ clients = [made |-> 0, closed |-> 0]
  /\ calls = [c \in Calls |-> "idle"]
  /\ fair = {}

-----------------------------------------------------------------------------
\* Mutants: every call makes an attempt, or a rejected promise is kept.
NextAttempt_EachCall == "reading"
Forgets_Never == attempt' = "failed"

\* get: the attempt a call waits for.
NextAttempt == IF attempt = "none" THEN "reading" ELSE attempt

\* A new wait: refused once the connection is closed, over at once if the attempt is.
Waits == CASE Closed \/ NextAttempt = "failed" -> "failed"
           [] ~Closed /\ NextAttempt = "ready"  -> "served"
           [] OTHER -> "waiting"

\* clients.get of a tool call; a call that ended may be made again.
Get(c) ==
  /\ calls[c] # "waiting"
  /\ calls' = [calls EXCEPT ![c] = Waits]
  /\ attempt' = IF Closed THEN attempt ELSE NextAttempt
  /\ fair' = IF ~Closed /\ attempt \notin InFlight \cup {"ready"} /\ Resolvable(config)
             THEN fair \cup {c} ELSE fair \ {c}
  /\ UNCHANGED <<profiles, selection, closing, clients>>

\* Mutant: the signal of one call ends the attempt.
Abort_TheAttempt(c) ==
  /\ calls[c] = "waiting"
  /\ calls' = [calls EXCEPT ![c] = "idle"]
  /\ attempt' = "none" /\ fair' = fair \ {c}
  /\ UNCHANGED <<profiles, selection, closing, clients>>

\* waitForClient: the signal of the request.
Abort(c) ==
  /\ calls[c] = "waiting"
  /\ calls' = [calls EXCEPT ![c] = "idle"]
  /\ fair' = fair \ {c}
  /\ UNCHANGED <<profiles, selection, attempt, closing, clients>>

\* Everybody who waits for the attempt gets its outcome.
Settle(outcome) == calls' = [c \in Calls |-> IF calls[c] = "waiting" THEN outcome ELSE calls[c]]

\* The catch of get().
Forgets == attempt' = "none"

Fails == Forgets /\ Settle("failed") /\ UNCHANGED <<profiles, selection, closing>>

\* The profile is resolved against the config of this moment.
ReadConfig ==
  /\ attempt = "reading"
  /\ UNCHANGED clients
  /\ \/ /\ Resolvable(config)
        /\ attempt' = "creating"
        /\ UNCHANGED <<profiles, selection, closing, calls, fair>>
     \/ ~Resolvable(config) /\ Fails /\ UNCHANGED fair

\* The config cannot be read, or the client not be constructed.
Breaks ==
  /\ attempt \in {"reading", "creating"}
  /\ fair' = {}
  /\ Fails
  /\ UNCHANGED clients

\* The client is made, and closed again if the connection is.
Create ==
  /\ attempt = "creating"
  /\ clients' = [clients EXCEPT !.made = @ + 1]
  /\ \/ ~Closed /\ attempt' = "ready" /\ Settle("served")
     \/ Closed /\ attempt' = "discarding" /\ UNCHANGED calls
  /\ fair' = {}
  /\ UNCHANGED <<profiles, selection, closing>>

Discard ==
  /\ attempt = "discarding"
  /\ clients' = [clients EXCEPT !.closed = @ + 1]
  /\ Fails
  /\ UNCHANGED fair

\* close(): by the server's onclose, by startStdio's close, or by both.
Close ==
  /\ closing = "no"
  /\ closing' = "waiting"
  /\ UNCHANGED <<profiles, selection, attempt, clients, calls, fair>>

\* Mutant: close() does not wait for a client that is being made.
CloseClient_ReadyOnly ==
  /\ closing = "waiting"
  /\ clients' = [clients EXCEPT !.closed = IF attempt = "ready" THEN @ + 1 ELSE @]
  /\ closing' = "done"
  /\ UNCHANGED <<profiles, selection, attempt, calls, fair>>

\* What was pending when close() was called has settled.
CloseClient ==
  /\ closing = "waiting" /\ attempt \in {"none", "ready"}
  /\ clients' = [clients EXCEPT !.closed = IF attempt = "ready" THEN @ + 1 ELSE @]
  /\ closing' = "done"
  /\ UNCHANGED <<profiles, selection, attempt, calls, fair>>

\* A command of another process changes the files.
Files ==
  /\ ProfilesNext
  /\ fair' = IF Resolvable(config') THEN fair ELSE {}
  /\ UNCHANGED <<selection, attempt, closing, clients, calls>>

Initialize == ReadConfig \/ Create \/ Discard \/ CloseClient
Host       == (\E c \in Calls : Get(c) \/ Abort(c)) \/ Close
Next       == Files \/ Host \/ Initialize \/ Breaks

Spec     == Init /\ [][Next]_vars
\* Reads, constructions and closings end; nobody need make a call or close.
FairSpec == Spec /\ WF_vars(Initialize)

-----------------------------------------------------------------------------
(* Properties *)

\* Every variable keeps to its type.
TypeOK ==
  /\ ProfilesTypeOK
  /\ selection \in [by : {"current", "server", "profile"}, name : Names \cup {None}]
  /\ attempt \in {"none", "ready"} \cup InFlight
  /\ closing \in {"no", "waiting", "done"}
  /\ clients \in [made : Nat, closed : Nat]
  /\ calls \in [Calls -> {"idle", "waiting", "served", "failed"}]
  /\ fair \subseteq Calls

\* The connection never holds two clients, none outlives it, and each is closed once,
\* however its calls, their signals and the closing interleave (clients.ts:29, 82-97).
OneClient ==
  /\ clients.closed <= clients.made /\ clients.made <= 1
  /\ clients.made - clients.closed = 1 <=> (attempt = "discarding" \/ (attempt = "ready" /\ closing # "done"))
  /\ closing = "done" => attempt \in {"none", "ready"}

\* A call fails for what went wrong in its own time: one that began with no attempt in
\* flight, and found the selected profile from then on, fails only with the connection
\* (clients.ts:63-65).
FailureIsFresh == \A c \in fair : calls[c] = "failed" => Closed

\* Every call gets its client or an error, for a reason of its own, and close() ends
\* (clients.ts:56-97).
CallsSettle ==
  /\ []FailureIsFresh
  /\ \A c \in Calls : calls[c] = "waiting" ~> calls[c] # "waiting"
  /\ closing = "waiting" ~> closing = "done"
=============================================================================
