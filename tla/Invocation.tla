------------------------------- MODULE Invocation -------------------------------
(***************************************************************************)
(* One invocation of the CLI around a dispatch: main (main.ts) and the     *)
(* client that createInvocation (context.ts) makes when a command first    *)
(* needs it.  Reading the profile takes a while, and a signal or an error  *)
(* can end the command meanwhile: main still waits for the client and      *)
(* closes it, or the process would stay alive on its socket.               *)
(***************************************************************************)
EXTENDS Dispatch

VARIABLES
  client,   \* the invocation's client
  main      \* where main stands

invocation == <<client, main>>
command    == <<vars, invocation>>

InvocationInit ==
  /\ Init
  /\ client = "none"
  /\ main = "running"

-----------------------------------------------------------------------------
\* client(), initializeClient: dispatchPrompt asks for it first.
MakeClient ==
  /\ at = "preflight" /\ client = "none"
  /\ client' = "resolving"
  /\ UNCHANGED <<vars, main>>

\* The profile is resolved, also when nobody waits for it any more.
ClientMade ==
  /\ client = "resolving"
  /\ client' = "open"
  /\ UNCHANGED <<vars, main>>

\* The profile cannot be read: what waits for the client fails, and another call would
\* try again.
ClientFails ==
  /\ client = "resolving"
  /\ client' = "none"
  /\ IF at = "preflight" THEN Failure ELSE UNCHANGED vars
  /\ UNCHANGED main

\* Mutant: a client that is still being made is forgotten.
MayClose_AnyTime == TRUE

\* close: a creation still in flight yields a client that must close too.
MayClose == client # "resolving"

\* main's finally.
Return ==
  /\ at = "over" /\ main = "running" /\ MayClose
  /\ main' = "returned"
  /\ client' = IF client = "open" THEN "closed" ELSE client
  /\ UNCHANGED vars

\* A step of the command: all its requests go through the client, and before it has one
\* only the reading of the prompt may fail.
CommandStep ==
  /\ \/ Serve \/ Signal \/ SecondSignal
     \/ Answer /\ client = "open"
     \/ Failure /\ client # "resolving"
  /\ UNCHANGED invocation

InvocationNext == MakeClient \/ ClientMade \/ ClientFails \/ Return \/ CommandStep

InvocationSpec == InvocationInit /\ [][InvocationNext]_command

\* As in Dispatch; a profile is a file, and closing a client does not wait for its peer
\* for ever (SocketTransport).
InvocationFairness ==
  /\ WF_command(CommandStep /\ (Serve \/ Answer)) /\ WF_command(Return)
  /\ WF_command(MakeClient) /\ WF_command(ClientMade \/ ClientFails)

-----------------------------------------------------------------------------
(* Properties *)

InvocationTypeOK ==
  /\ client \in {"none", "resolving", "open", "closed"}
  /\ main \in {"running", "returned"}

\* When main has returned there is no client left, neither open nor to be made
\* (context.ts:73), and nothing was sent without one.
LeavesNothing ==
  /\ InvocationTypeOK
  /\ main = "returned" => client \in {"none", "closed"}
  /\ sent # {} => client \in {"open", "closed"}

\* main returns, unless the command is handed to the follower or killed.
MainReturns == <>(main = "returned" \/ at \in {"following", "killed"})
=============================================================================
