-------------------------------- MODULE Dispatch --------------------------------
(***************************************************************************)
(* The dispatch pipeline of `run`, `thread start` and `thread send`:       *)
(* dispatchHandler (execution/run.ts), dispatchPrompt and dispatchedRunId  *)
(* (execution/dispatch.ts), the signal scope, and the library calls they   *)
(* send.  A prompt goes to an existing thread, to a thread created in the  *)
(* project's root, or to a thread launched in a worktree.                  *)
(*                                                                         *)
(* An answer and what runs after it, up to the next request, are one step: *)
(* a signal is a task of the event loop of its own.  The reads before the  *)
(* first mutation are one wait, because each is raced with the signal in   *)
(* the same way.  Turn models the handle that links the run, and FollowRun *)
(* what a waiting command does from `following` on.                        *)
(***************************************************************************)
EXTENDS Naturals, FiniteSets

CONSTANT Runs   \* the runs the server may give the message to

NoRun == 0
Paths == {"existing", "create", "launch"}

ASSUME DispatchAssumption == Runs \subseteq Nat \ {NoRun}

VARIABLES
  given,      \* the command's options
  at,         \* what the pipeline awaits
  signalled,  \* signals.interrupted
  target,     \* what dispatchPrompt has told the handler to remember
  sent,       \* the mutations sent
  server,     \* the mutations applied, our message's run and the run interrupted
  out         \* the envelope

vars == <<given, at, signalled, target, sent, server, out>>

Mutations == {"title", "create", "mode", "message", "launch", "interrupt"}
Reads     == {"preflight", "shell", "linking"}
Ends      == {"following", "over", "killed"}   \* followed from here, finished, second signal

Unknown == [thread |-> FALSE, mode |-> FALSE, run |-> NoRun]

Init ==
  /\ given \in [path : Paths, title : BOOLEAN, mode : BOOLEAN, waiting : BOOLEAN]
  /\ at = "preflight"
  /\ signalled = FALSE
  /\ target = Unknown
  /\ sent = {}
  /\ server = [applied |-> {}, run |-> NoRun, interrupted |-> NoRun]
  /\ out = [exit |-> 0, error |-> "none", known |-> Unknown]

-----------------------------------------------------------------------------
(* Ending *)

\* exitCodeFor
ExitCodeFor(error) ==
  CASE error = "interrupted"  -> 4
    [] error = "precondition" -> 2
    [] error = "missing"      -> 10
    [] OTHER                  -> 8

\* Mutant: the error decides also after a signal.
Catch_ByError(error, sig, t) ==
  /\ at' = "over"
  /\ out' = [exit |-> ExitCodeFor(error), error |-> error, known |-> t]
  /\ target' = t
  /\ UNCHANGED sent

\* The handler's catch block, and main's for an error before there is a target.
Catch(error, sig, t) ==
  /\ at' = "over"
  /\ out' = [exit |-> IF sig THEN 4 ELSE ExitCodeFor(error), error |-> error, known |-> t]
  /\ target' = t
  /\ UNCHANGED sent

-----------------------------------------------------------------------------
(* The pipeline *)

Send(m, t) ==
  /\ at' = m
  /\ sent' = sent \cup {m}
  /\ target' = t
  /\ UNCHANGED out

Await(r) ==
  /\ at' = r
  /\ UNCHANGED <<sent, target, out>>

\* Mutant: a signal no longer stops the pipeline between its mutations.
Unless_Never(Step) == Step

\* `if (signals?.interrupted) throw`
Unless(Step) ==
  IF signalled THEN Catch("interrupted", TRUE, target) ELSE Step

\* threads.startTurn: only a continuation names a mode, creation carried it before.
StartTurn ==
  LET t == [target EXCEPT !.thread = TRUE, !.mode = given.mode]
  IN Send(IF given.path = "existing" /\ given.mode THEN "mode" ELSE "message", t)

\* Mutant: the mode is remembered with the thread, before it is sent.
Begin_ModeFirst ==
  IF given.path = "existing" /\ given.title
  THEN Send("title", [Unknown EXCEPT !.thread = TRUE, !.mode = given.mode])
  ELSE IF given.path = "existing" THEN StartTurn
  ELSE Send(given.path, [Unknown EXCEPT !.thread = TRUE, !.mode = given.mode])

\* The first mutation, once all selections are made.
Begin ==
  IF given.path = "existing" /\ given.title
  THEN Send("title", [Unknown EXCEPT !.thread = TRUE])
  ELSE IF given.path = "existing" THEN StartTurn
  ELSE Send(given.path, [Unknown EXCEPT !.thread = TRUE, !.mode = given.mode])

\* Mutant: a signal during a nonwaiting start is reported, the run left alone.
Handle_NonwaitingFinishes(t) ==
  CASE ~given.waiting -> /\ at' = "over"
                         /\ out' = [exit |-> 0, error |-> "none", known |-> t]
                         /\ target' = t /\ UNCHANGED sent
    [] given.waiting /\ signalled -> Send("interrupt", t)
    [] OTHER -> at' = "following" /\ target' = t /\ UNCHANGED <<sent, out>>

\* The handler, once it knows the run or need not know it.
Handle(t) ==
  CASE signalled -> Send("interrupt", t)
    [] ~signalled /\ given.waiting ->
         at' = "following" /\ target' = t /\ UNCHANGED <<sent, out>>
    [] OTHER -> /\ at' = "over"
                /\ out' = [exit |-> 0, error |-> "none", known |-> t]
                /\ target' = t /\ UNCHANGED sent

\* Mutant: a waiting command leaves the link to the follower.
AfterReceipt_Follows == IF given.waiting THEN Handle(target) ELSE Await("linking")

\* The handle is returned: a follower links the run itself, else dispatchedRunId does.
AfterReceipt == IF given.waiting /\ ~signalled THEN Handle(target) ELSE Await("linking")

\* Mutant: the newest run is taken for the linked one.
LinkOfLaunch_Newest(r) == r \in Runs

\* The projection a launch returns links its user message, or does not yet.
LinkOfLaunch(r) == r = server.run

AfterLaunch ==
  \/ \E r \in Runs : LinkOfLaunch(r) /\ Handle([target EXCEPT !.run = r])
  \/ Catch("precondition", signalled, target)

-----------------------------------------------------------------------------
(* The server and the answers *)

\* A request is carried out, also when its answer is never received.
Apply(m) ==
  /\ m \in sent \ server.applied
  /\ server' = [server EXCEPT !.applied = @ \cup {m},
                              !.interrupted = IF m = "interrupt" THEN target.run ELSE @]
  /\ UNCHANGED <<given, at, signalled, target, sent, out>>

\* The message is given a run, its own or, when it steers, one that is there.
TakeRun ==
  /\ server.run = NoRun /\ server.applied \cap {"message", "launch"} # {}
  /\ \E r \in Runs : server' = [server EXCEPT !.run = r]
  /\ UNCHANGED <<given, at, signalled, target, sent, out>>

\* The reads before the first mutation are done.
Ready == at = "preflight" /\ Unless(Begin)

\* The receipt of a mutation.
Receipt ==
  /\ at \in Mutations /\ at \in server.applied
  /\ CASE at = "title"     -> Unless(StartTurn)
       [] at = "create"    -> Await("shell")
       [] at = "mode"      -> Send("message", target)
       [] at = "message"   -> AfterReceipt
       [] at = "launch"    -> AfterLaunch
       [] at = "interrupt" -> Catch("interrupted", TRUE, target)

\* threads.create reads the created thread back.
ShellRead ==
  /\ at = "shell"
  /\ Unless(StartTurn) \/ Catch("precondition", signalled, target)

\* Mutant: the signal also ends the watch the link comes from.
Linked_UnlessSignalled ==
  /\ at = "linking" /\ server.run # NoRun /\ ~signalled
  /\ Handle([target EXCEPT !.run = server.run])

\* dispatchedRunId: an item, or the completion, carries the run.
Linked ==
  /\ at = "linking" /\ server.run # NoRun
  /\ Handle([target EXCEPT !.run = server.run])

\* What is awaited fails: a refusal, a lost connection, a missing resource.
Fails ==
  /\ at \in Mutations \cup Reads
  /\ \E error \in {"connection"} \cup (IF at = "preflight" THEN {"missing"} ELSE {}) :
       Catch(error, signalled, target)

Answer  == (Ready \/ Receipt \/ ShellRead \/ Linked) /\ UNCHANGED <<given, signalled, server>>
Failure == Fails /\ UNCHANGED <<given, signalled, server>>

\* onSignal: only what runs under `until` is given up.
Signal ==
  /\ at \notin Ends /\ ~signalled
  /\ signalled' = TRUE
  /\ IF at = "preflight" THEN Catch("interrupted", TRUE, target)
     ELSE UNCHANGED <<at, target, sent, out>>
  /\ UNCHANGED <<given, server>>

\* process.exit
SecondSignal ==
  /\ at \notin Ends /\ signalled
  /\ at' = "killed"
  /\ UNCHANGED <<given, signalled, target, sent, server, out>>

Serve == TakeRun \/ \E m \in Mutations : Apply(m)
Next  == Serve \/ Answer \/ Failure \/ Signal \/ SecondSignal

Spec     == Init /\ [][Next]_vars
\* The server carries requests out, gives the message a run and answers, unless the
\* connection fails: then what is awaited fails (RpcConnection).
FairSpec == Spec /\ WF_vars(Serve) /\ WF_vars(Answer)

-----------------------------------------------------------------------------
(* Properties *)

Known == [thread : BOOLEAN, mode : BOOLEAN, run : Runs \cup {NoRun}]

\* Every variable keeps to its type, and nothing is applied that was not sent.
TypeOK ==
  /\ given \in [path : Paths, title : BOOLEAN, mode : BOOLEAN, waiting : BOOLEAN]
  /\ at \in Mutations \cup Reads \cup Ends
  /\ signalled \in BOOLEAN
  /\ target \in Known /\ out.known \in Known
  /\ sent \subseteq Mutations /\ server.applied \subseteq sent
  /\ server.run \in Runs \cup {NoRun} /\ server.interrupted \in Runs \cup {NoRun}
  /\ out.exit \in {0, 2, 4, 8, 10}

Starts == {"message", "launch"}
Over   == at = "over"

\* The run that is reported and interrupted is the one the server linked to our
\* message, and it is interrupted only for a signal (dispatch.ts:131-132).
OnlyOurRun ==
  /\ target.run # NoRun => target.run = server.run
  /\ "interrupt" \in sent => signalled /\ target.run # NoRun
  /\ server.interrupted \in {NoRun, server.run}

\* What the envelope says of thread, mode and run is what was sent, also when a request
\* failed on the way (docs/user/t3c/policy.md:29-38).
EnvelopeIsTrue ==
  Over =>
    /\ out.known.thread <=> sent # {}
    /\ out.known.mode   <=> given.mode /\ sent \cap {"mode", "create", "launch"} # {}
    /\ out.known.run # NoRun => sent \cap Starts # {} /\ out.known.run = server.run
    /\ out.exit = 0 => server.applied = sent /\ out.known.run = server.run /\ server.run # NoRun

\* A command that was interrupted while nothing failed has stopped the run it started,
\* and exits 4 in any case (docs/user/t3c/policy.md:66-76).
SignalStopsRun ==
  Over /\ signalled =>
    /\ out.exit = 4
    /\ out.error = "interrupted" /\ sent \cap Starts # {}
         => server.interrupted = server.run /\ server.run # NoRun

\* Whose run is stopped, and when.
StopsOwnRun == OnlyOurRun /\ SignalStopsRun

\* After a signal only the interrupt is sent, but for the message of a turn whose mode
\* is being set (dispatch.ts:90, threadTurnStart.ts:51-90).
StopsAfterSignal ==
  [][signalled => sent' \ sent \subseteq
       {"interrupt"} \cup (IF at = "mode" THEN {"message"} ELSE {})]_vars

\* The same without the exception, as the comment and the user guide have it.
SignalPreventsMutations == [][signalled => sent' \ sent \subseteq {"interrupt"}]_vars

\* The command ends, or is handed to the follower, whatever is lost on the way.
CommandEnds == <>(at \in Ends)
=============================================================================
