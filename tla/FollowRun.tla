-------------------------------- MODULE FollowRun --------------------------------
(***************************************************************************)
(* followRun of the CLI (execution/follow.ts) with FollowObservation and   *)
(* followSignals: a command waits for one run, answers or reports its      *)
(* requests, and ends by the run's end, a pending request, its deadline or *)
(* a signal.                                                               *)
(*                                                                         *)
(* The run is reached in one of three ways: through the TurnHandle of the  *)
(* message the command sent, by the run id a launch returned, or, for      *)
(* `thread wait`, as the active or the latest run of the thread.           *)
(*                                                                         *)
(* Signals and timers are tasks of the event loop: they run when no        *)
(* continuation is ready.  What the server sends may be in hand already,   *)
(* so it is not held back.  Text deltas, progress lines and the final      *)
(* message are left out.                                                   *)
(***************************************************************************)
EXTENDS Turn

CONSTANTS
  Follower,  \* the command's iteration of events()
  Targets,   \* the ways the run is reached, among TargetKinds
  Policies,  \* the FollowPolicy values tried
  Failures   \* the requests that may fail, among RequestKinds

TargetKinds  == {"turn", "run", "thread"}
RequestKinds == {"client", "interrupt", "respond", "read"}
OnTimeout    == {"none", "detach", "interrupt"}   \* none: no deadline

ASSUME FollowAssumption ==
  /\ Follower \in Consumers
  /\ Targets \subseteq TargetKinds /\ Failures \subseteq RequestKinds
  /\ Policies \subseteq [onTimeout : OnTimeout, onRequest : {"fail", "wait"}, approve : BOOLEAN]

VARIABLES
  target,       \* how the run is reached
  policy,
  follow,       \* where followRun stands
  pump,         \* where its loop over the items stands
  seen,         \* FollowObservation's projection and outcome
  result,       \* the ExecutionResult
  answered,     \* approvals that were answered
  interruption, \* the interrupt request
  signalled,    \* whether a signal was received
  deadline      \* whether the deadline has passed

given    == <<target, policy>>
vars     == <<log, feed, turnVars, given, follow, pump, seen, result, answered, interruption,
              signalled, deadline>>

\* `upTo` is a history: how much of the log the items observed so far reflect.
NoView == [known |-> FALSE, thread |-> EmptyThread, outcome |-> "none", upTo |-> 0]

\* A launch returned the run its message started; the watch then asks for a snapshot.
Init ==
  /\ log \in InitialLogs
  /\ target \in Targets /\ policy \in Policies
  /\ feed = NewFeed(IF target = "turn" THEN Len(log) ELSE Off)
  /\ HandleInit
  /\ target = "run" => Took(Thread) # {}
  /\ follow = [at |-> "acquiring", by |-> "none", winner |-> "none", why |-> 0,
               stopping |-> FALSE, completed |-> FALSE]
  /\ pump = [at |-> "none", open |-> {}, asked |-> {}]
  /\ seen = NoView
  /\ result = [runId |-> IF target = "run" THEN CHOOSE r \in Took(Thread) : TRUE ELSE NoRun,
               state |-> "unknown", pending |-> {}, exit |-> -1]
  /\ answered = {}
  /\ interruption = [status |-> "none", run |-> NoRun, by |-> "none", seen |-> "none", count |-> 0]
  /\ signalled = FALSE /\ deadline = FALSE

Over == follow.at = "over"

-----------------------------------------------------------------------------
(* FollowObservation.observe *)

\* activeRun
ActiveRun(p) ==
  LET active == {r \in Runs : p.runs[r] = "running"}
  IN IF active = {} THEN NoRun ELSE Max(active)

LatestRun(p) ==
  LET known == {r \in Runs : p.runs[r] # "none"} IN IF known = {} THEN NoRun ELSE Max(known)

\* The projection after an item: each event is applied, also one that a snapshot in
\* hand already reflects.
View(item) ==
  CASE item.kind = "snapshot" -> ThreadAt(log, item.at)
    [] item.kind = "event" /\ seen.known -> ApplyThreadEvent(seen.thread, log[item.at])
    [] OTHER -> seen.thread

\* Mutant: a run that starts later is taken instead.
SelectedRun_Latest(p) ==
  IF target = "turn" THEN (IF turn.runId # NoRun THEN turn.runId ELSE result.runId)
  ELSE IF ActiveRun(p) # NoRun THEN ActiveRun(p) ELSE LatestRun(p)

\* Mutant: a turn that is not linked yet takes the active run too.
SelectedRun_Guessed(p) ==
  IF turn.runId # NoRun THEN turn.runId
  ELSE IF result.runId # NoRun THEN result.runId
  ELSE IF ActiveRun(p) # NoRun THEN ActiveRun(p) ELSE LatestRun(p)

\* The run followed stays fixed once there is one.
SelectedRun(p) ==
  IF target = "turn" THEN (IF turn.runId # NoRun THEN turn.runId ELSE result.runId)
  ELSE IF result.runId # NoRun THEN result.runId
  ELSE IF ActiveRun(p) # NoRun THEN ActiveRun(p) ELSE LatestRun(p)

\* The open requests of the run, those whose item is not known yet included.
OpenRequests(p, run) ==
  {q \in Requests : /\ p.requests[q] = "pending" /\ run # NoRun
                    /\ q \in p.items => RequestRun[q] = run}

\* Mutant: only an announcement says that the run has ended.
OutcomeOf_Announced(p, run) == "none"

\* runOutcome: how the projection says that the run ended.
OutcomeOf(p, run) ==
  IF run # NoRun /\ p.runs[run] \in TerminalStatus THEN p.runs[run] ELSE "none"

\* Mutant: the settlement of another run counts.
Settles_AnyRun(item, run) == item.kind = "turn-settled"

Settles(item, run) == item.kind = "turn-settled" /\ log[item.at].id = run

\* observe, but for the error it throws: the new `seen` and `result`.
Observe(item) ==
  LET known   == seen.known \/ item.kind = "snapshot"
      p       == View(item)
      run     == IF known THEN SelectedRun(p)
                 ELSE IF target = "turn" /\ turn.runId # NoRun THEN turn.runId ELSE result.runId
      found   == known /\ run # NoRun /\ p.runs[run] # "none"
      settles == Settles(item, run)
      state   == CASE settles -> log[item.at].status
                   [] ~settles /\ found -> p.runs[run]
                   [] ~settles /\ known /\ run = NoRun /\ target # "turn" -> "idle"
                   [] OTHER -> result.state
  IN [seen   |-> [known |-> known, thread |-> p,
                  outcome |-> CASE settles -> log[item.at].status
                                [] ~settles /\ found -> OutcomeOf(p, run)
                                [] OTHER -> seen.outcome,
                  upTo    |-> Max({seen.upTo, item.at})],
      result |-> [result EXCEPT !.runId = run, !.state = state,
                                !.pending = IF known THEN OpenRequests(p, run) ELSE @]]

-----------------------------------------------------------------------------
(* Leaving: the catch and finally blocks *)

Finished(state) == state \in TerminalStatus \cup {"idle"}

\* Mutant: a failed run exits like a usage error.
ExitCodeForState_AsUsage(state) ==
  CASE state \in {"completed", "idle"} -> 0
    [] state = "failed"                -> 2
    [] OTHER                           -> 4

ExitCodeForState(state) ==
  CASE state \in {"completed", "idle"} -> 0
    [] state = "failed"                -> 3
    [] state = "interrupted"           -> 4
    [] OTHER                           -> 1

\* finally: the iterator is returned, and the signal scope closed, which aborts a
\* response in flight.
End(r, code) ==
  /\ follow' = [follow EXCEPT !.at = "over"]
  /\ result' = [r EXCEPT !.exit = code]
  /\ pump' = [pump EXCEPT !.at = IF @ \in {"pulling", "answering"} THEN "stopped" ELSE @]
  /\ channels' = [channels EXCEPT ![Follower].state = IF @ = "none" THEN @ ELSE "returned",
                                  ![Follower].buffer = <<>>]
  /\ feed' = IF target = "turn" THEN feed
             ELSE [feed EXCEPT !.state = "finished", !.out = <<>>]

Stay == UNCHANGED <<pump, channels, feed>>

\* Mutant: every caller sends a request of its own.
MayInterrupt_Again == TRUE

\* `if (interruption) return`
MayInterrupt == interruption.status = "none"

\* threads.interrupt: without a run id the library reads which run is active.  `seen` is a
\* history: what was known of the run when the interrupt was decided on.
Ask(run, by, r) ==
  interruption' = [interruption EXCEPT
    !.status = IF run = NoRun THEN "reading" ELSE "sent", !.run = run, !.by = by,
    !.seen = IF follow.at = "linking" THEN "unknown" ELSE r.state, !.count = IF run = NoRun THEN @ ELSE @ + 1]

\* interruptRun; `by` says who asks, and f is followRun as it stands.
InterruptRun(f, r, by) ==
  IF MayInterrupt
  THEN /\ Ask(r.runId, by, r)
       /\ follow' = [f EXCEPT !.at = "interrupting", !.by = by]
       /\ result' = r
       /\ Stay
  ELSE /\ End(r, 4)
       /\ UNCHANGED interruption

\* Mutant: the signal interrupts whatever run is known, or the active one.
InterruptForSignal_AtOnce(f, r) ==
  IF Finished(r.state) THEN End(r, 4) /\ UNCHANGED interruption ELSE InterruptRun(f, r, "signal")

\* Mutant: what is known of the run is not looked at.
InterruptForSignal_Always(f, r) ==
  IF target = "turn" /\ r.runId = NoRun
  THEN /\ follow' = [f EXCEPT !.at = "linking"]
       /\ result' = r /\ Stay /\ UNCHANGED interruption
  ELSE InterruptRun(f, r, "signal")

\* interruptForSignal, once the client is there: wait for the link of the run if need
\* be, then interrupt that run.
InterruptForSignal(f, r) ==
  IF Finished(r.state) THEN End(r, 4) /\ UNCHANGED interruption
  ELSE IF target = "turn" /\ r.runId = NoRun
  THEN /\ follow' = [f EXCEPT !.at = "linking"]
       /\ result' = r /\ Stay /\ UNCHANGED interruption
  ELSE InterruptRun(f, r, "signal")

\* The catch block for an error whose exit code is `code`.
Catch(f, code, interrupted) ==
  LET r == [result EXCEPT !.runId = IF turn.runId # NoRun THEN turn.runId ELSE @]
  IN IF interrupted THEN InterruptForSignal(f, r)
     ELSE End(r, code) /\ UNCHANGED interruption

-----------------------------------------------------------------------------
(* Before the race *)

StartWatch ==
  IF target = "turn"
  THEN Subscribe(Follower)
  ELSE /\ feed' = [feed EXCEPT !.state = "open"]
       /\ UNCHANGED <<log, turnVars>>

\* The client is there: the items are asked for, and the race begins.
Begin ==
  /\ follow.at = "acquiring" /\ ~signalled
  /\ StartWatch
  /\ follow' = [follow EXCEPT !.at = "racing"]
  /\ pump' = [pump EXCEPT !.at = "pulling"]
  /\ UNCHANGED <<given, seen, result, answered, interruption, signalled, deadline>>

\* A signal while the client is made: it interrupts when there is one.
BeginInterrupted ==
  /\ follow.at = "acquiring" /\ signalled
  /\ interruption.status = "none"
  /\ Ask(result.runId, "signal", result)
  /\ follow' = [follow EXCEPT !.at = "interrupting", !.by = "acquiring"]
  /\ UNCHANGED <<log, feed, turnVars, given, pump, seen, result, answered, signalled, deadline>>

ClientFails ==
  /\ "client" \in Failures /\ target = "thread" /\ follow.at = "acquiring"
  /\ End(result, IF signalled THEN 4 ELSE 8)
  /\ UNCHANGED <<log, turn, aborted, given, seen, answered, interruption, signalled, deadline>>

-----------------------------------------------------------------------------
(* The pump *)

Winner(f, reason) == IF f.winner = "none" THEN reason ELSE f.winner
Wins(reason, code) == [follow EXCEPT !.winner = Winner(follow, reason),
                                     !.why = IF follow.winner = "none" THEN code ELSE @]

\* Mutant: what was answered is remembered for the item in hand only.
ToAnswer_Again(open) == {q \in (open \ UserInputs) \ pump.asked : policy.approve}

\* The approvals the loop answers.
ToAnswer(open) == {q \in (open \ UserInputs) \ answered : policy.approve}

\* Mutant: a user-input request is reported without its questions.
Unresolved_AtOnce(open, p) == open \ answered

\* What the command cannot answer: a user-input request counts once its item, which has
\* the questions, is there.
Unresolved(open, p) == {q \in open \ answered : q \in UserInputs => q \in p.items}

\* The rest of the body once r.pending is known: answer an approval, or report what is
\* unresolved, or go on.
HandleRequests(r, p, open) ==
  LET unresolved == Unresolved(open, p)
  IN IF ToAnswer(open) # {}
     THEN \E q \in ToAnswer(open) :
            /\ answered' = answered \cup {q}
            /\ pump' = [at |-> "answering", open |-> open, asked |-> {q}]
            /\ result' = r /\ UNCHANGED follow
     ELSE /\ UNCHANGED answered
          /\ IF unresolved # {} /\ policy.onRequest = "fail"
             THEN /\ result' = [r EXCEPT !.pending = unresolved]
                  /\ pump' = [pump EXCEPT !.at = "pending", !.asked = {}]
                  /\ follow' = Wins("pending", 0)
             ELSE /\ result' = r
                  /\ pump' = [pump EXCEPT !.at = "pulling", !.asked = {}]
                  /\ UNCHANGED follow

Buffer == IF target = "turn" THEN channels[Follower].buffer ELSE feed.out

Take ==
  IF target = "turn"
  THEN channels' = [channels EXCEPT ![Follower].buffer = Tail(@)] /\ UNCHANGED feed
  ELSE feed' = [feed EXCEPT !.out = Tail(@)] /\ UNCHANGED channels

PumpItem ==
  /\ pump.at = "pulling" /\ Buffer # <<>>
  /\ Take
  /\ LET item == Head(Buffer)
         next == Observe(item)
     IN IF item.kind = "decode-error"
        THEN /\ pump' = [pump EXCEPT !.at = "error"]
             /\ follow' = Wins("error", 1)
             /\ UNCHANGED <<seen, result, answered>>
        ELSE /\ seen' = next.seen
             /\ IF next.seen.outcome # "none" \/ next.result.state = "idle"
                THEN /\ pump' = [pump EXCEPT !.at = "terminal"]
                     /\ follow' = Wins("terminal", 0)
                     /\ result' = next.result /\ UNCHANGED answered
                ELSE IF follow.stopping
                THEN result' = next.result /\ UNCHANGED <<pump, follow, answered>>
                ELSE HandleRequests(next.result, next.seen.thread, next.result.pending)
  /\ UNCHANGED <<log, turn, aborted, given, interruption, signalled, deadline>>

SourceEnded ==
  IF target = "turn" THEN channels[Follower].state = "ended" ELSE feed.state \in Endings

\* The items end: the watch ended, or threw.
PumpEnds ==
  /\ pump.at = "pulling" /\ Buffer = <<>> /\ SourceEnded
  /\ LET code == IF target # "turn" /\ feed.state = "rpc" THEN 1 ELSE 8
     IN IF seen.outcome # "none"
        THEN pump' = [pump EXCEPT !.at = "terminal"] /\ follow' = Wins("terminal", 0)
        ELSE pump' = [pump EXCEPT !.at = "error"] /\ follow' = Wins("error", code)
  /\ UNCHANGED <<log, feed, turnVars, given, seen, result, answered, interruption, signalled,
                 deadline>>

\* The response to an approval is acknowledged.
Answered ==
  /\ pump.at = "answering"
  /\ HandleRequests(result, seen.thread, pump.open)
  /\ UNCHANGED <<log, feed, turnVars, given, seen, interruption, signalled, deadline>>

AnswerFails ==
  /\ pump.at = "answering" /\ "respond" \in Failures
  /\ pump' = [pump EXCEPT !.at = "error"]
  /\ follow' = Wins("error", 1)
  /\ UNCHANGED <<log, feed, turnVars, given, seen, result, answered, interruption, signalled,
                 deadline>>

\* Mutant: a late outcome is written to a result that was returned.
TakesOutcome_Always == TRUE

\* `if (!controller.signal.aborted)`
TakesOutcome == ~Over

\* The completion promise of the handle settles.
Completes ==
  /\ target = "turn" /\ ~follow.completed /\ follow.at # "acquiring"
  /\ turn.outcome.kind # "pending"
  /\ IF turn.outcome.kind = "settled"
     THEN /\ follow' = [Wins("terminal", 0) EXCEPT !.completed = TRUE]
          /\ seen' = IF TakesOutcome THEN [seen EXCEPT !.outcome = turn.outcome.state] ELSE seen
          /\ result' = IF TakesOutcome
                       THEN [result EXCEPT !.runId = turn.outcome.run, !.state = turn.outcome.state]
                       ELSE result
     ELSE /\ follow' = [Wins("error", IF turn.outcome.state = "interrupted" THEN 4
                                      ELSE IF turn.outcome.state = "rpc" THEN 1 ELSE 8)
                         EXCEPT !.completed = TRUE]
          /\ UNCHANGED <<seen, result>>
  /\ UNCHANGED <<log, feed, turnVars, given, pump, answered, interruption, signalled, deadline>>

-----------------------------------------------------------------------------
(* After the race *)

\* The exit of a command whose deadline passed.
TimeoutExit == IF signalled THEN 4 ELSE IF policy.onTimeout = "detach" THEN 5 ELSE 6

Resume ==
  /\ follow.at = "racing" /\ follow.winner # "none"
  /\ LET f == [follow EXCEPT !.stopping = TRUE]
     IN CASE follow.winner = "signal"   -> InterruptForSignal(f, result)
          [] follow.winner = "deadline" ->
               IF policy.onTimeout = "interrupt" THEN InterruptRun(f, result, "deadline")
               ELSE End(result, TimeoutExit) /\ UNCHANGED interruption
          [] follow.winner = "pending"  -> End(result, 7) /\ UNCHANGED interruption
          [] follow.winner = "error"    -> Catch(f, follow.why, signalled)
          [] OTHER ->
               \/ End(result, ExitCodeForState(result.state)) /\ UNCHANGED interruption
               \/ /\ result.state # "idle"
                  /\ follow' = [f EXCEPT !.at = "reading"]
                  /\ Stay /\ UNCHANGED <<result, interruption>>
  /\ UNCHANGED <<log, turn, aborted, given, seen, answered, signalled, deadline>>

\* The transcript is read for the final message.
Read ==
  /\ follow.at = "reading"
  /\ \/ End(result, ExitCodeForState(result.state))
     \/ "read" \in Failures /\ End(result, 8)
  /\ UNCHANGED <<log, turn, aborted, given, seen, answered, interruption, signalled, deadline>>

\* linkedRun: the run is linked, or never will be.
Linked ==
  /\ follow.at = "linking"
  /\ \/ /\ turn.runId # NoRun
        /\ InterruptRun(follow, [result EXCEPT !.runId = turn.runId], "signal")
     \/ /\ turn.runId = NoRun /\ turn.outcome.kind = "rejected"
        /\ End(result, 4)
        /\ UNCHANGED interruption
  /\ UNCHANGED <<log, turn, aborted, given, seen, answered, signalled, deadline>>

\* The active run is read, and interrupted if there is one.
ActiveRunRead ==
  /\ interruption.status = "reading"
  /\ LET run == ActiveRun(Thread)
     IN interruption' = [interruption EXCEPT
          !.status = IF run = NoRun THEN "acked" ELSE "sent", !.run = run,
          !.count = IF run = NoRun THEN @ ELSE @ + 1]
  /\ UNCHANGED <<log, feed, turnVars, given, follow, pump, seen, result, answered, signalled,
                 deadline>>

InterruptAcked ==
  /\ interruption.status = "sent"
  /\ interruption' = [interruption EXCEPT !.status = "acked"]
  /\ UNCHANGED <<log, feed, turnVars, given, follow, pump, seen, result, answered, signalled,
                 deadline>>

InterruptFails ==
  /\ "interrupt" \in Failures /\ interruption.status \in {"reading", "sent"}
  /\ interruption' = [interruption EXCEPT !.status = "failed"]
  /\ UNCHANGED <<log, feed, turnVars, given, follow, pump, seen, result, answered, signalled,
                 deadline>>

\* Mutant: an interrupt that failed is taken for one that was acknowledged.
Acknowledged_Anyway ==
  /\ follow.at = "interrupting" /\ interruption.status \in {"acked", "failed"}
  /\ IF follow.by = "acquiring" THEN End(result, 4)
     ELSE /\ follow' = [follow EXCEPT !.at = "grace"]
          /\ Stay /\ UNCHANGED result
  /\ UNCHANGED <<log, turn, aborted, given, seen, answered, interruption, signalled, deadline>>

\* interruptRun goes on: the grace begins once the interrupt is acknowledged.
Acknowledged ==
  /\ follow.at = "interrupting" /\ interruption.status \in {"acked", "failed"}
  /\ IF follow.by = "acquiring" THEN End(result, 4)
     ELSE IF interruption.status = "failed"
     THEN End([result EXCEPT !.runId = IF turn.runId # NoRun THEN turn.runId ELSE @],
              IF follow.by = "signal" THEN 4 ELSE 8)
     ELSE /\ follow' = [follow EXCEPT !.at = "grace"]
          /\ Stay /\ UNCHANGED result
  /\ UNCHANGED <<log, turn, aborted, given, seen, answered, interruption, signalled, deadline>>

\* The end of the run is confirmed, or cannot be any more.
Confirmed ==
  /\ follow.at = "grace"
  /\ pump.at \in {"terminal", "pending", "error"} \/ follow.completed
  /\ End(result, IF follow.by = "signal" THEN 4 ELSE TimeoutExit)
  /\ UNCHANGED <<log, turn, aborted, given, seen, answered, interruption, signalled, deadline>>

-----------------------------------------------------------------------------
(* Signals and timers *)

\* A continuation is ready to run.
Ready ==
  \/ follow.at = "acquiring" /\ target # "thread"
  \/ pump.at = "pulling" /\ (Buffer # <<>> \/ SourceEnded)
  \/ turn.watch = "running" /\ (feed.out # <<>> \/ feed.state \in Endings)
  \/ turn.watch = "leaving"
  \/ target = "turn" /\ turn.outcome.kind # "pending" /\ ~follow.completed
  \/ follow.at = "racing" /\ follow.winner # "none"
  \/ follow.at = "linking" /\ (turn.runId # NoRun \/ turn.outcome.kind = "rejected")
  \/ follow.at = "interrupting" /\ interruption.status \in {"acked", "failed"}
  \/ follow.at = "grace" /\ (pump.at \in {"terminal", "pending", "error"} \/ follow.completed)

\* Mutant: the grace has no timer.
GraceEnds_Never == FALSE /\ UNCHANGED vars

GraceEnds ==
  /\ follow.at = "grace" /\ ~Ready
  /\ End(result, IF follow.by = "signal" THEN 4 ELSE TimeoutExit)
  /\ UNCHANGED <<log, turn, aborted, given, seen, answered, interruption, signalled, deadline>>

DeadlinePasses ==
  /\ policy.onTimeout # "none" /\ ~deadline /\ follow.at = "racing" /\ ~Ready
  /\ deadline' = TRUE
  /\ follow' = Wins("deadline", 0)
  /\ UNCHANGED <<log, feed, turnVars, given, pump, seen, result, answered, interruption, signalled>>

\* The first signal: whoever waits under signals.until() throws.
Signal ==
  /\ ~Over /\ ~signalled /\ ~Ready
  /\ signalled' = TRUE
  /\ CASE follow.at \in {"interrupting", "grace"} /\ follow.by = "deadline" -> Catch(follow, 4, TRUE)
       [] follow.at = "reading" -> Catch(follow, 4, TRUE)
       [] follow.at = "racing" ->
            /\ follow' = Wins("signal", 0)
            /\ pump' = [pump EXCEPT !.at = IF @ = "answering" THEN "error" ELSE @]
            /\ UNCHANGED <<result, interruption, channels, feed>>
       [] OTHER -> Stay /\ UNCHANGED <<follow, result, interruption>>
  /\ UNCHANGED <<log, turn, aborted, given, seen, answered, deadline>>

\* The second exits at once.
SecondSignal ==
  /\ signalled /\ ~Over /\ ~Ready
  /\ End(result, 4)
  /\ UNCHANGED <<log, turn, aborted, given, seen, answered, interruption, signalled, deadline>>

-----------------------------------------------------------------------------
mine == <<given, follow, pump, seen, result, answered, interruption, signalled, deadline>>

\* A timer or signal has just run: nothing is delivered before its continuation.
Interrupted == follow.at = "racing" /\ follow.winner \in {"deadline", "signal"}

Server    == Emit /\ ~Over /\ UNCHANGED <<turnVars, mine>>
Stops     == FeedStops /\ ~Over /\ ~Interrupted /\ UNCHANGED <<turnVars, mine>>
Loads     == FeedLoads /\ ~Interrupted /\ UNCHANGED <<turnVars, mine>>
Snapshots == FeedSnapshot /\ ~Interrupted /\ UNCHANGED <<turnVars, mine>>
Delivers  == FeedEvent /\ ~Interrupted /\ UNCHANGED <<turnVars, mine>>
Handle    == (Track \/ Leave \/ WatchStops) /\ UNCHANGED mine
Main      == Begin \/ BeginInterrupted \/ Resume \/ Read \/ Linked \/ Acknowledged \/ Confirmed
Pump      == PumpItem \/ PumpEnds \/ (Answered /\ ~Interrupted) \/ Completes
Replies   == ActiveRunRead \/ InterruptAcked
Refusals  == ClientFails \/ (AnswerFails /\ ~Interrupted) \/ InterruptFails
Next      == \/ Server \/ Stops \/ Loads \/ Snapshots \/ Delivers \/ Handle \/ Main \/ Pump \/ Replies \/ Refusals
             \/ GraceEnds \/ DeadlinePasses \/ Signal \/ SecondSignal

Spec     == Init /\ [][Next]_vars
\* Continuations run, requests are answered, the watch hands over what there is and the
\* grace timer fires.  Nothing makes a deadline pass or a run end.
Progress == \/ Main \/ Pump \/ Handle \/ Replies \/ GraceEnds
            \/ Loads \/ (Snapshots /\ ~feed.seeded) \/ Delivers
FairSpec == Spec /\ WF_vars(Progress)

-----------------------------------------------------------------------------
(* Properties *)

FollowStates == {"acquiring", "racing", "linking", "interrupting", "grace", "reading", "over"}

\* Every variable keeps to its type.
TypeOK ==
  /\ FeedTypeOK
  /\ follow.at \in FollowStates
  /\ follow.winner \in {"none", "terminal", "pending", "deadline", "signal", "error"}
  /\ pump.at \in {"none", "pulling", "answering", "terminal", "pending", "error", "stopped"}
  /\ result.runId \in Runs \cup {NoRun}
  /\ result.state \in RunStatus \cup {"unknown", "idle"}
  /\ result.pending \subseteq Requests /\ answered \subseteq Requests \ UserInputs
  /\ result.exit \in {-1, 0, 1, 3, 4, 5, 6, 7, 8} /\ (Over <=> result.exit # -1)
  /\ interruption.status \in {"none", "reading", "sent", "acked", "failed"}
  /\ interruption.run \in Runs \cup {NoRun} /\ interruption.count \in Nat

\* An exit that speaks of the run's end is true of the run the result names, whatever
\* raced with it: 0 is completed or a thread without runs, 3 is failed, and 4 without a
\* signal is interrupted or a handle that was (policy.md:96-108, errors.ts:47-61).
ExitTellsTheTruth ==
  /\ result.exit = 0 => \/ result.state = "idle"
                        \/ result.runId # NoRun /\ Thread.runs[result.runId] = "completed"
  /\ result.exit = 3 => Thread.runs[result.runId] = "failed"
  /\ result.exit = 4 /\ ~signalled =>
       \/ turn.outcome = RejectedAs("interrupted")
       \/ Thread.runs[result.runId] = "interrupted"

\* The run a command reports and interrupts is the run its message went to
\* (dispatch.ts:131-132).
ReportsOurRun == target # "thread" /\ result.runId # NoRun => result.runId \in Took(Thread)

\* The selected run stays fixed, though another run starts in the thread or the link of
\* the message is told again (followObservation.ts:17).
SelectionIsFixed == [][result.runId # NoRun => result'.runId = result.runId]_vars

\* A signal that finds the command at work makes its exit 4, also in the grace of a
\* deadline, during a read and while a client is made (policy.md:78-82).
SignalExits == Over /\ signalled => result.exit = 4

\* However a deadline, a signal and their failures follow each other, the run is
\* interrupted at most once (follow.ts:118-119).
InterruptedOnce == interruption.count <= 1

\* No interrupt is decided on for a run that is known to have ended (policy.md:79-80); one
\* whose end shows while its link is waited for is interrupted all the same.
InterruptIsWarranted == interruption.status # "none" => ~Finished(interruption.seen)

\* An interrupt for a signal goes to the very run that took the message, which the
\* command waits to learn (policy.md:71-74).
SignalInterruptsOurRun ==
  target # "thread" /\ interruption.by = "signal" /\ interruption.run # NoRun
    => interruption.run \in Took(Thread)

\* Exit 6 says that the interrupt the deadline asked for was acknowledged; one that failed
\* keeps its own exit (policy.md:58-61).
TimeoutInterrupted ==
  result.exit = 6 => interruption.by = "deadline" /\ interruption.status = "acked"

\* Every exit that speaks of the run, a signal or a timeout is true.
ExitIsTrue == ExitTellsTheTruth /\ SignalExits /\ TimeoutInterrupted

\* The run is interrupted for cause, once, and no other run for a signal.
InterruptsAreSound == InterruptedOnce /\ InterruptIsWarranted /\ SignalInterruptsOurRun

\* The timeout's interrupt stops the run that the command waited for (policy.md:104).
TimeoutInterruptsOurRun ==
  target = "turn" /\ result.exit = 6 /\ interruption.run # NoRun
    => interruption.run \in Took(Thread)

\* A request is reported as pending only if nothing the command was shown before has it
\* resolved (policy.md:38-39, threadWatch.ts:112-114).
PendingIsNews ==
  result.exit = 7 =>
    \A q \in result.pending : ThreadAt(log, seen.upTo).requests[q] = "pending"

\* What is reported as pending needs the caller: it was not answered for it, and a
\* user-input request has its questions (policy.md:86-91).
PendingNeedsCaller ==
  result.exit = 7 => /\ result.pending # {} /\ result.pending \cap answered = {}
                     /\ policy.onRequest = "fail"
                     /\ result.pending \cap UserInputs \subseteq Thread.items

\* An approval is answered once (follow.ts:86-89).
AnsweredOnce == [][\A q \in Requests : pump'.asked = {q} /\ pump.asked # {q} => q \notin answered]_vars

\* A result that was returned does not change, though its turn goes on
\* (followErrors.test.ts:158).
ResultIsFinal == [][Over => result' = result]_vars

\* What the command says of its run it does not take back.
ResultStands == ResultIsFinal /\ SelectionIsFixed

\* A command ends once its run has, whatever it was doing.
RunEndEnds ==
  (/\ follow.at # "acquiring" /\ result.runId # NoRun
   /\ Thread.runs[result.runId] \in TerminalStatus) ~> Over

\* A deadline that passes ends the command within a grace, or a signal took over and
\* waits for the link of its run (policy.md:53-60, 76).
DeadlineEnds == deadline ~> (Over \/ follow.at = "linking")

\* A signal ends a command whose message is linked to a run, or whose watch has ended
\* (policy.md:71-76).
SignalEnds == (signalled /\ (target = "turn" => Took(Thread) # {})) ~> Over

\* A command ends.
CommandEnds == RunEndEnds /\ DeadlineEnds /\ SignalEnds

\* The command has to do with its own run alone: it reports it by one of its exit codes,
\* and interrupts it for cause.
OwnRunOnly == TypeOK /\ ReportsOurRun /\ InterruptsAreSound

\* Each open request is answered for the caller once, or put to the caller.
RequestsHandled == []PendingNeedsCaller /\ AnsweredOnce
=============================================================================
