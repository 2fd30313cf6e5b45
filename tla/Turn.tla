---------------------------------- MODULE Turn ----------------------------------
(***************************************************************************)
(* TurnHandle (api/turns.ts) and TurnAdoption (api/turnAdoption.ts): the   *)
(* message is sent, and the handle follows the thread until the run that   *)
(* took it settles.  One background watch feeds the completion promise and *)
(* every iteration of events().                                            *)
(*                                                                         *)
(* Tracking an item is one step: the channels are pushed to, and the item  *)
(* looked at, before any consumer's continuation can run.                  *)
(***************************************************************************)
EXTENDS ThreadFeed

CONSTANTS
  Consumers,   \* iterations of events()
  HasSignal    \* whether the caller gave a signal

ASSUME TurnAssumption == HasSignal \in BOOLEAN

VARIABLES
  turn,      \* the handle: its watch, the run it follows and its outcome
  channels,  \* one per iteration of events()
  aborted    \* the caller's signal

turnVars == <<turn, channels, aborted>>
feedAndTurn == <<log, feed, turnVars>>

Pending == [kind |-> "pending", run |-> NoRun, state |-> "none"]
SettledAs(r, s) == [kind |-> "settled", run |-> r, state |-> s]
RejectedAs(why) == [kind |-> "rejected", run |-> NoRun, state |-> why]

\* `early` and `last` are histories: whether it was there before the turn was done,
\* and the last item pushed to it.
NewChannel == [state |-> "none", buffer |-> <<>>, early |-> FALSE, last |-> Item("none", 0)]

HandleInit ==
  /\ turn = [watch |-> "idle", runId |-> NoRun, done |-> FALSE, outcome |-> Pending]
  /\ channels = [c \in Consumers |-> NewChannel]
  /\ aborted = FALSE

\* The receipt of the dispatch is the sequence of the last event it produced.
TurnInit ==
  /\ log \in InitialLogs
  /\ feed = NewFeed(Len(log))
  /\ HandleInit

-----------------------------------------------------------------------------
(* TurnAdoption *)

\* Mutant: while no run is linked, the run that is active is taken.
Seed_GuessesTheActiveRun(runId, p) ==
  IF Took(p) # {} THEN CHOOSE r \in Took(p) : TRUE
  ELSE IF \E r \in Runs : p.runs[r] = "running" THEN CHOOSE r \in Runs : p.runs[r] = "running"
  ELSE runId

\* seed: what a snapshot says of our message's run.
Seed(runId, p) == IF Took(p) # {} THEN CHOOSE r \in Took(p) : TRUE ELSE runId

\* onEvent
OnEvent(runId, e) ==
  IF e.type = "message" \/ (e.type = "run" /\ e.id \in OurRuns) THEN e.id ELSE runId

\* The run followed once an item has been looked at.
Adopt(runId, item) ==
  CASE item.kind = "snapshot" -> Seed(runId, ThreadAt(log, item.at))
    [] item.kind = "event"    -> OnEvent(runId, log[item.at])
    [] OTHER                  -> runId

\* Mutant: only an announcement settles the turn.
OutcomeAfter_Announced(item, runId) ==
  IF item.kind = "turn-settled" /\ log[item.at].id = runId
  THEN SettledAs(runId, log[item.at].status) ELSE Pending

\* Mutant: any run that settles settles the turn.
OutcomeAfter_AnyRun(item, runId) ==
  IF item.kind = "turn-settled" THEN SettledAs(log[item.at].id, log[item.at].status) ELSE Pending

\* The outcome an item brings for the run followed.
OutcomeAfter(item, runId) ==
  CASE item.kind = "snapshot" /\ runId \in Settled(ThreadAt(log, item.at)) ->
         SettledAs(runId, ThreadAt(log, item.at).runs[runId])
    [] item.kind = "turn-settled" /\ log[item.at].id = runId ->
         SettledAs(runId, log[item.at].status)
    [] OTHER -> Pending

-----------------------------------------------------------------------------
(* The handle *)

\* #start, which a second call finds done already.
Start ==
  IF turn.watch # "idle" THEN UNCHANGED <<turn, feed>>
  ELSE /\ turn' = [turn EXCEPT !.watch = "running"]
       /\ feed' = [feed EXCEPT !.state = IF aborted THEN "finished" ELSE "open"]

ReadCompletion ==
  /\ turn.watch = "idle"
  /\ Start
  /\ UNCHANGED <<log, channels, aborted>>

\* Mutant: a channel made after the turn is done is left open.
Subscribe_AfterTheEnd(c) ==
  /\ channels[c].state = "none"
  /\ channels' = [channels EXCEPT ![c].state = "open", ![c].early = ~turn.done]
  /\ Start
  /\ UNCHANGED <<log, aborted>>

\* #subscribe
Subscribe(c) ==
  /\ channels[c].state = "none"
  /\ IF turn.done
     THEN /\ channels' = [channels EXCEPT ![c].state = "ended"]
          /\ UNCHANGED <<turn, feed>>
     ELSE /\ channels' = [channels EXCEPT ![c].state = "open", ![c].early = TRUE]
          /\ Start
  /\ UNCHANGED <<log, aborted>>

\* A consumer takes the next item of its channel.
TakeItem(c) ==
  /\ channels[c].state \in {"open", "ended"} /\ channels[c].buffer # <<>>
  /\ channels' = [channels EXCEPT ![c].buffer = Tail(@)]
  /\ UNCHANGED <<log, feed, turn, aborted>>

\* It leaves the loop: onReturn drops the channel from the subscribers.
Return(c) ==
  /\ channels[c].state \in {"open", "ended"}
  /\ channels' = [channels EXCEPT ![c].state = "returned", ![c].buffer = <<>>]
  /\ UNCHANGED <<log, feed, turn, aborted>>

Push(item) ==
  [c \in Consumers |->
     IF channels[c].state = "open"
     THEN [channels[c] EXCEPT !.buffer = Append(@, item), !.last = item]
     ELSE channels[c]]

\* Mutant: an item is looked at first, and the one that settles is not passed on.
Pushed_UnlessItSettles(item, outcome) == IF outcome = Pending THEN Push(item) ELSE channels

\* The channels once an item has been passed on.
Pushed(item, outcome) == Push(item)

\* The body of #run's loop, for one item.
Track ==
  /\ turn.watch = "running" /\ feed.out # <<>>
  /\ LET item    == Head(feed.out)
         runId   == Adopt(turn.runId, item)
         outcome == OutcomeAfter(item, runId)
         settles == outcome # Pending
     IN /\ turn' = [turn EXCEPT !.runId = runId, !.done = settles, !.outcome = outcome,
                                !.watch = IF settles THEN "leaving" ELSE "running"]
        /\ channels' = Pushed(item, outcome)
  /\ feed' = [feed EXCEPT !.out = Tail(@)]
  /\ UNCHANGED <<log, aborted>>

\* Mutant: the finally block forgets the consumers.
EndChannels_Clears == [c \in Consumers |->
  IF channels[c].state = "open" THEN [channels[c] EXCEPT !.buffer = <<>>] ELSE channels[c]]

EndChannels == [c \in Consumers |->
  IF channels[c].state = "open" THEN [channels[c] EXCEPT !.state = "ended"] ELSE channels[c]]

\* Mutant: what comes after the loop fails the turn again.
Leave_Fails ==
  /\ turn.watch = "leaving"
  /\ turn' = [turn EXCEPT !.watch = "over", !.outcome = RejectedAs("interrupted")]
  /\ channels' = EndChannels
  /\ feed' = [feed EXCEPT !.state = "finished", !.out = <<>>]
  /\ UNCHANGED <<log, aborted>>

\* #run's finally block, once the watch it broke out of has returned.
Leave ==
  /\ turn.watch = "leaving"
  /\ turn' = [turn EXCEPT !.watch = "over"]
  /\ channels' = EndChannels
  /\ feed' = [feed EXCEPT !.state = "finished", !.out = <<>>]
  /\ UNCHANGED <<log, aborted>>

\* Mutant: a watch that returns does not fail the turn.
WatchStops_Quietly ==
  /\ turn.watch = "running" /\ feed.out = <<>> /\ feed.state \in Endings
  /\ turn' = IF feed.state = "finished" THEN [turn EXCEPT !.watch = "over"]
             ELSE [turn EXCEPT !.watch = "over", !.done = TRUE, !.outcome = RejectedAs(feed.state)]
  /\ channels' = EndChannels
  /\ UNCHANGED <<log, feed, aborted>>

\* The watch returns, or throws: #fail and the finally block.
WatchStops ==
  /\ turn.watch = "running" /\ feed.out = <<>> /\ feed.state \in Endings
  /\ turn' = [turn EXCEPT !.watch = "over", !.done = TRUE,
                          !.outcome = RejectedAs(IF feed.state = "finished" THEN "interrupted"
                                                 ELSE feed.state)]
  /\ channels' = EndChannels
  /\ UNCHANGED <<log, feed, aborted>>

\* Mutant: the watch is not told of the signal.
Abort_TurnOnly ==
  /\ HasSignal /\ ~aborted
  /\ aborted' = TRUE
  /\ UNCHANGED <<log, feed, turn, channels>>

\* The caller's signal reaches the watch through #controller.
Abort ==
  /\ HasSignal /\ ~aborted
  /\ aborted' = TRUE
  /\ feed' = [feed EXCEPT !.state = IF @ = "open" THEN "finished" ELSE @]
  /\ UNCHANGED <<log, turn, channels>>

World == (Emit \/ FeedStops) /\ turn.watch # "over" /\ UNCHANGED turnVars
Reads == Feeds /\ UNCHANGED turnVars
User  == ReadCompletion \/ Abort \/ \E c \in Consumers : Subscribe(c) \/ TakeItem(c) \/ Return(c)
Work  == Track \/ Leave \/ WatchStops
TurnNext  == World \/ Reads \/ User \/ Work

TurnSpec     == TurnInit /\ [][TurnNext]_feedAndTurn
\* The watch hands over what the server sends; the handle takes what it is given.
TurnFairSpec == TurnSpec /\ WF_feedAndTurn(FeedLoads /\ UNCHANGED turnVars)
                 /\ WF_feedAndTurn(FeedEvent /\ UNCHANGED turnVars) /\ WF_feedAndTurn(Work)

-----------------------------------------------------------------------------
(* Properties *)

Outcomes == {Pending} \cup {SettledAs(r, s) : r \in Runs, s \in TerminalStatus}
              \cup {RejectedAs(w) : w \in {"interrupted", "connection", "rpc"}}

\* Every variable keeps to its type.
TurnTypeOK ==
  /\ FeedTypeOK
  /\ turn.watch \in {"idle", "running", "leaving", "over"}
  /\ turn.runId \in Runs \cup {NoRun} /\ turn.outcome \in Outcomes
  /\ turn.done <=> turn.outcome # Pending
  /\ turn.watch = "over" => turn.done
  /\ \A c \in Consumers : channels[c].state \in {"none", "open", "ended", "returned"}

\* The handle only follows the run that the server linked our message to, and its
\* outcome is how that run really ended, whatever other runs of the thread do
\* meanwhile (turnAdoption.ts:4-8).
FollowsOurRun ==
  /\ turn.runId # NoRun => turn.runId \in Took(Thread)
  /\ turn.outcome.kind = "settled" =>
       /\ turn.outcome.run \in Took(Thread)
       /\ turn.outcome.state = Thread.runs[turn.outcome.run]

\* When the turn is over no consumer is left waiting for an item that never comes,
\* also one that came while the watch was returning (turns.ts:155-166, 206-210).
ConsumersReleased == turn.watch = "over" => \A c \in Consumers : channels[c].state # "open"

SettlingItem(item) == item.kind # "none" /\ OutcomeAfter(item, turn.outcome.run) = turn.outcome

\* A consumer that was there when the run settled was given the item that says so, and
\* nothing after it (turns.ts:80-85).
LastItemSettles ==
  \A c \in Consumers :
    channels[c].state = "ended" /\ channels[c].early /\ turn.outcome.kind = "settled"
      => SettlingItem(channels[c].last)

\* The consumers of events() are served to the end, and released, and the handle ends
\* with its watch.
ConsumersServed == TurnTypeOK /\ ConsumersReleased /\ LastItemSettles

\* The completion promise settles once and for good.
OutcomeIsFinal == [][turn.outcome # Pending => turn'.outcome = turn.outcome]_feedAndTurn

OurRunIsTerminal == \E r \in Took(Thread) : Thread.runs[r] \in TerminalStatus

\* The completion of a turn that is followed settles once the run that took the message
\* has ended, or the watch has (turns.ts:86-87).
CompletionSettles == (turn.watch # "idle" /\ OurRunIsTerminal) ~> turn.done

\* An aborted turn settles, whether or not its run ever ends (turns.ts:169-171).
AbortSettles == (turn.watch # "idle" /\ aborted) ~> turn.done

\* A turn settles.
TurnSettles == CompletionSettles /\ AbortSettles

\* A turn settles, and once.
SettlesOnce == OutcomeIsFinal /\ TurnSettles
=============================================================================
