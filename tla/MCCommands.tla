------------------------------- MODULE MCCommands -------------------------------
(* The parts that share no state with each other, with small constants for TLC: a  *)
(* dispatch with its invocation, the editors of a scheduled task, and a viewer of  *)
(* a browser tab.  A behaviour is about one of them; the others are over.          *)
EXTENDS Invocation, Schedules, PreviewViewer

MCProjectOf == [t \in {"t1", "t2"} |-> IF t = "t1" THEN "p1" ELSE "p2"]

Webhook(s, a, f) == [type |-> "webhook", signature |-> s, age |-> a, filters |-> f]
Interval == [NoSchedule EXCEPT !.type = "interval"]

\* Every target, and schedules that set, clear or leave out each setting.
MCPatches ==
  {[NoPatch EXCEPT !.project = p, !.thread = t] :
     p \in Projects \cup {Omit}, t \in Threads \cup {Null, Omit}}
  \cup {[NoPatch EXCEPT !.enabled = "off"]}
  \cup {[NoPatch EXCEPT !.schedule = s] :
          s \in {Webhook(Omit, Omit, Omit), Webhook(Null, Omit, "set"), Webhook("s1", Null, Omit), Interval}}
MCDrafts ==
  {[project |-> p, thread |-> t, enabled |-> TRUE, schedule |-> s] :
     p \in Projects, t \in {"t1", Null}, s \in {Webhook("s1", "set", "set"), Interval}}

NoDispatch ==
  /\ given = [path |-> "create", title |-> FALSE, mode |-> FALSE, waiting |-> FALSE]
  /\ at = "killed" /\ signalled = TRUE /\ target = Unknown /\ sent = {}
  /\ server = [applied |-> {}, run |-> NoRun, interrupted |-> NoRun]
  /\ out = [exit |-> 0, error |-> "none", known |-> Unknown]
  /\ client = "none" /\ main = "running"

MCInit ==
  \/ InvocationInit /\ SchedulesInitAt("done") /\ ViewerInitAt("closed")
  \/ NoDispatch /\ SchedulesInit /\ ViewerInitAt("closed")
  \/ NoDispatch /\ SchedulesInitAt("done") /\ ViewerInit

MCNext ==
  \/ InvocationNext /\ UNCHANGED <<schedules, viewer>>
  \/ SchedulesNext /\ UNCHANGED <<command, viewer>>
  \/ ViewerNext /\ UNCHANGED <<command, schedules>>

MCSpec == MCInit /\ [][MCNext]_<<command, schedules, viewer>> /\ InvocationFairness /\ ViewerFairness
=============================================================================
