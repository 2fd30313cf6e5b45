------------------------------- MODULE Schedules -------------------------------
(***************************************************************************)
(* ScheduledTasksApi (api/scheduledTasks.ts, api/scheduledTaskUpdate.ts)   *)
(* and the schedule commands that call it (automation/schedule.ts,         *)
(* automation/scheduleResolve.ts).  The server replaces a whole task on    *)
(* every upsert, so an update reads the task, lays its patch over it,      *)
(* checks the target when that changed, and saves the result, while other  *)
(* clients write the same task.                                            *)
(*                                                                         *)
(* The properties that the patch carries and the server stores one by one  *)
(* (title, prompt, model, modes, workspace) are all treated alike:         *)
(* `enabled` stands for them.  `filters` stands for the dedupe keys too.   *)
(***************************************************************************)
EXTENDS Naturals, FiniteSets

CONSTANTS
  Projects, Threads,
  ProjectOf,               \* the project of each thread, which never changes
  Signatures, Unsendable,  \* webhook signatures; those in an encoding unknown to this client
  Editors,                 \* clients at work on the task, each with one operation
  Patches, Drafts          \* bounds: the patches and the new tasks tried

Null == "null"   \* an explicit null: cleared, or a new thread per run
Omit == "omit"   \* a property that the payload leaves out

ASSUME SchedulesAssumption ==
  /\ ProjectOf \in [Threads -> Projects]
  /\ Unsendable \subseteq Signatures
  /\ {Null, Omit} \cap (Projects \cup Threads \cup Signatures) = {}

VARIABLES
  task,     \* the stored task, or None
  made,     \* whether it was ever created
  editors   \* what each editor awaits, with its payload

schedules == <<task, made, editors>>

None == [kind |-> "none"]

\* A stored task; a trigger of another type than webhook keeps no webhook settings.
Triggers == [type : {"webhook"}, signature : Signatures \cup {Null}, age : {"set", Null}, filters : {"set", Null}]
            \cup [type : {"interval", "unknown"}, signature : {Null}, age : {Null}, filters : {Null}]
Tasks    == [kind : {"task"}, project : Projects, thread : Threads \cup {Null}, enabled : BOOLEAN,
             trigger : Triggers]

\* ScheduledTaskUpsertSchedule: the server sets an omitted signature or age to null and
\* keeps omitted filters.
Schedule == [type : {"webhook"}, signature : (Signatures \ Unsendable) \cup {Null, Omit},
             age : {"set", Null, Omit}, filters : {"set", Null, Omit}]
            \cup [type : {"interval"}, signature : {Omit}, age : {Omit}, filters : {Omit}]

NoSchedule == [type |-> Omit, signature |-> Omit, age |-> Omit, filters |-> Omit]

\* ScheduledTaskPatch
Patch == [project : Projects \cup {Omit}, thread : Threads \cup {Null, Omit},
          enabled : {"on", "off", Omit}, schedule : Schedule \cup {NoSchedule}]

\* ScheduledTaskUpsertInput
Inputs == [project : Projects, thread : Threads \cup {Null}, enabled : BOOLEAN, schedule : Schedule]

ASSUME TriedAssumption == Patches \subseteq Patch /\ Drafts \subseteq Inputs

NoPatch == [project |-> Omit, thread |-> Omit, enabled |-> Omit, schedule |-> NoSchedule]

Else(given, kept) == IF given = Omit THEN kept ELSE given

-----------------------------------------------------------------------------
(* scheduledTaskUpdateInput *)

\* Mutant: a webhook patch is sent as it is.
UpdatedSchedule_AsGiven(stored, schedule) ==
  IF schedule # NoSchedule THEN schedule
  ELSE [type |-> stored.type, age |-> stored.age, filters |-> Omit,
        signature |-> IF stored.type = "webhook" THEN stored.signature ELSE Omit]

\* updatedSchedule: what the server would clear is copied from the stored trigger.
UpdatedSchedule(stored, schedule) ==
  LET s == IF schedule = NoSchedule THEN [NoSchedule EXCEPT !.type = stored.type] ELSE schedule
  IN IF s.type = "webhook" /\ stored.type = "webhook"
     THEN [type |-> "webhook", signature |-> Else(s.signature, stored.signature),
           age |-> Else(s.age, stored.age), filters |-> s.filters]
     ELSE s

\* A trigger that this client does not know, a signature in an encoding it does not know,
\* and an interval below a minute ("unknown" here) cannot be sent again.
Sendable(schedule) == schedule.type # "unknown" /\ schedule.signature \notin Unsendable

Merged(stored, patch) ==
  [project  |-> Else(patch.project, stored.project),
   thread   |-> Else(patch.thread, stored.thread),
   enabled  |-> IF patch.enabled = Omit THEN stored.enabled ELSE patch.enabled = "on",
   schedule |-> UpdatedSchedule(stored.trigger, patch.schedule)]

\* Mutant: only a thread that the patch names is checked.
TargetChanges_ByThread(stored, input) == input.thread # stored.thread

\* update, its condition for validateTarget
TargetChanges(stored, input) ==
  input.project # stored.project \/ input.thread # stored.thread

-----------------------------------------------------------------------------
(* The server *)

Saved(trigger, schedule) ==
  [type      |-> schedule.type,
   signature |-> IF schedule.signature = Omit THEN Null ELSE schedule.signature,
   age       |-> IF schedule.age = Omit THEN Null ELSE schedule.age,
   filters   |-> IF schedule.filters # Omit THEN schedule.filters
                 ELSE IF schedule.type = "webhook" THEN trigger.filters ELSE Null]

NoTrigger == [type |-> "interval", signature |-> Null, age |-> Null, filters |-> Null]

Upserted(old, input) ==
  [kind |-> "task", project |-> input.project, thread |-> input.thread, enabled |-> input.enabled,
   trigger |-> Saved(IF old = None THEN NoTrigger ELSE old.trigger, input.schedule)]

-----------------------------------------------------------------------------
(* The editors *)

Editor(at, op) == [at |-> at, op |-> op, patch |-> NoPatch, input |-> None, alone |-> FALSE]

SchedulesInitAt(at) ==
  /\ task = None /\ made = FALSE
  /\ editors = [e \in Editors |-> Editor(at, "none")]

SchedulesInit == SchedulesInitAt("idle")

\* The editors after e moved on to m, which is no longer the only writer since its read
\* when another one writes.
After(e, m, writes) ==
  [f \in Editors |-> IF f = e THEN m
                     ELSE [editors[f] EXCEPT !.alone = @ /\ ~writes]]

Moves(e, m) == editors' = After(e, m, FALSE) /\ UNCHANGED <<task, made>>
DoneWith(e)    == [Editor("done", "none") EXCEPT !.op = editors[e].op]

\* scheduleUpdate: the draft, and the selections resolved from it (resolveUpdate).
BeginUpdate(e) ==
  /\ editors[e].at = "idle"
  /\ \E p \in Patches \ {NoPatch} : Moves(e, [Editor("reading", "update") EXCEPT !.patch = p])

\* scheduleCreate with resolveCreate: a thread names its project when none is given.
BeginCreate(e) ==
  /\ editors[e].at = "idle"
  /\ \E draft \in Drafts :
       Moves(e, [Editor(IF draft.thread = Null THEN "saving" ELSE "validating", "create") EXCEPT
                   !.input = draft])

\* setEnabled and delete are one call each.
BeginCall(e) ==
  /\ editors[e].at = "idle"
  /\ \E op \in {"enable", "disable", "delete"} : Moves(e, Editor("calling", op))

\* #require: the task as it is stored now, or a failure.
ReadTask(e) ==
  /\ editors[e].at = "reading"
  /\ LET input == Merged(task, editors[e].patch)
     IN Moves(e, IF task = None \/ ~Sendable(input.schedule) THEN DoneWith(e)
                 ELSE [editors[e] EXCEPT
                         !.at = IF TargetChanges(task, input) /\ input.thread # Null
                                THEN "validating" ELSE "saving",
                         !.input = input, !.alone = TRUE])

\* validateTarget
Validate(e) ==
  /\ editors[e].at = "validating"
  /\ Moves(e, IF ProjectOf[editors[e].input.thread] = editors[e].input.project
              THEN [editors[e] EXCEPT !.at = "saving"] ELSE DoneWith(e))

\* Mutant: an update that finds no task makes one.
MayUpsert_Always(e) == TRUE

\* requireExisting; a creation makes a task of its own.
MayUpsert(e) == IF editors[e].op = "update" THEN task # None ELSE ~made

\* upsert
Save(e) ==
  /\ editors[e].at = "saving"
  /\ IF MayUpsert(e) THEN /\ task' = Upserted(task, editors[e].input) /\ made' = TRUE
                     ELSE UNCHANGED <<task, made>>
  /\ editors' = After(e, DoneWith(e), TRUE)

Call(e) ==
  /\ editors[e].at = "calling"
  /\ task' = CASE task = None -> None
               [] task # None /\ editors[e].op = "delete" -> None
               [] OTHER -> [task EXCEPT !.enabled = editors[e].op = "enable"]
  /\ editors' = After(e, DoneWith(e), TRUE)
  /\ UNCHANGED made

\* The caller's signal, a refusal or a lost connection, before the server acts.
GivesUp(e) ==
  /\ editors[e].at \notin {"idle", "done"}
  /\ Moves(e, DoneWith(e))

\* A newer client stores what this one cannot send again.
StoreNewer ==
  /\ task # None
  /\ \/ task' = [task EXCEPT !.trigger = [NoTrigger EXCEPT !.type = "unknown"]]
     \/ \E s \in Unsendable : task.trigger.type = "webhook" /\ task' = [task EXCEPT !.trigger.signature = s]
  /\ editors' = [f \in Editors |-> [editors[f] EXCEPT !.alone = FALSE]]
  /\ UNCHANGED made

SchedulesNext ==
  \/ \E e \in Editors : \/ BeginUpdate(e) \/ BeginCreate(e) \/ BeginCall(e)
                        \/ ReadTask(e) \/ Validate(e) \/ Save(e) \/ Call(e) \/ GivesUp(e)
  \/ \E e \in Editors : editors[e].at # "done" /\ StoreNewer

SchedulesSpec == SchedulesInit /\ [][SchedulesNext]_schedules

-----------------------------------------------------------------------------
(* Properties *)

Editing == [at    : {"idle", "reading", "validating", "saving", "calling", "done"},
            op    : {"none", "update", "create", "enable", "disable", "delete"},
            patch : Patch, input : Inputs \cup {None}, alone : BOOLEAN]

\* Every variable keeps to its type, and what is sent is valid.
SchedulesTypeOK ==
  /\ task \in Tasks \cup {None} /\ made \in BOOLEAN
  /\ task # None => made
  /\ editors \in [Editors -> Editing]
  /\ \A e \in Editors : editors[e].at \in {"validating", "saving"} => editors[e].input # None

Belongs(target) == target.thread # Null => ProjectOf[target.thread] = target.project

\* The thread a task is bound to belongs to its project, whoever else changes either
\* between the read and the save of an update (docs/user/t3c/automation.md:80-83).
TargetBelongs == SchedulesTypeOK /\ (task # None => Belongs(task))

\* What the patch asks for, said without the payload: a property it leaves out stays, and
\* a webhook trigger that remains one keeps every setting that is left out
\* (docs/user/t3c/automation.md:70-76).
Patched(old, p) ==
  LET t == old.trigger
      s == p.schedule
      Kept(given, kept) == IF given # Omit THEN given
                           ELSE IF t.type = "webhook" /\ s.type = "webhook" THEN kept ELSE Null
  IN [kind    |-> "task",
      project |-> IF p.project # Omit THEN p.project ELSE old.project,
      thread  |-> IF p.thread # Omit THEN p.thread ELSE old.thread,
      enabled |-> CASE p.enabled = Omit -> old.enabled [] OTHER -> p.enabled = "on",
      trigger |-> IF s = NoSchedule THEN t
                  ELSE [type |-> s.type, signature |-> Kept(s.signature, t.signature),
                        age |-> Kept(s.age, t.age), filters |-> Kept(s.filters, t.filters)]]

\* An update that nobody's write came between changes what its patch names and nothing
\* else, and no update brings a deleted task back (scheduledTasks.ts:91-95).
UpdateIsExact ==
  [][/\ \A e \in Editors :
          editors[e].at = "saving" /\ editors[e].alone /\ task' # task
            /\ editors'[e].at = "done"
            => task' = Patched(task, editors[e].patch)
     /\ made /\ task = None => task' = None
    ]_schedules
=============================================================================
