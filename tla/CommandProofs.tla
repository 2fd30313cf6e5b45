------------------------------ MODULE CommandProofs -----------------------------
(***************************************************************************)
(* The parts a command works with, each proved for every value of its      *)
(* constants: the editors of a scheduled task, the viewer of a browser     *)
(* tab, and a dispatch with its invocation.  They share no state.          *)
(***************************************************************************)
EXTENDS Invocation, Schedules, PreviewViewer, FiniteSetTheorems, FunctionTheorems, TLAPS

-----------------------------------------------------------------------------
(* Schedules: a scheduled task's thread belongs to its project, for any    *)
(* number of editors, projects and threads.  Every whole task that is sent *)
(* was checked, or takes its target unchanged from a task that was stored: *)
(* the invariant says so of each editor that saves (EditorOK).             *)

\* What an editor is about to send is a task whose target was checked or is being checked.
EditorOK(m) ==
  /\ m \in Editing
  /\ m.at \in {"validating", "saving"} => m.input # None
  /\ m.at = "validating" => m.input.thread # Null
  /\ m.at = "saving" => Belongs(m.input)

EditorsInv ==
  /\ task \in Tasks \cup {None} /\ made \in BOOLEAN
  /\ task # None => made /\ Belongs(task)
  /\ editors \in [Editors -> Editing]
  /\ \A e \in Editors : EditorOK(editors[e])

LEMMA NoneIsNoTask == None \notin Tasks /\ None \notin Inputs
  BY DEF None, Tasks, Inputs

LEMMA NoPatchTyped == NoPatch \in Patch
  BY DEF NoPatch, Patch, NoSchedule

\* What is sent for an update is a whole task (scheduledTaskUpdate.ts:39-60).
LEMMA MergedTyped ==
  ASSUME NEW stored \in Tasks, NEW p \in Patch, Sendable(Merged(stored, p).schedule)
  PROVE  Merged(stored, p) \in Inputs
<1> DEFINE s == UpdatedSchedule(stored.trigger, p.schedule)
<1>1. s \in Schedule
  <2>1. Sendable(s) /\ stored.trigger \in Triggers /\ p.schedule \in Schedule \cup {NoSchedule}
    BY DEF Merged, Tasks, Patch
  <2>2. CASE p.schedule = NoSchedule
    BY <2>1, <2>2 DEF UpdatedSchedule, Sendable, Else, NoSchedule, Schedule, Triggers, Null, Omit
  <2>3. CASE p.schedule # NoSchedule
    BY <2>1, <2>3 DEF UpdatedSchedule, Sendable, Else, NoSchedule, Schedule, Triggers, Null, Omit
  <2> QED
    BY <2>2, <2>3
<1>2. /\ Else(p.project, stored.project) \in Projects
      /\ Else(p.thread, stored.thread) \in Threads \cup {Null}
      /\ (IF p.enabled = Omit THEN stored.enabled ELSE p.enabled = "on") \in BOOLEAN
  BY SchedulesAssumption DEF Else, Patch, Tasks, Null, Omit
<1> HIDE DEF s
<1> QED
  BY <1>1, <1>2 DEF Merged, Inputs, s

\* What the server stores is a task with the target it was sent.
LEMMA UpsertedTyped ==
  ASSUME NEW old \in Tasks \cup {None}, NEW input \in Inputs
  PROVE  /\ Upserted(old, input) \in Tasks
         /\ Belongs(input) => Belongs(Upserted(old, input))
<1> DEFINE t == IF old = None THEN NoTrigger ELSE old.trigger
<1>1. t \in Triggers
  BY NoneIsNoTask DEF NoTrigger, Triggers, Tasks
<1>2. Saved(t, input.schedule) \in Triggers
  <2>1. input.schedule \in Schedule
    BY DEF Inputs
  <2> HIDE DEF t
  <2> QED
    BY <1>1, <2>1, SchedulesAssumption DEF Saved, Triggers, Schedule, Null, Omit
<1> HIDE DEF t
<1>3. Upserted(old, input) = [kind |-> "task", project |-> input.project, thread |-> input.thread,
                              enabled |-> input.enabled, trigger |-> Saved(t, input.schedule)]
  BY DEF Upserted, t
<1> QED
  BY <1>2, <1>3 DEF Tasks, Inputs, Belongs

\* The editor that moves is the only one whose payload changes.
LEMMA AfterKeeps ==
  ASSUME EditorsInv, NEW e \in Editors, NEW m, EditorOK(m), NEW w \in BOOLEAN, editors' = After(e, m, w)
  PROVE  editors' \in [Editors -> Editing] /\ \A f \in Editors : EditorOK(editors'[f])
<1> SUFFICES ASSUME NEW f \in Editors PROVE EditorOK(editors'[f]) /\ editors'[f] \in Editing
  BY DEF After
<1>1. CASE f = e
  BY <1>1 DEF After, EditorOK
<1>2. CASE f # e
  BY <1>2 DEF After, EditorOK, EditorsInv, Editing
<1> QED
  BY <1>1, <1>2

LEMMA MoveKeeps ==
  ASSUME EditorsInv, NEW e \in Editors, NEW m, EditorOK(m), Moves(e, m)
  PROVE  EditorsInv'
<1>1. editors' \in [Editors -> Editing] /\ \A f \in Editors : EditorOK(editors'[f])
  BY AfterKeeps DEF Moves
<1> QED
  BY <1>1 DEF EditorsInv, Moves, EditorOK, Belongs

LEMMA FreshOK ==
  ASSUME NEW where \in {"idle", "reading", "calling", "done"},
         NEW op \in {"none", "update", "create", "enable", "disable", "delete"}
  PROVE  EditorOK(Editor(where, op))
BY NoPatchTyped DEF EditorOK, Editor, Editing

LEMMA DoneOK == ASSUME EditorsInv, NEW e \in Editors PROVE EditorOK(DoneWith(e))
BY NoPatchTyped DEF EditorsInv, DoneWith, EditorOK, Editor, Editing

LEMMA BeginKeeps ==
  ASSUME EditorsInv, NEW e \in Editors, BeginUpdate(e) \/ BeginCreate(e) \/ BeginCall(e)
  PROVE  EditorsInv'
<1>1. CASE BeginUpdate(e)
  <2>1. PICK p \in Patches : Moves(e, [Editor("reading", "update") EXCEPT !.patch = p])
    BY <1>1 DEF BeginUpdate
  <2>2. EditorOK([Editor("reading", "update") EXCEPT !.patch = p])
    BY TriedAssumption DEF EditorOK, Editor, Editing
  <2> QED
    BY <2>1, <2>2, MoveKeeps
<1>2. CASE BeginCreate(e)
  <2>1. PICK d \in Drafts :
          Moves(e, [Editor(IF d.thread = Null THEN "saving" ELSE "validating", "create") EXCEPT !.input = d])
    BY <1>2 DEF BeginCreate
  <2>2. d \in Inputs /\ d # None
    BY TriedAssumption, NoneIsNoTask
  <2>3. EditorOK([Editor(IF d.thread = Null THEN "saving" ELSE "validating", "create") EXCEPT !.input = d])
    BY <2>2, NoPatchTyped DEF EditorOK, Editor, Editing, Belongs
  <2> QED
    BY <2>1, <2>3, MoveKeeps
<1>3. CASE BeginCall(e)
  BY <1>3, FreshOK, MoveKeeps DEF BeginCall
<1> QED
  BY <1>1, <1>2, <1>3

LEMMA ReadTaskKeeps ==
  ASSUME EditorsInv, NEW e \in Editors, ReadTask(e)
  PROVE  EditorsInv'
<1> DEFINE input == Merged(task, editors[e].patch)
           m == [editors[e] EXCEPT
                   !.at = IF TargetChanges(task, input) /\ input.thread # Null
                          THEN "validating" ELSE "saving",
                   !.input = input, !.alone = TRUE]
<1>1. CASE task = None \/ ~Sendable(input.schedule)
  BY <1>1, DoneOK, MoveKeeps DEF ReadTask
<1>2. CASE task # None /\ Sendable(input.schedule)
  <2>1. editors[e] \in Editing /\ task \in Tasks /\ Belongs(task)
    BY <1>2 DEF EditorsInv
  <2>2. input \in Inputs
    <3>1. editors[e].patch \in Patch
      BY <2>1 DEF Editing
    <3> QED
      BY <1>2, <2>1, <3>1, MergedTyped
  <2>3. Moves(e, m)
    BY <1>2 DEF ReadTask
  <2>4. ~TargetChanges(task, input) => Belongs(input)
    BY <2>1 DEF TargetChanges, Belongs
  <2>5. EditorOK(m)
    <3> HIDE DEF input
    <3> QED
      BY <2>1, <2>2, <2>4, NoneIsNoTask DEF EditorOK, Editing, Belongs
  <2> QED
    BY <2>3, <2>5, MoveKeeps
<1> QED
  BY <1>1, <1>2

LEMMA ValidateKeeps ==
  ASSUME EditorsInv, NEW e \in Editors, Validate(e)
  PROVE  EditorsInv'
<1> DEFINE input == editors[e].input
<1>1. CASE ProjectOf[input.thread] = input.project
  <2>1. Moves(e, [editors[e] EXCEPT !.at = "saving"])
    BY <1>1 DEF Validate
  <2>2. EditorOK([editors[e] EXCEPT !.at = "saving"])
    BY <1>1 DEF Validate, EditorsInv, EditorOK, Editing, Belongs
  <2> QED
    BY <2>1, <2>2, MoveKeeps
<1>2. CASE ProjectOf[input.thread] # input.project
  BY <1>2, DoneOK, MoveKeeps DEF Validate
<1> QED
  BY <1>1, <1>2

LEMMA SaveKeeps ==
  ASSUME EditorsInv, NEW e \in Editors, Save(e)
  PROVE  EditorsInv'
<1>1. editors' \in [Editors -> Editing] /\ \A f \in Editors : EditorOK(editors'[f])
  BY DoneOK, AfterKeeps DEF Save
<1>2. editors[e].input \in Inputs /\ Belongs(editors[e].input)
  BY DEF Save, EditorsInv, EditorOK, Editing
<1>3. task' \in Tasks \cup {None} /\ made' \in BOOLEAN /\ (task' # None => made' /\ Belongs(task)')
  <2>1. CASE MayUpsert(e)
    BY <1>2, <2>1, UpsertedTyped DEF Save, EditorsInv, Belongs
  <2>2. CASE ~MayUpsert(e)
    BY <2>2 DEF Save, EditorsInv, Belongs
  <2> QED
    BY <2>1, <2>2
<1> QED
  BY <1>1, <1>3 DEF EditorsInv, EditorOK, Belongs

LEMMA CallKeeps ==
  ASSUME EditorsInv, NEW e \in Editors, Call(e)
  PROVE  EditorsInv'
<1>1. editors' \in [Editors -> Editing] /\ \A f \in Editors : EditorOK(editors'[f])
  BY DoneOK, AfterKeeps DEF Call
<1>2. task' = None \/ (task # None /\ task' = [task EXCEPT !.enabled = editors[e].op = "enable"])
  BY DEF Call
<1>3. task' \in Tasks \cup {None} /\ made' = made /\ (task' # None => made /\ Belongs(task)')
  BY <1>2 DEF Call, EditorsInv, Tasks, Belongs
<1> QED
  BY <1>1, <1>3 DEF EditorsInv, EditorOK, Belongs

LEMMA StoreNewerKeeps ==
  ASSUME EditorsInv, StoreNewer
  PROVE  EditorsInv'
<1>1. editors' \in [Editors -> Editing] /\ \A f \in Editors : EditorOK(editors'[f])
  <2>1. editors' = [f \in Editors |-> [editors[f] EXCEPT !.alone = FALSE]]
    BY DEF StoreNewer
  <2>2. ASSUME NEW m, EditorOK(m) PROVE EditorOK([m EXCEPT !.alone = FALSE])
    BY <2>2 DEF EditorOK, Editing
  <2>3. \A f \in Editors : EditorOK(editors[f])
    BY DEF EditorsInv
  <2>4. \A f \in Editors : EditorOK(editors'[f])
    BY <2>1, <2>2, <2>3
  <2> QED
    BY <2>1, <2>4 DEF EditorOK
<1>2. task \in Tasks /\ made
  BY DEF StoreNewer, EditorsInv
<1>3. task' \in Tasks /\ (Belongs(task) => Belongs(task)')
  <2>1. CASE task' = [task EXCEPT !.trigger = [NoTrigger EXCEPT !.type = "unknown"]]
    BY <1>2, <2>1 DEF Tasks, Triggers, NoTrigger, Belongs
  <2>2. ASSUME NEW s \in Unsendable, task.trigger.type = "webhook",
               task' = [task EXCEPT !.trigger.signature = s]
        PROVE  task' \in Tasks /\ (Belongs(task) => Belongs(task)')
    BY <1>2, <2>2, SchedulesAssumption DEF Tasks, Triggers, Belongs
  <2> QED
    BY <2>1, <2>2 DEF StoreNewer
<1> QED
  BY <1>1, <1>2, <1>3 DEF EditorsInv, StoreNewer, EditorOK, Belongs

LEMMA EditorsInit == SchedulesInit => EditorsInv
<1> SUFFICES ASSUME SchedulesInit PROVE EditorsInv
  OBVIOUS
<1>1. \A e \in Editors : editors[e] = Editor("idle", "none")
  BY DEF SchedulesInit, SchedulesInitAt
<1>2. EditorOK(Editor("idle", "none")) /\ Editor("idle", "none") \in Editing
  BY FreshOK DEF EditorOK
<1> QED
  BY <1>1, <1>2 DEF SchedulesInit, SchedulesInitAt, EditorsInv

LEMMA EditorsStep == EditorsInv /\ [SchedulesNext]_schedules => EditorsInv'
<1> SUFFICES ASSUME EditorsInv, [SchedulesNext]_schedules PROVE EditorsInv'
  OBVIOUS
<1>1. ASSUME NEW e \in Editors,
             \/ BeginUpdate(e) \/ BeginCreate(e) \/ BeginCall(e)
             \/ ReadTask(e) \/ Validate(e) \/ Save(e) \/ Call(e) \/ GivesUp(e)
      PROVE  EditorsInv'
  <2>1. CASE GivesUp(e)
    BY <2>1, DoneOK, MoveKeeps DEF GivesUp
  <2> QED
    BY <1>1, <2>1, BeginKeeps, ReadTaskKeeps, ValidateKeeps, SaveKeeps, CallKeeps
<1>2. CASE StoreNewer
  BY <1>2, StoreNewerKeeps
<1>3. CASE UNCHANGED schedules
  BY <1>3 DEF schedules, EditorsInv, EditorOK, Belongs
<1> QED
  BY <1>1, <1>2, <1>3 DEF SchedulesNext

\* Whoever changes a task's project or thread meanwhile, the thread a task is bound to
\* belongs to its project (docs/user/t3c/automation.md:80-83).
THEOREM TargetBelongsCorrect == SchedulesSpec => []TargetBelongs
<1>1. SchedulesInit => EditorsInv
  BY EditorsInit
<1>2. EditorsInv => TargetBelongs
  BY DEF EditorsInv, TargetBelongs, SchedulesTypeOK, EditorOK
<1> QED
  BY <1>1, <1>2, EditorsStep, PTL DEF SchedulesSpec

-----------------------------------------------------------------------------
(* What an update changes *)

\* An update that was not come between is still the stored task under its patch.
Fresh(m) ==
  m.alone /\ m.at \in {"validating", "saving"} =>
    /\ task # None
    /\ m.input = Merged(task, m.patch)
    /\ Sendable(m.input.schedule)

UpdatesInv == EditorsInv /\ \A e \in Editors : Fresh(editors[e])

\* Copying what the server would clear makes the upsert a patch (scheduledTaskUpdate.ts:62-104).
LEMMA UpsertIsPatch ==
  ASSUME NEW old \in Tasks, NEW p \in Patch, Sendable(Merged(old, p).schedule)
  PROVE  Upserted(old, Merged(old, p)) = Patched(old, p)
<1> DEFINE t == old.trigger
           u == UpdatedSchedule(t, p.schedule)
           q == Patched(old, p).trigger
<1>0. /\ t \in Triggers /\ p.schedule \in Schedule \cup {NoSchedule} /\ Sendable(u)
      /\ old # None
  BY NoneIsNoTask DEF Tasks, Patch, Merged
<1>1. Saved(t, u) = q
  <2>1. CASE p.schedule = NoSchedule
    <3>1. q = t
      BY <2>1 DEF Patched
    <3>2. u = IF t.type = "webhook"
              THEN [type |-> "webhook", signature |-> t.signature, age |-> t.age, filters |-> Omit]
              ELSE [type |-> t.type, signature |-> Omit, age |-> Omit, filters |-> Omit]
      <4> DEFINE n == [NoSchedule EXCEPT !.type = t.type]
      <4>1. n = [type |-> t.type, signature |-> Omit, age |-> Omit, filters |-> Omit]
        BY DEF NoSchedule
      <4>2. u = IF n.type = "webhook" /\ t.type = "webhook"
                THEN [type |-> "webhook", signature |-> Else(n.signature, t.signature),
                      age |-> Else(n.age, t.age), filters |-> n.filters]
                ELSE n
        BY <2>1 DEF UpdatedSchedule
      <4> HIDE DEF t, u, n
      <4> QED
        BY <4>1, <4>2 DEF Else
    <3>3. t.type \in {"webhook", "interval"}
      BY <1>0, <3>2 DEF Triggers, Sendable
    <3>4. CASE t.type = "webhook"
      <4>1. u = [type |-> "webhook", signature |-> t.signature, age |-> t.age, filters |-> Omit]
        BY <3>2, <3>4
      <4>2. /\ t \in [type : {"webhook"}, signature : Signatures \cup {Null}, age : {"set", Null},
                      filters : {"set", Null}]
            /\ t.signature # Omit /\ t.age # Omit
        BY <1>0, <3>4, SchedulesAssumption DEF Triggers, Null, Omit
      <4> HIDE DEF t, u
      <4> QED
        BY <3>1, <4>1, <4>2 DEF Saved
    <3>5. CASE t.type = "interval"
      <4>1. u = [type |-> t.type, signature |-> Omit, age |-> Omit, filters |-> Omit]
        BY <3>2, <3>5
      <4>2. t = [type |-> "interval", signature |-> Null, age |-> Null, filters |-> Null]
        BY <1>0, <3>5 DEF Triggers
      <4> HIDE DEF t, u
      <4> QED
        BY <3>1, <4>1, <4>2 DEF Saved
    <3> QED
      BY <3>3, <3>4, <3>5
  <2>2. CASE p.schedule # NoSchedule
    <3> DEFINE s == p.schedule
               both == t.type = "webhook" /\ s.type = "webhook"
               Kept(set, kept) == IF set # Omit THEN set ELSE IF both THEN kept ELSE Null
    <3>1. q = [type |-> s.type, signature |-> Kept(s.signature, t.signature),
               age |-> Kept(s.age, t.age), filters |-> Kept(s.filters, t.filters)]
      BY <2>2 DEF Patched
    <3>2. /\ u = IF both THEN [type |-> "webhook", signature |-> Else(s.signature, t.signature),
                              age |-> Else(s.age, t.age), filters |-> s.filters]
                 ELSE s
          /\ s \in Schedule
      BY <1>0, <2>2 DEF UpdatedSchedule
    <3> HIDE DEF t, u, s
    <3>3. CASE both
      BY <1>0, <3>1, <3>2, <3>3, SchedulesAssumption DEF Saved, Else, Schedule, Triggers, Null, Omit
    <3>4. CASE ~both
      <4>1. s.type = "webhook" => t.filters = Null
        BY <1>0, <3>4 DEF Triggers
      <4> QED
        BY <3>1, <3>2, <3>4, <4>1 DEF Saved, Schedule, Null, Omit
    <3> QED
      BY <3>3, <3>4
  <2> QED
    BY <2>1, <2>2
<1> HIDE DEF t, u, q
<1>2. Merged(old, p).schedule = u
  BY DEF Merged, u, t
<1>3. Upserted(old, Merged(old, p)) =
        [kind |-> "task", project |-> Else(p.project, old.project), thread |-> Else(p.thread, old.thread),
         enabled |-> IF p.enabled = Omit THEN old.enabled ELSE p.enabled = "on", trigger |-> Saved(t, u)]
  BY <1>0, <1>2 DEF Upserted, Merged, t
<1>4. Patched(old, p) =
        [kind |-> "task", project |-> Else(p.project, old.project), thread |-> Else(p.thread, old.thread),
         enabled |-> IF p.enabled = Omit THEN old.enabled ELSE p.enabled = "on", trigger |-> q]
  BY DEF Patched, Else, q
<1> QED
  BY <1>1, <1>3, <1>4

\* An editor's own step, and everyone else's freshness under it.
LEMMA AfterFresh ==
  ASSUME UpdatesInv, NEW e \in Editors, NEW m, NEW w \in BOOLEAN, editors' = After(e, m, w),
         ~w => task' = task, m.alone /\ m.at \in {"validating", "saving"} =>
           task' # None /\ m.input = Merged(task', m.patch) /\ Sendable(m.input.schedule)
  PROVE  \A f \in Editors : Fresh(editors[f])'
<1> SUFFICES ASSUME NEW f \in Editors PROVE Fresh(editors[f])'
  OBVIOUS
<1>1. CASE f = e
  BY <1>1 DEF After, Fresh, UpdatesInv, EditorsInv
<1>2. CASE f # e
  <2>1. editors'[f] = [editors[f] EXCEPT !.alone = editors[f].alone /\ ~w] /\ editors[f] \in Editing
    BY <1>2 DEF After, UpdatesInv, EditorsInv
  <2>2. /\ editors'[f].at = editors[f].at /\ editors'[f].input = editors[f].input
        /\ editors'[f].patch = editors[f].patch
    BY <2>1 DEF Editing
  <2>3. editors'[f].alone = (editors[f].alone /\ ~w)
    BY <2>1 DEF Editing
  <2>4. editors'[f].alone => editors[f].alone /\ task' = task
    BY <2>3
  <2>5. Fresh(editors[f])
    BY DEF UpdatesInv
  <2> QED
    BY <2>2, <2>4, <2>5 DEF Fresh
<1> QED
  BY <1>1, <1>2

LEMMA UpdatesStep == UpdatesInv /\ [SchedulesNext]_schedules => UpdatesInv'
<1> SUFFICES ASSUME UpdatesInv, [SchedulesNext]_schedules PROVE UpdatesInv'
  OBVIOUS
<1>1. EditorsInv /\ EditorsInv'
  BY EditorsStep DEF UpdatesInv
<1> SUFFICES \A f \in Editors : Fresh(editors[f])'
  BY <1>1 DEF UpdatesInv
<1>2. ASSUME NEW e \in Editors, NEW m, Moves(e, m), m.alone = FALSE
      PROVE  \A f \in Editors : Fresh(editors[f])'
  BY <1>2, AfterFresh DEF Moves
<1>3. \A e \in Editors : DoneWith(e).alone = FALSE
  BY DEF DoneWith, Editor
<1>4. ASSUME NEW e \in Editors, BeginUpdate(e) \/ BeginCreate(e) \/ BeginCall(e) \/ GivesUp(e)
      PROVE  \A f \in Editors : Fresh(editors[f])'
  <2>1. CASE BeginUpdate(e)
    <3>1. PICK p \in Patches \ {NoPatch} : Moves(e, [Editor("reading", "update") EXCEPT !.patch = p])
      BY <2>1 DEF BeginUpdate
    <3>2. [Editor("reading", "update") EXCEPT !.patch = p].alone = FALSE
      BY DEF Editor
    <3> QED
      BY <1>2, <3>1, <3>2
  <2>2. CASE BeginCreate(e)
    <3>1. PICK draft \in Drafts :
            Moves(e, [Editor(IF draft.thread = Null THEN "saving" ELSE "validating", "create") EXCEPT
                        !.input = draft])
      BY <2>2 DEF BeginCreate
    <3>2. [Editor(IF draft.thread = Null THEN "saving" ELSE "validating", "create") EXCEPT
             !.input = draft].alone = FALSE
      BY DEF Editor
    <3> QED
      BY <1>2, <3>1, <3>2
  <2>3. CASE BeginCall(e)
    <3>1. PICK op \in {"enable", "disable", "delete"} : Moves(e, Editor("calling", op))
      BY <2>3 DEF BeginCall
    <3>2. Editor("calling", op).alone = FALSE
      BY DEF Editor
    <3> QED
      BY <1>2, <3>1, <3>2
  <2>4. CASE GivesUp(e)
    BY <1>2, <1>3, <2>4 DEF GivesUp
  <2> QED
    BY <1>4, <2>1, <2>2, <2>3, <2>4
<1>5. ASSUME NEW e \in Editors, Save(e) \/ Call(e)
      PROVE  \A f \in Editors : Fresh(editors[f])'
  <2>1. editors' = After(e, DoneWith(e), TRUE)
    BY <1>5 DEF Save, Call
  <2> QED
    BY <1>3, <2>1, AfterFresh
<1>6. ASSUME NEW e \in Editors, ReadTask(e)
      PROVE  \A f \in Editors : Fresh(editors[f])'
  <2> DEFINE input == Merged(task, editors[e].patch)
             m == [editors[e] EXCEPT
                     !.at = IF TargetChanges(task, input) /\ input.thread # Null
                            THEN "validating" ELSE "saving",
                     !.input = input, !.alone = TRUE]
  <2>1. CASE task = None \/ ~Sendable(input.schedule)
    BY <1>2, <1>3, <1>6, <2>1 DEF ReadTask
  <2>2. CASE task # None /\ Sendable(input.schedule)
    <3>1. Moves(e, m) /\ editors[e] \in Editing
      BY <1>1, <1>6, <2>2 DEF ReadTask, EditorsInv
    <3>2. m.input = Merged(task, m.patch) /\ Sendable(m.input.schedule)
      <4> HIDE DEF input
      <4>1. m.input = input /\ m.patch = editors[e].patch
        BY <3>1 DEF Editing
      <4> QED
        BY <2>2, <4>1 DEF input
    <3>3. task' = task /\ editors' = After(e, m, FALSE)
      BY <3>1 DEF Moves
    <3> HIDE DEF m
    <3> QED
      BY <2>2, <3>2, <3>3, AfterFresh
  <2> QED
    BY <2>1, <2>2
<1>7. ASSUME NEW e \in Editors, Validate(e)
      PROVE  \A f \in Editors : Fresh(editors[f])'
  <2> DEFINE m == [editors[e] EXCEPT !.at = "saving"]
  <2>1. CASE Moves(e, DoneWith(e))
    BY <1>2, <1>3, <2>1
  <2>2. CASE Moves(e, m)
    <3>1. editors[e] \in Editing /\ editors[e].at = "validating" /\ Fresh(editors[e])
      BY <1>1, <1>7 DEF Validate, EditorsInv, UpdatesInv
    <3>2. m.alone = editors[e].alone /\ m.input = editors[e].input /\ m.patch = editors[e].patch
      BY <3>1 DEF Editing
    <3>3. task' = task /\ editors' = After(e, m, FALSE)
      BY <2>2 DEF Moves
    <3>4. m.alone => task # None /\ m.input = Merged(task, m.patch) /\ Sendable(m.input.schedule)
      BY <3>1, <3>2 DEF Fresh
    <3> HIDE DEF m
    <3> QED
      BY <3>3, <3>4, AfterFresh
  <2> QED
    BY <1>7, <2>1, <2>2 DEF Validate
<1>8. CASE StoreNewer
  <2>1. \A f \in Editors : editors'[f].alone = FALSE
    BY <1>1, <1>8 DEF StoreNewer, EditorsInv, Editing
  <2> QED
    BY <2>1 DEF Fresh
<1>9. CASE UNCHANGED schedules
  BY <1>9 DEF schedules, UpdatesInv, Fresh
<1> QED
  BY <1>4, <1>5, <1>6, <1>7, <1>8, <1>9 DEF SchedulesNext

\* An update that nothing came between changes what its patch names and no more, and a
\* deleted task stays deleted (scheduledTasks.ts:91-95, docs/user/t3c/automation.md:70-76).
THEOREM UpdateIsExactCorrect == SchedulesSpec => UpdateIsExact
<1> DEFINE Exact ==
      /\ \A e \in Editors :
           editors[e].at = "saving" /\ editors[e].alone /\ task' # task /\ editors'[e].at = "done"
             => task' = Patched(task, editors[e].patch)
      /\ made /\ task = None => task' = None
<1>1. UpdatesInv /\ [SchedulesNext]_schedules => [Exact]_schedules
  <2> SUFFICES ASSUME UpdatesInv, SchedulesNext PROVE Exact
    OBVIOUS
  <2>0. EditorsInv
    BY DEF UpdatesInv
  <2>1. made /\ task = None => task' = None
    BY NoneIsNoTask DEF SchedulesNext, BeginUpdate, BeginCreate, BeginCall, ReadTask, Validate, Save,
        MayUpsert, Call, GivesUp, StoreNewer, Moves
  <2>2. ASSUME NEW e \in Editors, editors[e].at = "saving", editors[e].alone, task' # task,
               editors'[e].at = "done"
        PROVE  task' = Patched(task, editors[e].patch)
    <3>1. editors[e] \in Editing /\ Fresh(editors[e])
      BY <2>0 DEF UpdatesInv, EditorsInv
    <3>2. ASSUME NEW f \in Editors, NEW m, NEW w, editors' = After(f, m, w)
          PROVE  f = e
      BY <2>2, <3>1, <3>2 DEF After, Editing
    <3>3. ~StoreNewer
      BY <2>0, <2>2, <3>1 DEF StoreNewer, EditorsInv, Editing
    <3>4. PICK f \in Editors : Save(f) \/ Call(f)
      BY <2>2, <3>3 DEF SchedulesNext, BeginUpdate, BeginCreate, BeginCall, ReadTask, Validate, GivesUp, Moves
    <3>5. f = e
      BY <3>2, <3>4 DEF Save, Call
    <3>6. task' = Upserted(task, editors[e].input)
      BY <2>2, <3>4, <3>5 DEF Save, Call
    <3>7. task \in Tasks /\ editors[e].patch \in Patch
      BY <2>0, <2>2, <3>1 DEF Fresh, EditorsInv, Editing
    <3> QED
      BY <2>2, <3>1, <3>6, <3>7, UpsertIsPatch DEF Fresh
  <2> QED
    BY <2>1, <2>2
<1>2. SchedulesInit => UpdatesInv
  <2>1. SchedulesInit => EditorsInv
    BY EditorsInit
  <2>2. SchedulesInit => \A e \in Editors : Fresh(editors[e])
    BY DEF SchedulesInit, SchedulesInitAt, Editor, Fresh
  <2> QED
    BY <2>1, <2>2 DEF UpdatesInv
<1> QED
  BY <1>1, <1>2, UpdatesStep, PTL DEF SchedulesSpec, UpdateIsExact

-----------------------------------------------------------------------------
(* PreviewViewer: the server's one frame is in one place, for any number   *)
(* of calls of next.  Balance adds to OneFrame that a socket that has not  *)
(* opened has nothing to deliver.                                          *)

Items == {"frame", "message"}
Frames(s) == {i \in DOMAIN s : s[i] = "frame"}

\* The counts that OneFrame is made of.
LEMMA ItemOps ==
  /\ <<>> \in Seq(Items) /\ FramesIn(<<>>) = 0
  /\ \A s \in Seq(Items) : /\ FramesIn(s) \in Nat
                           /\ \A x \in Items : Append(s, x) \in Seq(Items)
                           /\ s # <<>> => Head(s) \in Items /\ Tail(s) \in Seq(Items)
<1>1. <<>> \in Seq(Items) /\ FramesIn(<<>>) = 0
  <2>1. Frames(<<>>) = {}
    BY DEF Frames
  <2> QED
    BY <2>1, FS_EmptySet DEF FramesIn, Frames
<1>2. ASSUME NEW s \in Seq(Items) PROVE FramesIn(s) \in Nat
  <2>1. IsFiniteSet(1 .. Len(s)) /\ Frames(s) \in SUBSET (1 .. Len(s))
    BY FS_Interval DEF Frames
  <2> QED
    BY <2>1, FS_Subset, FS_CardinalityType DEF FramesIn, Frames
<1> QED
  BY <1>1, <1>2

LEMMA FramesAppended ==
  ASSUME NEW s \in Seq(Items), NEW x \in Items
  PROVE  FramesIn(Append(s, x)) = FramesIn(s) + IF x = "frame" THEN 1 ELSE 0
<1> DEFINE n == Len(s) + 1
<1>1. /\ IsFiniteSet(Frames(s)) /\ n \notin Frames(s)
  BY FS_Interval, FS_Subset, Frames(s) \in SUBSET (1 .. Len(s)) DEF Frames
<1>2. CASE x = "frame"
  <2>1. Frames(Append(s, x)) = Frames(s) \cup {n}
    BY <1>2 DEF Frames
  <2> QED
    BY <1>1, <1>2, <2>1, FS_AddElement DEF FramesIn, Frames
<1>3. CASE x # "frame"
  <2>1. Frames(Append(s, x)) = Frames(s)
    BY <1>3 DEF Frames
  <2>2. FramesIn(Append(s, x)) = FramesIn(s)
    BY <2>1 DEF FramesIn, Frames
  <2>3. FramesIn(s) \in Nat
    BY ItemOps
  <2> QED
    BY <1>3, <2>2, <2>3
<1> QED
  BY <1>2, <1>3

LEMMA FramesTaken ==
  ASSUME NEW s \in Seq(Items), s # <<>>
  PROVE  FramesIn(s) = FramesIn(Tail(s)) + IF Head(s) = "frame" THEN 1 ELSE 0
<1> DEFINE rest == Frames(s) \ {1}
           shift == [i \in Frames(Tail(s)) |-> i + 1]
<1>1. /\ IsFiniteSet(Frames(s)) /\ IsFiniteSet(Frames(Tail(s)))
      /\ 1 \in Frames(s) <=> Head(s) = "frame"
  <2>1. Frames(s) \in SUBSET (1 .. Len(s)) /\ Frames(Tail(s)) \in SUBSET (1 .. Len(s))
    BY DEF Frames
  <2> QED
    BY <2>1, FS_Interval, FS_Subset DEF Frames
<1>2. shift \in Bijection(Frames(Tail(s)), rest)
  <2>1. shift \in [Frames(Tail(s)) -> rest]
    BY DEF Frames
  <2>2. \A i, j \in Frames(Tail(s)) : shift[i] = shift[j] => i = j
    BY DEF Frames
  <2>3. ASSUME NEW j \in rest PROVE \E i \in Frames(Tail(s)) : shift[i] = j
    <3>1. j - 1 \in Frames(Tail(s)) /\ j = (j - 1) + 1
      BY DEF Frames
    <3> QED
      BY <3>1
  <2> HIDE DEF shift, rest
  <2> QED
    BY <2>1, <2>2, <2>3, Fun_IsBij
<1>3. Cardinality(rest) = FramesIn(Tail(s))
  <2>1. ExistsBijection(Frames(Tail(s)), rest)
    BY <1>2 DEF ExistsBijection
  <2> QED
    BY <1>1, <2>1, FS_Bijection DEF FramesIn, Frames
<1>4. Cardinality(rest) = IF 1 \in Frames(s) THEN FramesIn(s) - 1 ELSE FramesIn(s)
  <2>1. FramesIn(s) = Cardinality(Frames(s))
    BY DEF FramesIn, Frames
  <2> QED
    BY <1>1, <2>1, FS_RemoveElement
<1>5. FramesIn(s) \in Nat /\ FramesIn(Tail(s)) \in Nat
  BY ItemOps
<1> QED
  BY <1>1, <1>3, <1>4, <1>5

-----------------------------------------------------------------------------
Held == FramesIn(remote.wire) + FramesIn(items) + (IF frameToAck THEN 1 ELSE 0) + remote.acks
Owed == IF remote.unacked THEN 1 ELSE 0

\* OneFrame, and what is known of a socket that has not opened.
Balance ==
  /\ Held <= 1
  /\ sock \in {"open", "closing"} => Held <= Owed
  /\ sock = "open" => Held = Owed /\ opening = "viewer"
  /\ sock \in {"unmade", "connecting"} => Held = 0 /\ Owed = 0 /\ opening = "pending"

FrameInv == ViewerTypeOK /\ Balance

Remotes == [unacked : BOOLEAN, wire : Seq(Items), acks : 0..1, frames : 0..MaxFrames,
            messages : 0..MaxMessages]

\* Updates of the server's acknowledgements.
LEMMA AcksOps ==
  ASSUME NEW x \in Remotes, NEW w \in Seq(Items), NEW a \in 0..1, NEW u \in BOOLEAN
  PROVE  /\ [x EXCEPT !.wire = w, !.acks = a] \in Remotes
         /\ [x EXCEPT !.acks = a, !.unacked = u] \in Remotes
         /\ [x EXCEPT !.acks = a] \in Remotes /\ [x EXCEPT !.acks = a].acks = a
         /\ [x EXCEPT !.acks = a].wire = x.wire /\ [x EXCEPT !.acks = a].unacked = x.unacked
<1>1. [x EXCEPT !.wire = w, !.acks = a] \in Remotes
  BY DEF Remotes
<1>2. [x EXCEPT !.acks = a, !.unacked = u] \in Remotes
  BY DEF Remotes
<1>3. [x EXCEPT !.acks = a] \in Remotes
  BY DEF Remotes
<1>4. /\ [x EXCEPT !.acks = a].acks = a /\ [x EXCEPT !.acks = a].wire = x.wire
      /\ [x EXCEPT !.acks = a].unacked = x.unacked
  BY DEF Remotes
<1> QED
  BY <1>1, <1>2, <1>3, <1>4

\* What the counts of OneFrame are made of.
LEMMA Counts ==
  ASSUME ViewerTypeOK
  PROVE  /\ remote \in Remotes /\ items \in Seq(Items)
         /\ FramesIn(remote.wire) \in Nat /\ FramesIn(items) \in Nat
         /\ remote.acks \in 0..1 /\ remote.unacked \in BOOLEAN /\ frameToAck \in BOOLEAN
<1>1. remote \in Remotes /\ items \in Seq(Items) /\ frameToAck \in BOOLEAN
  BY DEF ViewerTypeOK, Remotes, Items
<1>2. remote.wire \in Seq(Items) /\ remote.acks \in 0..1 /\ remote.unacked \in BOOLEAN
  BY <1>1 DEF Remotes
<1> QED
  BY <1>1, <1>2, ItemOps

LEMMA FrameInit == ViewerInit => FrameInv
<1> SUFFICES ASSUME ViewerInit PROVE FrameInv
  OBVIOUS
<1>1. <<>> \in Seq({"frame", "message"}) /\ FramesIn(<<>>) = 0
  BY ItemOps DEF Items
<1>2. ViewerTypeOK
  <2>1. /\ remote = [unacked |-> FALSE, wire |-> items, acks |-> 0, frames |-> 0, messages |-> 0]
        /\ items \in Seq(Items) /\ readers = [r \in Readers |-> "idle"]
        /\ sock = "unmade" /\ opening = "pending" /\ frameToAck = FALSE
    BY <1>1 DEF ViewerInit, ViewerInitAt, Items
  <2>2. 0 \in 0..1 /\ 0 \in 0..MaxFrames /\ 0 \in 0..MaxMessages
    BY ViewerAssumption
  <2>3. remote \in Remotes
    BY <2>1, <2>2 DEF Remotes
  <2> QED
    BY <2>1, <2>3 DEF ViewerTypeOK, Remotes, Items
<1>3. Balance
  BY <1>1 DEF ViewerInit, ViewerInitAt, Balance, Held, Owed
<1> QED
  BY <1>2, <1>3 DEF FrameInv

LEMMA FrameStep == FrameInv /\ [ViewerNext]_viewer => FrameInv'
<1> SUFFICES ASSUME FrameInv, [ViewerNext]_viewer PROVE FrameInv'
  OBVIOUS
<1>0. ViewerTypeOK /\ Balance
  BY DEF FrameInv
<1>c. /\ remote \in Remotes /\ items \in Seq(Items)
      /\ FramesIn(remote.wire) \in Nat /\ FramesIn(items) \in Nat
      /\ remote.acks \in 0..1 /\ remote.unacked \in BOOLEAN /\ frameToAck \in BOOLEAN
  BY <1>0, Counts
<1>e. <<>> \in Seq(Items) /\ FramesIn(<<>>) = 0
  BY ItemOps
<1>b. 0 \in 0..1 /\ FALSE \in BOOLEAN
  OBVIOUS
<1>t. ASSUME remote' \in Remotes, items' \in Seq(Items), frameToAck' \in BOOLEAN,
             sock' \in {"unmade", "connecting", "open", "closing", "cut", "closed"},
             opening' \in {"pending", "viewer", "failed"},
             \/ UNCHANGED readers
             \/ WakeAll
             \/ \E r \in Readers, x \in {"idle", "waiting", "done"} : readers' = [readers EXCEPT ![r] = x]
      PROVE  ViewerTypeOK'
  <2>1. readers' \in [Readers -> {"idle", "waiting", "woken", "done"}]
    BY <1>0, <1>t DEF WakeAll, ViewerTypeOK
  <2> QED
    BY <1>t, <2>1 DEF ViewerTypeOK, Remotes, Items
<1>s. /\ sock \in {"unmade", "connecting", "open", "closing", "cut", "closed"}
      /\ opening \in {"pending", "viewer", "failed"}
  BY <1>0 DEF ViewerTypeOK
<1>1. CASE Connect \/ AbortOpening \/ Opens \/ Close
  <2>1. UNCHANGED <<items, frameToAck, readers, remote>>
    BY <1>1 DEF Connect, AbortOpening, Opens, Close
  <2>2. Held' = Held /\ Owed' = Owed
    BY <2>1 DEF Held, Owed
  <2>3. Balance'
    BY <1>0, <1>1, <2>2, <1>c DEF Connect, AbortOpening, Opens, Close, Balance, Owed
  <2>4. ViewerTypeOK'
    BY <1>c, <1>s, <1>t, <1>1, <2>1 DEF Connect, AbortOpening, Opens, Close
  <2> QED
    BY <2>3, <2>4 DEF FrameInv
<1>2. CASE Receive
  <2>1. /\ remote.wire \in Seq(Items) /\ remote.wire # <<>>
        /\ items' = Append(items, Head(remote.wire)) /\ remote' = [remote EXCEPT !.wire = Tail(@)]
        /\ WakeAll /\ UNCHANGED <<sock, opening, frameToAck>>
    BY <1>c, <1>2 DEF Receive, Remotes
  <2>2. Head(remote.wire) \in Items /\ Tail(remote.wire) \in Seq(Items) /\ items' \in Seq(Items)
    BY <1>c, <2>1, ItemOps
  <2>3. /\ FramesIn(items') = FramesIn(items) + IF Head(remote.wire) = "frame" THEN 1 ELSE 0
        /\ FramesIn(remote.wire) = FramesIn(Tail(remote.wire))
                                     + IF Head(remote.wire) = "frame" THEN 1 ELSE 0
        /\ FramesIn(Tail(remote.wire)) \in Nat
    BY <1>c, <2>1, <2>2, FramesAppended, FramesTaken, ItemOps
  <2>4. /\ remote'.wire = Tail(remote.wire) /\ remote'.acks = remote.acks
        /\ remote'.unacked = remote.unacked /\ remote' \in Remotes
    BY <1>c, <2>1, <2>2 DEF Remotes
  <2>5. Held' = Held /\ Owed' = Owed
    <3>1. Held' = FramesIn(remote'.wire) + FramesIn(items') + (IF frameToAck' THEN 1 ELSE 0) + remote'.acks
      BY DEF Held
    <3> QED
      BY <1>c, <2>1, <2>3, <2>4, <3>1 DEF Held, Owed
  <2>6. Balance'
    BY <1>0, <2>1, <2>5 DEF Balance
  <2>7. ViewerTypeOK'
    BY <1>c, <1>s, <1>t, <2>1, <2>2, <2>4
  <2> QED
    BY <2>6, <2>7 DEF FrameInv
<1>3. CASE End
  <2>1. /\ sock' = "closed" /\ UNCHANGED <<items, frameToAck>> /\ WakeAll
        /\ remote' = [remote EXCEPT !.wire = <<>>, !.acks = 0] /\ opening' \in {opening, "failed"}
    BY <1>3 DEF End
  <2>2. remote' \in Remotes /\ remote'.wire = <<>> /\ remote'.acks = 0
    <3>1. PICK none \in Seq(Items) : none = <<>>
      BY <1>e
    <3>2. remote' = [remote EXCEPT !.wire = none, !.acks = 0]
      BY <2>1, <3>1
    <3>3. remote' \in Remotes
      BY <1>c, <1>b, <3>1, <3>2, AcksOps, Zenon
    <3>4. remote'.wire = none /\ remote'.acks = 0
      BY <1>c, <3>2 DEF Remotes
    <3> QED
      BY <3>1, <3>3, <3>4
  <2>3. Held' = FramesIn(items) + (IF frameToAck THEN 1 ELSE 0)
    <3>1. Held' = FramesIn(remote'.wire) + FramesIn(items') + (IF frameToAck' THEN 1 ELSE 0) + remote'.acks
      BY DEF Held
    <3> QED
      BY <1>c, <1>e, <2>1, <2>2, <3>1
  <2>4. Held' <= Held
    BY <1>c, <2>3 DEF Held
  <2>5. Held \in Nat /\ Held' \in Nat
    BY <1>c, <2>3 DEF Held
  <2>6. Balance'
    BY <1>0, <2>1, <2>4, <2>5 DEF Balance
  <2>7. ViewerTypeOK'
    BY <1>c, <1>s, <1>t, <2>1, <2>2
  <2> QED
    BY <2>6, <2>7 DEF FrameInv
<1>4. CASE ServerSends
  <2>1. PICK x \in Items :
          /\ remote'.wire = Append(remote.wire, x) /\ remote'.acks = remote.acks
          /\ x = "frame" => ~remote.unacked /\ remote'.unacked
          /\ x # "frame" => remote'.unacked = remote.unacked
          /\ remote' \in Remotes
    <3>1. \A x \in Items : Append(remote.wire, x) \in Seq(Items)
      BY <1>c, ItemOps DEF Remotes
    <3>2. "frame" \in Items /\ "message" \in Items
      BY DEF Items
    <3>3. CASE /\ ~remote.unacked /\ remote.frames < MaxFrames
               /\ remote' = [remote EXCEPT !.unacked = TRUE, !.frames = @ + 1,
                                           !.wire = Append(@, "frame")]
      <4>1. /\ remote'.wire = Append(remote.wire, "frame") /\ remote'.acks = remote.acks
            /\ remote'.unacked /\ remote' \in Remotes
        <5>1. PICK w \in Seq(Items) : w = Append(remote.wire, "frame")
          BY <3>1, <3>2
        <5>2. remote.frames + 1 \in 0..MaxFrames
          BY <1>c, <3>3, ViewerAssumption DEF Remotes
        <5>3. remote'.wire = w /\ remote'.acks = remote.acks /\ remote'.unacked /\ remote' \in Remotes
          BY <1>c, <3>3, <5>1, <5>2 DEF Remotes
        <5> QED
          BY <5>1, <5>3
      <4> QED
        BY <3>2, <3>3, <4>1
    <3>4. CASE /\ remote.messages < MaxMessages
               /\ remote' = [remote EXCEPT !.messages = @ + 1, !.wire = Append(@, "message")]
      <4>1. /\ remote'.wire = Append(remote.wire, "message") /\ remote'.acks = remote.acks
            /\ remote'.unacked = remote.unacked /\ remote' \in Remotes
        <5>1. PICK w \in Seq(Items) : w = Append(remote.wire, "message")
          BY <3>1, <3>2
        <5>2. remote.messages + 1 \in 0..MaxMessages
          BY <1>c, <3>4, ViewerAssumption DEF Remotes
        <5>3. /\ remote'.wire = w /\ remote'.acks = remote.acks
              /\ remote'.unacked = remote.unacked /\ remote' \in Remotes
          BY <1>c, <3>4, <5>1, <5>2 DEF Remotes
        <5> QED
          BY <5>1, <5>3
      <4> QED
        BY <3>2, <4>1
    <3> QED
      BY <1>4, <3>3, <3>4 DEF ServerSends
  <2>2. FramesIn(remote'.wire) = FramesIn(remote.wire) + IF x = "frame" THEN 1 ELSE 0
    BY <1>c, <2>1, FramesAppended DEF Remotes
  <2>3. sock \in {"open", "closing"} /\ UNCHANGED <<sock, opening, items, frameToAck, readers>>
    BY <1>4 DEF ServerSends
  <2>4. Held' = Held + IF x = "frame" THEN 1 ELSE 0
    <3>1. Held' = FramesIn(remote'.wire) + FramesIn(items') + (IF frameToAck' THEN 1 ELSE 0) + remote'.acks
      BY DEF Held
    <3> QED
      BY <1>c, <2>1, <2>2, <2>3, <3>1 DEF Held
  <2>5. Held \in Nat
    BY <1>c DEF Held
  <2>6. Balance'
    BY <1>0, <1>c, <2>1, <2>3, <2>4, <2>5 DEF Balance, Owed
  <2>7. ViewerTypeOK'
    BY <1>c, <1>s, <1>t, <2>1, <2>3
  <2> QED
    BY <2>6, <2>7 DEF FrameInv
<1>5. CASE ServerAcked
  <2>1. /\ remote.acks = 1 /\ remote' = [remote EXCEPT !.acks = @ - 1, !.unacked = FALSE]
        /\ UNCHANGED <<sock, opening, items, frameToAck, readers>>
    BY <1>c, <1>5 DEF ServerAcked
  <2>2. /\ remote' \in Remotes /\ remote'.acks = 0 /\ ~remote'.unacked
        /\ remote'.wire = remote.wire
    <3>1. remote' = [remote EXCEPT !.acks = 0, !.unacked = FALSE]
      BY <2>1
    <3>2. remote' \in Remotes
      BY <1>c, <1>b, <3>1, AcksOps, Zenon
    <3>3. remote'.acks = 0 /\ ~remote'.unacked /\ remote'.wire = remote.wire
      BY <1>c, <3>1 DEF Remotes
    <3> QED
      BY <3>2, <3>3
  <2>3. Held' = Held - 1 /\ Owed' = 0
    <3>1. Held' = FramesIn(remote'.wire) + FramesIn(items') + (IF frameToAck' THEN 1 ELSE 0) + remote'.acks
      BY DEF Held
    <3> QED
      BY <1>c, <2>1, <2>2, <3>1 DEF Held, Owed
  <2>4. Held \in Nat /\ Held >= 1
    BY <1>c, <2>1 DEF Held
  <2>5. Balance'
    BY <1>0, <2>1, <2>3, <2>4 DEF Balance
  <2>6. ViewerTypeOK'
    BY <1>c, <1>s, <1>t, <2>1, <2>2
  <2> QED
    BY <2>5, <2>6 DEF FrameInv
<1>6. ASSUME NEW r \in Readers, Round(r), UNCHANGED <<sock, opening>> PROVE FrameInv'
  <2>1. /\ remote' = [remote EXCEPT !.acks = IF frameToAck /\ sock = "open" THEN @ + 1 ELSE @]
        /\ frameToAck' = TakesFrame /\ items' = IF items = <<>> THEN items ELSE Tail(items)
        /\ \E x \in {"idle", "waiting", "done"} : readers' = [readers EXCEPT ![r] = x]
    BY <1>c, <1>6 DEF Round, Acknowledges, StillToAck, TakesFrame
  <2>2. frameToAck' \in BOOLEAN
    BY <2>1 DEF TakesFrame
  <2>3. /\ items' \in Seq(Items) /\ FramesIn(items') \in Nat
        /\ FramesIn(items) = FramesIn(items') + IF frameToAck' THEN 1 ELSE 0
    <3>1. CASE items = <<>>
      <4>1. items' = items /\ FramesIn(items) = 0 /\ ~frameToAck'
        BY <1>e, <2>1, <3>1 DEF TakesFrame
      <4> QED
        BY <1>c, <4>1
    <3>2. CASE items # <<>>
      <4>1. Tail(items) \in Seq(Items) /\ FramesIn(Tail(items)) \in Nat
        BY <1>c, <3>2, ItemOps
      <4> QED
        BY <1>c, <2>1, <3>2, <4>1, FramesTaken DEF TakesFrame
    <3> QED
      BY <3>1, <3>2
  <2>4. /\ frameToAck /\ sock = "open" => remote.acks = 0
        /\ Held = FramesIn(remote.wire) + FramesIn(items) + (IF frameToAck THEN 1 ELSE 0) + remote.acks
    BY <1>0, <1>c DEF Balance, Held
  <2>5. /\ remote' \in Remotes /\ remote'.wire = remote.wire /\ remote'.unacked = remote.unacked
        /\ remote'.acks = remote.acks + IF frameToAck /\ sock = "open" THEN 1 ELSE 0
    <3>1. PICK a \in 0..1 : a = remote.acks + IF frameToAck /\ sock = "open" THEN 1 ELSE 0
      BY <1>c, <2>4
    <3>2. remote' = [remote EXCEPT !.acks = a]
      <4>1. CASE frameToAck /\ sock = "open"
        BY <2>1, <3>1, <4>1
      <4>2. CASE ~(frameToAck /\ sock = "open")
        <5>1. a = remote.acks
          BY <1>c, <3>1, <4>2
        <5> QED
          BY <2>1, <4>2, <5>1
      <4> QED
        BY <4>1, <4>2
    <3>3. a \in 0..1 /\ FALSE \in BOOLEAN
      BY <3>1
    <3>4. /\ remote' \in Remotes /\ remote'.wire = remote.wire /\ remote'.unacked = remote.unacked
          /\ remote'.acks = a
      BY <1>c, <1>e, <3>2, <3>3, AcksOps, Zenon
    <3> QED
      BY <3>1, <3>4
  <2>6. /\ Held' = Held - IF frameToAck /\ sock # "open" THEN 1 ELSE 0
        /\ Owed' = Owed
    <3>1. Held' = FramesIn(remote'.wire) + FramesIn(items') + (IF frameToAck' THEN 1 ELSE 0) + remote'.acks
      BY DEF Held
    <3>2. FramesIn(remote'.wire) = FramesIn(remote.wire) /\ Owed' = Owed
      BY <2>5 DEF Owed
    <3>3. /\ FramesIn(items) = FramesIn(items') + IF frameToAck' THEN 1 ELSE 0
          /\ remote'.acks = remote.acks + IF frameToAck /\ sock = "open" THEN 1 ELSE 0
      BY <2>3, <2>5
    <3>4. CASE frameToAck /\ sock # "open"
      <4>1. remote'.acks = remote.acks
        BY <1>c, <3>3, <3>4
      <4>2. Held = FramesIn(remote.wire) + FramesIn(items) + 1 + remote.acks
        BY <2>4, <3>4
      <4>3. FramesIn(remote'.wire) + FramesIn(items') + (IF frameToAck' THEN 1 ELSE 0)
              = FramesIn(remote.wire) + FramesIn(items)
        BY <1>c, <2>2, <2>3, <3>2, <3>3
      <4>4. Held' = FramesIn(remote.wire) + FramesIn(items) + remote.acks
        BY <3>1, <4>1, <4>3
      <4> QED
        BY <1>c, <3>2, <3>4, <4>2, <4>4
    <3>5. CASE ~(frameToAck /\ sock # "open")
      BY <1>c, <2>2, <2>3, <2>4, <3>1, <3>2, <3>3, <3>5
    <3> QED
      BY <3>2, <3>4, <3>5
  <2>7. Held \in Nat /\ Owed \in Nat /\ (frameToAck => Held >= 1)
    BY <1>c, <2>4 DEF Owed
  <2>8. Balance'
    BY <1>0, <1>6, <2>6, <2>7 DEF Balance
  <2>9. ViewerTypeOK'
    BY <1>c, <1>s, <1>t, <1>6, <2>1, <2>2, <2>3, <2>5
  <2> QED
    BY <2>8, <2>9 DEF FrameInv
<1>7. CASE UNCHANGED viewer
  <2>1. UNCHANGED <<sock, opening, items, frameToAck, readers, remote>>
    BY <1>7 DEF viewer
  <2> QED
    BY <2>1 DEF FrameInv, ViewerTypeOK, Balance, Held, Owed
<1> QED
  BY <1>1, <1>2, <1>3, <1>4, <1>5, <1>6, <1>7 DEF ViewerNext, Ask, Resume

\* At any time the one frame the server waits for is in one place, so that each is
\* acknowledged once and no reader has two old frames before it (previewViewer.ts:6-9).
THEOREM OneFrameCorrect == ViewerSpec => []OneFrame
<1>1. FrameInv => OneFrame
  BY DEF FrameInv, Balance, OneFrame, Held, Owed
<1> QED
  BY <1>1, FrameInit, FrameStep, PTL DEF ViewerSpec

-----------------------------------------------------------------------------
(* Dispatch and Invocation: what they promise of a signal, the envelope    *)
(* and the client, for any set of runs.  The inductive invariant adds to   *)
(* the type what each wait of the pipeline says of the mutations sent so   *)
(* far (Stages), and that the target remembered is an account of them      *)
(* (Account).                                                              *)

\* Where the pipeline stands, and what it has sent to get there.
Stages ==
  /\ at = "preflight" => sent = {} /\ target = Unknown /\ ~signalled
  /\ at = "title" => sent = {"title"} /\ given.path = "existing"
  /\ at \in {"create", "shell"} => sent = {"create"} /\ given.path = "create"
  /\ at = "mode" => given.path = "existing" /\ given.mode
  /\ at = "launch" => given.path = "launch"
  /\ at \in Mutations => at \in sent
  /\ at \in {"title", "create", "shell", "mode", "message", "launch", "linking"} => target.run = NoRun
  /\ at \in {"title", "mode"} => sent \cap Starts = {}
  /\ at = "interrupt" => target.run # NoRun
  /\ at \notin {"over", "killed"} => sent \ server.applied \subseteq {at}

\* The target says what was sent and which run it started.
Account ==
  /\ target.thread <=> sent # {}
  /\ target.mode <=> given.mode /\ sent \cap {"mode", "create", "launch"} # {}
  /\ target.run # NoRun => target.run = server.run
  /\ server.run # NoRun => sent \cap Starts # {}
  /\ "interrupt" \in sent => signalled /\ target.run # NoRun
  /\ server.interrupted = IF "interrupt" \in server.applied THEN target.run ELSE NoRun

\* How the command has ended.
Ended ==
  Over =>
    /\ out.known = target
    /\ signalled => out.exit = 4
    /\ out.exit = 0 => sent = server.applied /\ target.run # NoRun
    /\ out.error = "interrupted" /\ sent \cap Starts # {} => "interrupt" \in server.applied

IInv == TypeOK /\ Stages /\ Account /\ Ended

USE DEF NoRun

LEMMA InitIInv == Init => IInv
<1> SUFFICES ASSUME Init PROVE IInv
  OBVIOUS
<1>1. TypeOK
  BY DispatchAssumption DEF Init, TypeOK, Unknown, Known, Mutations, Reads, Ends, Paths
<1>2. Stages /\ Account /\ Ended
  BY DEF Init, Stages, Account, Ended, Over, Unknown, Mutations
<1> QED
  BY <1>1, <1>2 DEF IInv

\* Every way to end by an error.
LEMMA CatchKeeps ==
  ASSUME IInv, UNCHANGED <<given, server>>, NEW error, NEW sig \in BOOLEAN,
         error \in {"interrupted", "precondition", "missing", "connection"},
         Catch(error, sig, target), signalled' = sig, signalled => sig,
         error = "interrupted" => sent \cap Starts = {} \/ "interrupt" \in server.applied
  PROVE  IInv'
<1>1. TypeOK'
  BY DEF IInv, TypeOK, Catch, ExitCodeFor, Ends
<1>2. Stages' /\ Account' /\ Ended'
  BY DEF IInv, Stages, Account, Ended, Over, Catch, ExitCodeFor, Mutations
<1> QED
  BY <1>1, <1>2 DEF IInv

\* The message is dispatched, by itself or after the thread's mode.
LEMMA StartTurnKeeps ==
  ASSUME IInv, UNCHANGED <<given, server, signalled>>, StartTurn, ~signalled,
         \/ at \in {"preflight", "title"} /\ given.path = "existing"
         \/ at = "shell",
         sent \cap Starts = {}, sent \subseteq server.applied
  PROVE  IInv'
<1>1. TypeOK'
  BY DEF IInv, TypeOK, StartTurn, Send, Known, Mutations
<1>2. Stages'
  BY DEF IInv, TypeOK, Stages, Account, StartTurn, Send, Mutations, Starts, Unknown, Known
<1>3. Account'
  BY DEF IInv, TypeOK, Stages, Account, StartTurn, Send, Mutations, Starts, Unknown, Known
<1>4. Ended'
  BY DEF StartTurn, Send, Ended, Over
<1> QED
  BY <1>1, <1>2, <1>3, <1>4 DEF IInv

\* The handler goes on with the run the message was given.
LEMMA HandleKeeps ==
  ASSUME IInv, UNCHANGED <<given, server, signalled>>, at \in {"linking", "launch"},
         sent \subseteq server.applied, NEW r \in Runs, r = server.run,
         Handle([target EXCEPT !.run = r])
  PROVE  IInv'
<1> DEFINE t == [target EXCEPT !.run = r]
<1>0. /\ t \in Known /\ t.run = r /\ t.thread = target.thread /\ t.mode = target.mode /\ r # NoRun
      /\ "interrupt" \notin sent
  BY DispatchAssumption DEF IInv, TypeOK, Known, Stages, Account
<1> HIDE DEF t
<1>1. CASE signalled
  <2>1. Send("interrupt", t)
    BY <1>1 DEF Handle, t
  <2>2. TypeOK'
    BY <2>1, <1>0 DEF IInv, TypeOK, Send, Mutations
  <2>3. Stages' /\ Account' /\ Ended'
    BY <2>1, <1>0, <1>1 DEF IInv, TypeOK, Stages, Account, Ended, Over, Send, Mutations, Starts
  <2> QED
    BY <2>2, <2>3 DEF IInv
<1>2. CASE ~signalled
  <2>1. /\ at' \in {"following", "over"} /\ target' = t /\ sent' = sent
        /\ at' = "over" => out' = [exit |-> 0, error |-> "none", known |-> t]
        /\ at' = "following" => out' = out
    BY <1>2 DEF Handle, t
  <2>2. TypeOK'
    BY <2>1, <1>0 DEF IInv, TypeOK, Ends
  <2>3. Stages'
    BY <2>1, <1>0, <1>2 DEF IInv, TypeOK, Stages, Mutations, Starts
  <2>5. Ended'
    BY <2>1, <1>0, <1>2 DEF IInv, TypeOK, Ended, Over, Mutations
  <2>4. Account'
    BY <2>1, <1>0, <1>2 DEF IInv, TypeOK, Account, Mutations, Starts
  <2> QED
    BY <2>2, <2>3, <2>4, <2>5 DEF IInv
<1> QED
  BY <1>1, <1>2

LEMMA ApplyKeeps ==
  ASSUME IInv, NEW m \in Mutations, Apply(m)
  PROVE  IInv'
<1>1. TypeOK'
  BY DEF IInv, TypeOK, Apply, Known
<1>2. Stages' /\ Account' /\ Ended'
  BY DEF IInv, TypeOK, Stages, Account, Ended, Over, Apply, Mutations, Starts
<1> QED
  BY <1>1, <1>2 DEF IInv

LEMMA TakeRunKeeps ==
  ASSUME IInv, TakeRun
  PROVE  IInv'
<1>1. TypeOK'
  BY DEF IInv, TypeOK, TakeRun
<1>2. Stages' /\ Account' /\ Ended'
  BY DEF IInv, TypeOK, Stages, Account, Ended, Over, TakeRun, Starts
<1> QED
  BY <1>1, <1>2 DEF IInv

\* The reads are done: the first mutation is sent.
LEMMA ReadyKeeps ==
  ASSUME IInv, Ready, UNCHANGED <<given, server, signalled>>
  PROVE  IInv'
<1>1. at = "preflight" /\ sent = {} /\ target = Unknown /\ ~signalled /\ Begin
  BY DEF Ready, Unless, IInv, Stages
<1>2. CASE given.path = "existing" /\ ~given.title
  <2>1. StartTurn
    BY <1>1, <1>2 DEF Begin
  <2> QED
    BY <2>1, <1>1, <1>2, StartTurnKeeps
<1>3. CASE given.path # "existing" \/ given.title
  <2>1. \/ /\ given.path = "existing"
           /\ Send("title", [Unknown EXCEPT !.thread = TRUE])
        \/ /\ given.path \in {"create", "launch"}
           /\ Send(given.path, [Unknown EXCEPT !.thread = TRUE, !.mode = given.mode])
    BY <1>1, <1>3 DEF Begin, IInv, TypeOK, Paths
  <2>2. TypeOK'
    BY <2>1 DEF IInv, TypeOK, Send, Unknown, Known, Mutations
  <2>3. Stages'
    BY <1>1, <2>1 DEF IInv, TypeOK, Stages, Send, Unknown, Mutations, Starts
  <2>4. Account'
    BY <1>1, <2>1 DEF IInv, TypeOK, Account, Send, Unknown, Mutations, Starts
  <2>5. Ended'
    BY <1>1, <2>1 DEF IInv, TypeOK, Ended, Over, Send, Unknown, Mutations, Starts
  <2> QED
    BY <2>2, <2>3, <2>4, <2>5 DEF IInv
<1> QED
  BY <1>2, <1>3

\* The receipt of each mutation.
LEMMA ReceiptKeeps ==
  ASSUME IInv, Receipt, UNCHANGED <<given, server, signalled>>
  PROVE  IInv'
<1>0. at \in Mutations /\ sent \subseteq server.applied /\ signalled \in BOOLEAN
  BY DEF Receipt, IInv, TypeOK, Stages, Mutations
<1>1. CASE at = "title"
  <2>1. Unless(StartTurn) /\ sent \cap Starts = {} /\ given.path = "existing"
    BY <1>1 DEF Receipt, IInv, Stages
  <2>2. CASE signalled
    <3>1. Catch("interrupted", TRUE, target)
      BY <2>1, <2>2 DEF Unless
    <3> QED
      BY <3>1, <2>1, <2>2, CatchKeeps
  <2>3. CASE ~signalled
    BY <1>0, <1>1, <2>1, <2>3, StartTurnKeeps DEF Unless
  <2> QED
    BY <2>2, <2>3
<1>2. CASE at = "create"
  <2>1. Await("shell")
    BY <1>2 DEF Receipt
  <2> QED
    BY <1>0, <1>2, <2>1 DEF IInv, TypeOK, Stages, Account, Ended, Over, Await, Reads, Mutations
<1>3. CASE at = "mode"
  <2>1. Send("message", target)
    BY <1>3 DEF Receipt
  <2>2. TypeOK'
    BY <2>1 DEF IInv, TypeOK, Send, Mutations
  <2>3. Stages' /\ Account' /\ Ended'
    BY <1>0, <1>3, <2>1 DEF IInv, TypeOK, Stages, Account, Ended, Over, Send, Mutations, Starts
  <2> QED
    BY <2>2, <2>3 DEF IInv
<1>4. CASE at = "message"
  <2>1. AfterReceipt /\ target.run = NoRun
    BY <1>4 DEF Receipt, IInv, Stages
  <2>2. /\ at' \in {"linking", "following"}
        /\ UNCHANGED <<sent, target, out>>
    BY <2>1 DEF AfterReceipt, Handle, Await
  <2> QED
    BY <1>0, <2>1, <2>2 DEF IInv, TypeOK, Stages, Account, Ended, Over, Reads, Ends, Mutations
<1>5. CASE at = "launch"
  <2>1. AfterLaunch
    BY <1>5 DEF Receipt
  <2>2. CASE Catch("precondition", signalled, target)
    BY <2>2, <1>0, CatchKeeps
  <2>3. ASSUME NEW r \in Runs, LinkOfLaunch(r), Handle([target EXCEPT !.run = r])
        PROVE  IInv'
    BY <1>0, <1>5, <2>3, HandleKeeps DEF LinkOfLaunch
  <2> QED
    BY <2>1, <2>2, <2>3 DEF AfterLaunch
<1>6. CASE at = "interrupt"
  <2>1. Catch("interrupted", TRUE, target) /\ "interrupt" \in server.applied /\ signalled
    BY <1>6 DEF Receipt, IInv, TypeOK, Account
  <2> QED
    BY <2>1, CatchKeeps
<1> QED
  BY <1>0, <1>1, <1>2, <1>3, <1>4, <1>5, <1>6 DEF Mutations

LEMMA ShellReadKeeps ==
  ASSUME IInv, ShellRead, UNCHANGED <<given, server, signalled>>
  PROVE  IInv'
<1>1. at = "shell" /\ sent \cap Starts = {} /\ sent \subseteq server.applied /\ signalled \in BOOLEAN
  BY DEF ShellRead, IInv, TypeOK, Stages, Starts
<1>2. CASE Catch("precondition", signalled, target)
  BY <1>1, <1>2, CatchKeeps
<1>3. CASE Unless(StartTurn) /\ signalled
  <2>1. Catch("interrupted", TRUE, target)
    BY <1>3 DEF Unless
  <2> QED
    BY <1>1, <1>3, <2>1, CatchKeeps
<1>4. CASE Unless(StartTurn) /\ ~signalled
  BY <1>1, <1>4, StartTurnKeeps DEF Unless
<1> QED
  BY <1>2, <1>3, <1>4 DEF ShellRead

LEMMA LinkedKeeps ==
  ASSUME IInv, Linked, UNCHANGED <<given, server, signalled>>
  PROVE  IInv'
<1>1. at = "linking" /\ sent \subseteq server.applied /\ server.run \in Runs
  BY DEF Linked, IInv, TypeOK, Stages, Mutations
<1> QED
  BY <1>1, HandleKeeps DEF Linked

LEMMA FailsKeeps ==
  ASSUME IInv, Fails, UNCHANGED <<given, server, signalled>>
  PROVE  IInv'
<1>1. PICK error \in {"connection", "missing"} : Catch(error, signalled, target)
  BY DEF Fails
<1>2. signalled \in BOOLEAN /\ error # "interrupted"
  BY DEF IInv, TypeOK
<1> QED
  BY <1>1, <1>2, CatchKeeps

LEMMA SignalKeeps ==
  ASSUME IInv, Signal
  PROVE  IInv'
<1>1. CASE at = "preflight"
  <2>1. Catch("interrupted", TRUE, target) /\ sent = {} /\ signalled' = TRUE /\ UNCHANGED <<given, server>>
    BY <1>1 DEF Signal, IInv, Stages
  <2> QED
    BY <2>1, CatchKeeps
<1>2. CASE at # "preflight"
  BY <1>2 DEF Signal, IInv, TypeOK, Stages, Account, Ended, Over, Ends
<1> QED
  BY <1>1, <1>2

LEMMA SecondSignalKeeps ==
  ASSUME IInv, SecondSignal
  PROVE  IInv'
BY DEF SecondSignal, IInv, TypeOK, Stages, Account, Ended, Over, Ends, Mutations

LEMMA StepIInv == IInv /\ [Next]_vars => IInv'
<1> SUFFICES ASSUME IInv, [Next]_vars PROVE IInv'
  OBVIOUS
<1>1. CASE Serve
  BY <1>1, ApplyKeeps, TakeRunKeeps DEF Serve
<1>2. CASE Answer
  BY <1>2, ReadyKeeps, ReceiptKeeps, ShellReadKeeps, LinkedKeeps DEF Answer
<1>3. CASE Failure
  BY <1>3, FailsKeeps DEF Failure
<1>4. CASE Signal \/ SecondSignal
  BY <1>4, SignalKeeps, SecondSignalKeeps
<1>5. CASE UNCHANGED vars
  BY <1>5 DEF vars, IInv, TypeOK, Stages, Account, Ended, Over
<1> QED
  BY <1>1, <1>2, <1>3, <1>4, <1>5 DEF Next

LEMMA Invariant == Spec => []IInv
<1> QED
  BY InitIInv, StepIInv, PTL DEF Spec

\* Every variable of the pipeline keeps to its type, and the server applies only what
\* was sent.
THEOREM TypeCorrect == Spec => []TypeOK
<1>1. IInv => TypeOK
  BY DEF IInv
<1> QED
  BY <1>1, Invariant, PTL

\* Only the run that the server linked to the message is reported or interrupted, and
\* only a signal has it interrupted (dispatch.ts:131-132).
THEOREM OnlyOurRunCorrect == Spec => []OnlyOurRun
<1>1. IInv => OnlyOurRun
  BY DEF IInv, TypeOK, Account, OnlyOurRun
<1> QED
  BY <1>1, Invariant, PTL

\* The envelope accounts for every mutation that was sent (docs/user/t3c/policy.md:29-38).
THEOREM EnvelopeIsTrueCorrect == Spec => []EnvelopeIsTrue
<1>1. IInv => EnvelopeIsTrue
  BY DEF IInv, TypeOK, Account, Ended, EnvelopeIsTrue
<1> QED
  BY <1>1, Invariant, PTL

\* A command that was interrupted has stopped the run it started, and exits 4
\* (docs/user/t3c/policy.md:66-76).
THEOREM SignalStopsRunCorrect == Spec => []SignalStopsRun
<1>1. IInv => SignalStopsRun
  BY DEF IInv, TypeOK, Account, Ended, SignalStopsRun
<1> QED
  BY <1>1, Invariant, PTL

\* The two together: whose run is stopped, and when (docs/user/t3c/policy.md:66-76).
THEOREM StopsOwnRunCorrect == Spec => []StopsOwnRun
<1>1. OnlyOurRun /\ SignalStopsRun => StopsOwnRun
  BY DEF StopsOwnRun
<1> QED
  BY <1>1, OnlyOurRunCorrect, SignalStopsRunCorrect, PTL

\* After a signal the pipeline sends the interrupt at most, and the message of a turn
\* whose mode is being set (dispatch.ts:90).
THEOREM StopsAfterSignalCorrect == Spec => StopsAfterSignal
<1> DEFINE Allowed == {"interrupt"} \cup (IF at = "mode" THEN {"message"} ELSE {})
<1>1. IInv /\ [Next]_vars => [signalled => sent' \ sent \subseteq Allowed]_vars
  <2> SUFFICES ASSUME IInv, Next, signalled PROVE sent' \ sent \subseteq Allowed
    OBVIOUS
  <2>1. CASE Serve \/ Failure \/ Signal \/ SecondSignal
    BY <2>1 DEF Serve, Apply, TakeRun, Failure, Fails, Catch, Signal, SecondSignal
  <2>2. CASE Ready \/ ShellRead
    BY <2>2 DEF Ready, ShellRead, Unless, Catch
  <2>3. CASE Linked
    BY <2>3 DEF Linked, Handle, Send
  <2>4. CASE Receipt
    BY <2>4 DEF Receipt, Mutations, Unless, Await, AfterReceipt, AfterLaunch, Handle, Send, Catch
  <2> QED
    BY <2>1, <2>2, <2>3, <2>4 DEF Next, Answer
<1> QED
  BY <1>1, Invariant, PTL DEF Spec, StopsAfterSignal

-----------------------------------------------------------------------------
(* The invocation around it *)

\* The steps an invocation makes of a command are steps of Dispatch, so that all that is
\* proved above holds of the command inside main (main.ts:84-109).
THEOREM InvocationRunsDispatch == InvocationSpec => Spec
<1>1. InvocationInit => Init
  BY DEF InvocationInit
<1>2. [InvocationNext]_command => [Next]_vars
  <2> SUFFICES ASSUME [InvocationNext]_command PROVE [Next]_vars
    OBVIOUS
  <2>1. CASE MakeClient \/ ClientMade \/ Return \/ UNCHANGED command
    BY <2>1 DEF MakeClient, ClientMade, Return, command
  <2>2. CASE ClientFails
    BY <2>2 DEF ClientFails, Next
  <2>3. CASE CommandStep
    BY <2>3 DEF CommandStep, Next
  <2> QED
    BY <2>1, <2>2, <2>3 DEF InvocationNext
<1> QED
  BY <1>1, <1>2, PTL DEF InvocationSpec, Spec

\* A client is there before anything is sent, and is closed before main returns.
ClientInv ==
  /\ LeavesNothing
  /\ main = "returned" => at = "over"
  /\ client = "closed" => main = "returned"

LEMMA ClientInvStep == ClientInv /\ [InvocationNext]_command => ClientInv'
<1> SUFFICES ASSUME ClientInv, [InvocationNext]_command PROVE ClientInv'
  OBVIOUS
<1> USE DEF ClientInv, LeavesNothing, InvocationTypeOK
<1>1. CASE MakeClient \/ ClientMade
  BY <1>1 DEF MakeClient, ClientMade, vars
<1>2. CASE ClientFails
  BY <1>2 DEF ClientFails, Failure, Fails, Catch, vars
<1>3. CASE Return
  BY <1>3 DEF Return, MayClose, vars
<1>4. CASE CommandStep
  <2>1. UNCHANGED <<client, main>>
    BY <1>4 DEF CommandStep, invocation
  <2>2. CASE Answer /\ client = "open"
    BY <2>1, <2>2
  <2>3. CASE Serve \/ Signal \/ SecondSignal \/ Failure
    <3>1. UNCHANGED sent
      BY <2>3 DEF Serve, Apply, TakeRun, Signal, SecondSignal, Failure, Fails, Catch
    <3>2. at = "over" => at' = "over"
      BY <2>3 DEF Serve, Apply, TakeRun, Signal, SecondSignal, Failure, Fails, Ends, Mutations, Reads
    <3> QED
      BY <2>1, <3>1, <3>2
  <2> QED
    BY <1>4, <2>2, <2>3 DEF CommandStep
<1>5. CASE UNCHANGED command
  BY <1>5 DEF command, invocation, vars
<1> QED
  BY <1>1, <1>2, <1>3, <1>4, <1>5 DEF InvocationNext

\* When main returns, the client it made is closed, also when it was still being made as
\* the command ended (context.ts:72-75).
THEOREM LeavesNothingCorrect == InvocationSpec => []LeavesNothing
<1>1. InvocationInit => ClientInv
  BY DEF InvocationInit, Init, ClientInv, LeavesNothing, InvocationTypeOK
<1>2. ClientInv => LeavesNothing
  BY DEF ClientInv
<1> QED
  BY <1>1, <1>2, ClientInvStep, PTL DEF InvocationSpec
=============================================================================
