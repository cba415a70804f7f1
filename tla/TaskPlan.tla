-------------------------------- MODULE TaskPlan --------------------------------
(***************************************************************************)
(* The task plans of one Session and the assignments bound to their        *)
(* leaves: plan tools of the Agents, dispatch and revival of workers, and  *)
(* the workers' reports, each on a thread of its own.  The console lock    *)
(* covers one operation of ConsoleState, and the whole of a dispatch.      *)
(* Titles, times and the lists of former assignments are left out.         *)
(***************************************************************************)
EXTENDS Naturals, FiniteSets

CONSTANTS
  Tasks, Owners, Assignments,
  First,          \* the owner whose plan is searched first
  Shapes,         \* forests the Agents submit: a parent, Root or Absent for each task
  Given,          \* the statuses they submit with a forest
  Root, Absent, NoAssignment,
  MaxTools, MaxFailedSaves

Statuses == {"not_started", "in_progress", "completed", "blocked"}
Finals == {"completed", "blocked"}

ASSUME PlanConstants ==
  /\ First \in Owners /\ Root \notin Tasks /\ Absent \notin Tasks /\ Root # Absent
  /\ NoAssignment \notin Assignments
  /\ Shapes \subseteq [Tasks -> Tasks \cup {Root, Absent}]
  /\ Given \subseteq [Tasks -> Statuses]
  /\ MaxTools \in Nat /\ MaxFailedSaves \in Nat

VARIABLES
  plan,     \* owner -> its forest, statuses and active assignments
  lock,     \* the assignment whose dispatch holds the console lock
  prev,     \* the plans that dispatch would restore
  call,     \* assignment -> program point of the dispatch or revival that makes it
  task,     \* assignment -> its plan_task_id
  worker,   \* assignment -> program point of its worker
  outcome,  \* assignment -> the status its worker reports
  revived,  \* assignments made by revive_agent
  upsert,   \* plan_upsert between its read and its write
  writer,   \* owner -> task -> who wrote the status last (for the properties)
  tools, failedSaves

planVars == <<plan, lock, prev, call, task, worker, outcome, revived, upsert, writer, tools, failedSaves>>

Plans == [up : [Tasks -> Tasks \cup {Root, Absent}], status : [Tasks -> Statuses],
          active : [Tasks -> Assignments \cup {NoAssignment}]]
Blank == [t \in Tasks |-> "not_started"]
NoPlan == [up |-> [t \in Tasks |-> Absent], status |-> Blank,
           active |-> [t \in Tasks |-> NoAssignment]]

Has(p, t) == p.up[t] # Absent
Children(p, t) == {c \in Tasks : p.up[c] = t}
Leaf(p, t) == Has(p, t) /\ Children(p, t) = {}

Combine(states) ==
  IF states = {"completed"} THEN "completed"
  ELSE IF "blocked" \in states THEN "blocked"
  ELSE IF states = {"not_started"} THEN "not_started" ELSE "in_progress"

\* Every status below and including t, derived from the leaves.
Derived(p) ==
  LET d[t \in Tasks] == IF Children(p, t) = {} THEN p.status[t]
                        ELSE Combine({d[c] : c \in Children(p, t)})
  IN d

\* The edits rewrite a forest root by root: a root that is itself written is
\* returned as it is, every other root is derived again with all below it.
Reconciled(p, written) ==
  [p EXCEPT !.status =
     [t \in Tasks |-> IF t \in written /\ p.up[t] = Root THEN p.status[t] ELSE Derived(p)[t]]]

\* Mutant: the parents keep what they had.
WriteAlone(p, ts, s) == [p EXCEPT !.status = [t \in Tasks |-> IF t \in ts THEN s ELSE @[t]]]

Write(p, ts, s) ==
  Reconciled([p EXCEPT !.status = [t \in Tasks |-> IF t \in ts THEN s ELSE @[t]]], ts)

By(o, ts, w) == writer' = [writer EXCEPT ![o] = [t \in Tasks |-> IF t \in ts THEN w ELSE @[t]]]

PlanTypeOK ==
  /\ plan \in [Owners -> Plans] /\ prev \in [Owners -> Plans]
  /\ lock \in Assignments \cup {NoAssignment}
  /\ call \in [Assignments -> {"none", "checked", "bus", "bind", "done", "failed"}]
  /\ task \in [Assignments -> Tasks \cup {Absent}]
  /\ worker \in [Assignments -> {"none", "running", "hook", "reporting", "exited"}]
  /\ outcome \in [Assignments -> Finals] /\ revived \subseteq Assignments
  /\ upsert \in [Owners -> Plans \cup {NoPlan}]
  /\ writer \in [Owners -> [Tasks -> Assignments \cup {NoAssignment}]]
  /\ tools \in 0..MaxTools /\ failedSaves \in 0..MaxFailedSaves

\* What state.json holds when the host starts: plans nobody works on.
Filed(shape) == [NoPlan EXCEPT !.up = shape]

PlanInit ==
  /\ plan \in [Owners -> {NoPlan} \cup {Filed(shape) : shape \in Shapes}]
  /\ lock = NoAssignment /\ prev = [o \in Owners |-> NoPlan]
  /\ call = [a \in Assignments |-> "none"] /\ task = [a \in Assignments |-> Absent]
  /\ worker = [a \in Assignments |-> "none"] /\ outcome \in [Assignments -> Finals]
  /\ revived = {} /\ upsert = [o \in Owners |-> NoPlan]
  /\ writer = [o \in Owners |-> [t \in Tasks |-> NoAssignment]]
  /\ tools = 0 /\ failedSaves = 0

Unlocked == lock = NoAssignment
Tool == tools < MaxTools /\ tools' = tools + 1
bus == <<lock, prev, call, task, worker, outcome, revived, failedSaves>>

-----------------------------------------------------------------------------
\* The plan tools of one Agent.

\* set_task_plan replaces the forest; what read_task_plan returned for a task,
\* its execution included, may be submitted again.
SetPlan(o, shape, given, kept) ==
  /\ Unlocked /\ Tool
  /\ LET p == [up |-> shape,
               status |-> [t \in Tasks |-> IF shape[t] = Absent THEN "not_started" ELSE given[t]],
               active |-> [t \in Tasks |-> IF kept /\ shape[t] # Absent THEN plan[o].active[t]
                                           ELSE NoAssignment]]
     IN plan' = [plan EXCEPT ![o] = Reconciled(p, {})]
  /\ By(o, Tasks, NoAssignment)
  /\ UNCHANGED <<bus, upsert>>

UpdateTask(o, t, s) ==
  /\ Unlocked /\ Tool /\ Leaf(plan[o], t)
  /\ plan' = [plan EXCEPT ![o] = Write(@, {t}, s)]
  /\ By(o, {t}, NoAssignment)
  /\ UNCHANGED <<bus, upsert>>

\* plan_upsert reads the plan in one operation and replaces it in another.
UpsertRead(o) ==
  /\ Unlocked /\ upsert[o] = NoPlan /\ Tool
  /\ upsert' = [upsert EXCEPT ![o] = plan[o]]
  /\ UNCHANGED <<plan, writer, bus>>

UpsertWrite(o, t, s) ==
  /\ Unlocked /\ upsert[o] # NoPlan
  /\ LET old == upsert[o]
         rest == [old EXCEPT !.up = [u \in Tasks |->
                    IF u = t \/ (old.up[u] = t /\ old.up[t] = Root) THEN Absent ELSE @[u]]]
         new == [rest EXCEPT !.up[t] = Root, !.active[t] = NoAssignment, !.status[t] = s]
     IN IF old.up[t] \in {Root, Absent}
        THEN plan' = [plan EXCEPT ![o] = Reconciled(new, {})] /\ By(o, Tasks, NoAssignment)
        ELSE UNCHANGED <<plan, writer>>
  /\ upsert' = [upsert EXCEPT ![o] = NoPlan]
  /\ UNCHANGED <<bus, tools>>

-----------------------------------------------------------------------------
\* Dispatch and revival of a worker for a plan leaf.

\* is_bindable_leaf, before anything is locked.
CallCheck(a, t) ==
  /\ Unlocked /\ call[a] = "none" /\ \E o \in Owners : Leaf(plan[o], t)
  /\ call' = [call EXCEPT ![a] = "checked"] /\ task' = [task EXCEPT ![a] = t]
  /\ \E again \in BOOLEAN : revived' = IF again THEN revived \cup {a} ELSE revived
  /\ UNCHANGED <<plan, lock, prev, worker, outcome, upsert, writer, tools, failedSaves>>

\* dispatch_agent takes the lock and its snapshot; a revival takes neither.
Admit(a) ==
  /\ call[a] = "checked"
  /\ call' = [call EXCEPT ![a] = "bus"]
  /\ IF a \in revived THEN UNCHANGED <<lock, prev>> ELSE Unlocked /\ lock' = a /\ prev' = plan
  /\ UNCHANGED <<plan, task, worker, outcome, revived, upsert, writer, tools, failedSaves>>

\* The TaskBus has the assignment and its worker may run.
OnBus(a) ==
  /\ call[a] = "bus" /\ call' = [call EXCEPT ![a] = "bind"]
  /\ worker' = [worker EXCEPT ![a] = "running"]
  /\ UNCHANGED <<plan, lock, prev, task, outcome, revived, upsert, writer, tools, failedSaves>>

May(a) == Unlocked \/ lock = a
Release(a) == lock' = IF lock = a THEN NoAssignment ELSE lock

\* The owner bind_execution finds first, whatever else is bindable.
Holder(t) == IF Has(plan[First], t) \/ Cardinality(Owners) = 1 THEN First
             ELSE CHOOSE o \in Owners \ {First} : TRUE
Bindable(a) == Leaf(plan[Holder(task[a])], task[a])
Bound(a) ==
  LET o == Holder(task[a])
  IN /\ plan' = [plan EXCEPT ![o] = [Write(@, {task[a]}, "in_progress") EXCEPT !.active[task[a]] = a]]
     /\ By(o, {task[a]}, a)

Bind(a) ==
  /\ call[a] = "bind" /\ May(a) /\ Bindable(a) /\ Bound(a)
  /\ call' = [call EXCEPT ![a] = "done"] /\ Release(a)
  /\ UNCHANGED <<prev, task, worker, outcome, revived, upsert, tools, failedSaves>>

\* Mutant: the rollback leaves what bind_execution wrote before its save.
BindFailsKept(a) ==
  /\ call[a] = "bind" /\ May(a)
  /\ \/ ~Bindable(a) /\ UNCHANGED <<plan, writer, failedSaves>>
     \/ Bindable(a) /\ failedSaves < MaxFailedSaves /\ failedSaves' = failedSaves + 1 /\ Bound(a)
  /\ call' = [call EXCEPT ![a] = "failed"] /\ Release(a)
  /\ worker' = [worker EXCEPT ![a] = IF a \in revived THEN @ ELSE "exited"]
  /\ UNCHANGED <<prev, task, outcome, revived, upsert, tools>>

\* The leaf is gone or has become a parent, or the save fails behind the change
\* of memory.  A dispatch restores the plans and removes its worker, a revival
\* leaves both.
BindFails(a) ==
  /\ call[a] = "bind" /\ May(a)
  /\ IF a \notin revived
     THEN /\ plan' = prev /\ UNCHANGED writer
          /\ \/ ~Bindable(a) /\ UNCHANGED failedSaves
             \/ Bindable(a) /\ failedSaves < MaxFailedSaves /\ failedSaves' = failedSaves + 1
     ELSE \/ ~Bindable(a) /\ UNCHANGED <<plan, writer, failedSaves>>
          \/ Bindable(a) /\ failedSaves < MaxFailedSaves /\ failedSaves' = failedSaves + 1 /\ Bound(a)
  /\ call' = [call EXCEPT ![a] = "failed"] /\ Release(a)
  /\ worker' = [worker EXCEPT ![a] = IF a \in revived THEN @ ELSE "exited"]
  /\ UNCHANGED <<prev, task, outcome, revived, upsert, tools>>

-----------------------------------------------------------------------------
\* The worker.

\* Mutant: a report is matched by the task and not by its active assignment.
ReportedByTask(a) ==
  plan' = [o \in Owners |-> IF Has(plan[o], task[a]) THEN Write(plan[o], {task[a]}, outcome[a]) ELSE plan[o]]

\* update_assignment_status: the first plan with a task whose active assignment
\* reports.
Reported(a) ==
  LET found == {o \in Owners : \E t \in Tasks : Has(plan[o], t) /\ plan[o].active[t] = a}
      o == IF First \in found THEN First ELSE CHOOSE x \in found : TRUE
      ts == {t \in Tasks : Has(plan[o], t) /\ plan[o].active[t] = a}
  IN IF found = {} THEN UNCHANGED plan
     ELSE plan' = [plan EXCEPT ![o] = Write(@, ts, outcome[a])]

\* report_task publishes the report on the bus, whose event the run's hook
\* receives on this thread, ...
ReportHook(a) ==
  /\ worker[a] = "running" /\ Unlocked /\ Reported(a)
  /\ worker' = [worker EXCEPT ![a] = "reporting"]
  /\ UNCHANGED <<lock, prev, call, task, outcome, revived, upsert, writer, tools, failedSaves>>

\* ... and then updates the plan once more by itself.
ReportTask(a) ==
  /\ worker[a] = "reporting" /\ Unlocked /\ Reported(a)
  /\ worker' = [worker EXCEPT ![a] = "exited"]
  /\ UNCHANGED <<lock, prev, call, task, outcome, revived, upsert, writer, tools, failedSaves>>

\* The worker fails or ends without a report: the hook alone blocks its leaf.
WorkerFails(a) ==
  /\ worker[a] = "running" /\ Unlocked /\ outcome[a] = "blocked" /\ Reported(a)
  /\ worker' = [worker EXCEPT ![a] = "exited"]
  /\ UNCHANGED <<lock, prev, call, task, outcome, revived, upsert, writer, tools, failedSaves>>

PlanNext ==
  \/ \E o \in Owners : \/ \E shape \in Shapes, given \in Given, kept \in BOOLEAN :
                            SetPlan(o, shape, given, kept)
                       \/ UpsertRead(o)
                       \/ \E t \in Tasks, s \in Statuses : UpdateTask(o, t, s) \/ UpsertWrite(o, t, s)
  \/ \E a \in Assignments : \/ \E t \in Tasks : CallCheck(a, t)
                            \/ Admit(a) \/ OnBus(a) \/ Bind(a) \/ BindFails(a)
                            \/ ReportHook(a) \/ ReportTask(a) \/ WorkerFails(a)

PlanSpec == PlanInit /\ [][PlanNext]_planVars
=============================================================================
