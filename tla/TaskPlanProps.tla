------------------------------ MODULE TaskPlanProps ------------------------------
(* What keeps the plans of a Session true to the work of its Agents.       *)
EXTENDS TaskPlan, TLC

Unassigned(p, t) == p.active[t] = NoAssignment

\* Whatever tools, dispatches, rollbacks and reports come in whatever order, the
\* status of a task with sub-tasks is the one its sub-tasks imply, at every
\* depth, and so after a restart from the saved plans (_derive_status through
\* set_plan, update_task_status, bind_execution and update_assignment_status).
\* A root that carries an execution of its own is written like a leaf.
ParentsDerived ==
  \A o \in Owners, t \in Tasks :
    Children(plan[o], t) # {} /\ Unassigned(plan[o], t) =>
      plan[o].status[t] = Combine({plan[o].status[c] : c \in Children(plan[o], t)})

\* Between two dispatches no task waits for a worker whose dispatch was undone:
\* the rollback takes the binding back together with the worker (dispatch_agent).
NoBindingWithoutWorker ==
  lock = NoAssignment =>
    \A o \in Owners, t \in Tasks :
      ~Unassigned(plan[o], t) => \/ call[plan[o].active[t]] # "failed"
                           \/ plan[o].active[t] \in revived

\* A dispatched worker that has ended has its outcome on the leaf it was bound
\* to, unless an Agent wrote that leaf since or bound it again: the report
\* cannot be overtaken by the binding it answers (dispatch_agent holds the
\* console lock over the dispatch and bind_execution).
ReportReachesPlan ==
  \A a \in Assignments \ revived :
    call[a] = "done" /\ worker[a] = "exited" =>
      \A o \in Owners, t \in Tasks :
        writer[o][t] = a /\ plan[o].active[t] = a /\ Leaf(plan[o], t) => plan[o].status[t] = outcome[a]

-----------------------------------------------------------------------------
\* The inductive invariant behind the theorems.

\* The parents of one plan have the status their children imply.
ParentsFollow(p) ==
  \A t \in Tasks :
    Children(p, t) # {} /\ Unassigned(p, t) => p.status[t] = Combine({p.status[c] : c \in Children(p, t)})
DerivedInv == \A o \in Owners : ParentsFollow(plan[o]) /\ ParentsFollow(prev[o])

\* An assignment is active in one owner's plan, wherever a copy of it is kept.
ActiveIn(o, a) == \E t \in Tasks : a \in {plan[o].active[t], prev[o].active[t], upsert[o].active[t]}
HomeInv == \A a \in Assignments, o, x \in Owners : ActiveIn(o, a) /\ ActiveIn(x, a) => o = x

\* From its admission to its binding a dispatch holds the lock: the plans are the
\* ones it would restore and its worker cannot report.
LockInv ==
  /\ lock # NoAssignment => plan = prev
  /\ \A a \in Assignments \ revived :
       /\ call[a] \in {"bus", "bind"} => lock = a
       /\ call[a] = "bind" => worker[a] = "running"

-----------------------------------------------------------------------------
\* The instance TLC checks: a parent with its leaf, and two roots.
CONSTANTS tp, tx

MCShapes == {(tp :> Root @@ tx :> tp), (tp :> Root @@ tx :> Root)}
MCGiven == {[t \in Tasks |-> "not_started"], (tp :> "completed" @@ tx :> "in_progress")}
AssignmentSymmetry == Permutations(Assignments)
=============================================================================
