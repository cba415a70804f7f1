-------------------------------- MODULE RunGraph --------------------------------
(***************************************************************************)
(* The run graph of one attempt, as a fold over its journal: what a fact,  *)
(* a committed snapshot and a live view do to the graph.  A node keeps its *)
(* state, parent and origin; texts, times, task ids and edges are left     *)
(* out.                                                                    *)
(***************************************************************************)
EXTENDS Integers, Sequences

CONSTANTS Agents, NoOne
NoOneAssumption == NoOne \notin Agents

Finished == {"succeeded", "failed", "stopped"}
NodeStates == {"pending", "queued", "running"} \cup Finished
RunFinished == {"completed", "run_failed", "run_stopped", "interrupted"}
RunStates == {"idle", "running", "stopping", "force_stopping"} \cup RunFinished

\* An unknown node of the graph has origin "none".
Nodes == [state : NodeStates, parent : Agents \cup {NoOne}, origin : {"none", "blueprint", "runtime"}]
Unknown == [state |-> "pending", parent |-> NoOne, origin |-> "none"]
Graphs == [run : RunStates, node : [Agents -> Nodes], cursor : Nat]
EmptyGraph(run) == [run |-> run, node |-> [a \in Agents |-> Unknown], cursor |-> 0]
Known(g) == {a \in Agents : g.node[a].origin # "none"}

\* A journal record: its type, the Agent it is about, the delegating Agent, and
\* whether it carries a task id.
AgentFacts == {"agent:running", "agent:completed", "agent:failed", "agent:stopped",
               "task:dispatched", "task:reported", "agent:context_checkpoint"}
RunFacts == {"execution_started", "stop_requested", "force_requested", "checkpoint_committed"}
            \cup RunFinished
Facts ==
  [type : AgentFacts, agent : Agents, parent : Agents \cup {NoOne}, task : BOOLEAN]
  \cup [type : RunFacts, agent : {NoOne}, parent : {NoOne}, task : {FALSE}]
Fact(type, a, p, task) == [type |-> type, agent |-> a, parent |-> p, task |-> task]
RunFact(type) == Fact(type, NoOne, NoOne, FALSE)

RunAfter(run, type) ==
  CASE type = "execution_started" -> "running"
    [] type = "stop_requested" -> "stopping"
    [] type = "force_requested" -> "force_stopping"
    [] type \in RunFinished -> type
    [] OTHER -> run

NodeAfter(state, type) ==
  CASE type = "task:dispatched" -> "queued"
    [] type \in {"agent:completed", "task:reported"} -> "succeeded"
    [] type = "agent:failed" -> "failed"
    [] type = "agent:stopped" -> "stopped"
    [] type \in {"agent:running", "agent:context_checkpoint"} -> "running"
    [] OTHER -> state

\* The parent is kept by later facts that do not name it.
ParentAfter(node, e) == IF e.parent \notin {NoOne, e.agent} THEN e.parent ELSE node.parent

\* apply_journal_event
Reduced(g, e) ==
  IF e.agent = NoOne THEN [g EXCEPT !.run = RunAfter(@, e.type), !.cursor = @ + 1]
  ELSE [g EXCEPT !.cursor = @ + 1,
                 !.node[e.agent] = [state |-> NodeAfter(@.state, e.type),
                                    parent |-> ParentAfter(@, e),
                                    origin |-> IF e.task THEN "runtime" ELSE "blueprint"]]

Replay(g, facts) ==
  LET f[n \in 0..Len(facts)] == IF n = 0 THEN g ELSE Reduced(f[n - 1], facts[n])
  IN f[Len(facts)]

\* What the live swarm shows of its own nodes.
Views == [Agents -> Nodes]
NodeOf(v, n) == [state |-> v.state, origin |-> v.origin,
                 parent |-> IF v.parent = NoOne THEN n.parent ELSE v.parent]

\* apply_live_snapshot
ApplyLive(g, view) ==
  [g EXCEPT !.node = [a \in Agents |-> IF view[a].origin = "none" THEN @[a]
                                       ELSE NodeOf(view[a], @[a])]]

\* apply_run_graph_snapshot, into a fresh graph.
Hydrated(g, snap) == [ApplyLive(g, snap.node) EXCEPT !.run = snap.run, !.cursor = snap.cursor]

\* _events with skip_lines.
Rest(facts, skip) == SubSeq(facts, skip + 1, Len(facts))

\* The graph read from the manifest's state and checkpoint and the journal; a
\* negative cursor stands for a manifest without a checkpoint.
NoSnap == [run |-> "idle", node |-> [a \in Agents |-> Unknown], cursor |-> -1]
Seeded(state, snap, facts) ==
  IF snap = NoSnap THEN Replay(EmptyGraph(state), facts)
  ELSE Replay(Hydrated(EmptyGraph(state), snap), Rest(facts, snap.cursor))
=============================================================================
