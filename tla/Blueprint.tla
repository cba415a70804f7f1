------------------------------- MODULE Blueprint -------------------------------
(***************************************************************************)
(* ConsoleBlueprint: the durable topology of one Session, and the          *)
(* validated edits of console_state.py as operators on it.  Prompts, roles *)
(* and mapper modes are left out; a router is the set of its pairs.        *)
(***************************************************************************)
CONSTANTS
  Workers,      \* names a worker may have
  Coordinator

ASSUME CoordinatorAssumption == Coordinator \notin Workers

Names == Workers \cup {Coordinator}
Pairs == Names \X Names

Blueprints ==
  [workers : SUBSET Workers, edges : SUBSET Pairs, mapped : SUBSET Names, routes : SUBSET Pairs]
Empty == [workers |-> {}, edges |-> {}, mapped |-> {}, routes |-> {}]
Nodes(b) == b.workers \cup {Coordinator}

\* What is reachable from a node: the least set that holds it and follows edges.
Reach(edges, n) ==
  {m \in Names : \A S \in SUBSET Names :
      n \in S /\ (\A e \in edges : e[1] \in S => e[2] \in S) => m \in S}

Edits ==
  [kind : {"add", "dispatch", "remove", "map"}, node : Names]
  \cup [kind : {"link", "unlink"}, node : Names, to : Names]
  \cup [kind : {"route"}, node : Names, targets : SUBSET Names]

Without(pairs, n) == {p \in pairs : n \notin {p[1], p[2]}}

AddWorker(b, n) == [b EXCEPT !.workers = @ \cup {n}]
RemoveWorker(b, n) ==
  [b EXCEPT !.workers = @ \ {n}, !.edges = Without(@, n),
            !.mapped = @ \ {n}, !.routes = Without(@, n)]
AddConnection(b, n, m) == [b EXCEPT !.edges = @ \cup {<<n, m>>}]
RemoveConnection(b, n, m) == [b EXCEPT !.edges = @ \ {<<n, m>>}]
SetMapper(b, n) == [b EXCEPT !.mapped = @ \cup {n}]
SetRouter(b, n, ts) == [b EXCEPT !.routes = {p \in @ : p[1] # n} \cup ({n} \X ts)]

\* The depth-first search for the source from the target.
ClosesCycle(edges, n, m) == n \in Reach(edges, m)

\* The conditions under which ConsoleState does not raise.
Accepts(b, op) ==
  CASE op.kind \in {"add", "dispatch"} -> op.node \in Workers \ b.workers
    [] op.kind = "remove" -> op.node \in b.workers
    [] op.kind = "map" -> op.node \in Nodes(b)
    [] op.kind = "link" -> /\ {op.node, op.to} \subseteq Nodes(b) /\ op.node # op.to
                           /\ <<op.node, op.to>> \notin b.edges
                           /\ ~ClosesCycle(b.edges, op.node, op.to)
    [] op.kind = "unlink" -> <<op.node, op.to>> \in b.edges
    [] op.kind = "route" -> {op.node} \cup op.targets \subseteq Nodes(b)

Effect(b, op) ==
  CASE op.kind \in {"add", "dispatch"} -> AddWorker(b, op.node)
    [] op.kind = "remove" -> RemoveWorker(b, op.node)
    [] op.kind = "map" -> SetMapper(b, op.node)
    [] op.kind = "link" -> AddConnection(b, op.node, op.to)
    [] op.kind = "unlink" -> RemoveConnection(b, op.node, op.to)
    [] op.kind = "route" -> SetRouter(b, op.node, op.targets)

Acyclic(edges) == \A e \in edges : e[1] \notin Reach(edges, e[2])
WellFormed(b) ==
  /\ b.edges \subseteq Nodes(b) \X Nodes(b) /\ Acyclic(b.edges)
  /\ b.mapped \subseteq Nodes(b)
  /\ b.routes \subseteq Nodes(b) \X Nodes(b)
=============================================================================
