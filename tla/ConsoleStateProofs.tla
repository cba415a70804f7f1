---------------------------- MODULE ConsoleStateProofs ----------------------------
(* Theorems about the two halves of a Session's console state: SwarmGraph and  *)
(* the topology edits of Blueprint, for every set of workers and any number of *)
(* edits, builds, failed saves and crashes; and the plans of TaskPlan, for any *)
(* forests, assignments, tools and failed saves.                               *)
EXTENDS SwarmGraphProps, TaskPlanProps, FiniteSetTheorems, TLAPS

-----------------------------------------------------------------------------
\* What is reachable: the least set of names that holds a node and is closed.
Closed(edges, S) == \A e \in edges : e[1] \in S => e[2] \in S

LEMMA PairFacts ==
  ASSUME NEW A, NEW e \in A \X A
  PROVE  e[1] \in A /\ e[2] \in A /\ e = <<e[1], e[2]>>
  OBVIOUS

LEMMA ReachLeast ==
  ASSUME NEW edges, NEW n, NEW S \in SUBSET Names, n \in S, Closed(edges, S)
  PROVE  Reach(edges, n) \subseteq S
  BY DEF Reach, Closed

LEMMA ReachClosed ==
  ASSUME NEW edges \in SUBSET Pairs, NEW n \in Names
  PROVE  /\ n \in Reach(edges, n) /\ Reach(edges, n) \in SUBSET Names
         /\ Closed(edges, Reach(edges, n))
<1>1. n \in Reach(edges, n) /\ Reach(edges, n) \in SUBSET Names
  BY DEF Reach
<1>2. ASSUME NEW e \in edges, e[1] \in Reach(edges, n)
      PROVE  e[2] \in Reach(edges, n)
  <2>1. e[2] \in Names
    BY PairFacts DEF Pairs
  <2>2. ASSUME NEW S \in SUBSET Names, n \in S, \A f \in edges : f[1] \in S => f[2] \in S
        PROVE  e[2] \in S
    <3>1. e[1] \in S
      BY <1>2, <2>2 DEF Reach
    <3> QED BY <2>2, <3>1
  <2> QED BY <2>1, <2>2 DEF Reach
<1> QED BY <1>1, <1>2 DEF Closed

\* Fewer edges reach less, and so keep a graph without cycles.
LEMMA ReachMonotone ==
  ASSUME NEW edges \in SUBSET Pairs, NEW fewer \in SUBSET edges, NEW n \in Names
  PROVE  Reach(fewer, n) \subseteq Reach(edges, n)
<1>1. Closed(fewer, Reach(edges, n))
  BY ReachClosed DEF Closed
<1> QED BY <1>1, ReachClosed, ReachLeast

LEMMA FewerStaysAcyclic ==
  ASSUME NEW edges \in SUBSET Pairs, NEW fewer \in SUBSET edges, Acyclic(edges)
  PROVE  Acyclic(fewer)
<1> SUFFICES ASSUME NEW e \in fewer, e[1] \in Reach(fewer, e[2])
             PROVE  FALSE
  BY DEF Acyclic
<1>1. e[2] \in Names
  BY PairFacts DEF Pairs
<1> QED BY <1>1, ReachMonotone DEF Acyclic

\* The search for the source from the target is enough: an edge it lets pass
\* closes no cycle, neither through itself nor through an edge that was there.
LEMMA SearchedEdgeStaysAcyclic ==
  ASSUME NEW edges \in SUBSET Pairs, NEW n \in Names, NEW m \in Names,
         Acyclic(edges), ~ClosesCycle(edges, n, m)
  PROVE  Acyclic(edges \cup {<<n, m>>})
<1> DEFINE more == edges \cup {<<n, m>>}
<1>1. n \notin Reach(edges, m)
  BY DEF ClosesCycle
\* What does not reach the source reaches no more than before.
<1>2. ASSUME NEW x \in Names, n \notin Reach(edges, x)
      PROVE  Reach(more, x) \subseteq Reach(edges, x)
  <2>1. Closed(edges, Reach(edges, x)) /\ x \in Reach(edges, x) /\ Reach(edges, x) \in SUBSET Names
    BY ReachClosed
  <2>2. Closed(more, Reach(edges, x))
    BY <1>2, <2>1 DEF Closed
  <2> QED BY <2>1, <2>2, ReachLeast
<1> SUFFICES ASSUME NEW e \in more, e[1] \in Reach(more, e[2])
             PROVE  FALSE
  BY DEF Acyclic
<1>3. CASE e = <<n, m>>
  BY <1>1, <1>2, <1>3
<1>4. CASE e \in edges
  <2>1. e[1] \in Names /\ e[2] \in Names
    BY <1>4, PairFacts DEF Pairs
  <2>2. e[1] \notin Reach(edges, e[2])
    BY <1>4 DEF Acyclic
  <2>3. n \in Reach(edges, e[2])
    BY <1>2, <2>1, <2>2
  <2> DEFINE S == Reach(edges, e[2]) \cup Reach(edges, m)
  <2>4. Closed(more, S) /\ e[2] \in S /\ S \in SUBSET Names
    <3>1. /\ Closed(edges, Reach(edges, e[2])) /\ e[2] \in Reach(edges, e[2])
          /\ Reach(edges, e[2]) \in SUBSET Names
      BY <2>1, ReachClosed
    <3>2. Closed(edges, Reach(edges, m)) /\ m \in Reach(edges, m) /\ Reach(edges, m) \in SUBSET Names
      BY ReachClosed
    <3>3. ASSUME NEW f \in more, f[1] \in S
          PROVE  f[2] \in S
      <4>1. CASE f = <<n, m>>
        BY <3>2, <4>1
      <4>2. CASE f \in edges
        BY <3>1, <3>2, <3>3, <4>2 DEF Closed
      <4> QED BY <4>1, <4>2
    <3>4. Closed(more, S)
      BY <3>3 DEF Closed
    <3> QED BY <3>1, <3>2, <3>4
  <2>5. e[1] \in Reach(edges, m)
    BY <2>2, <2>4, ReachLeast
  <2>6. e[2] \in Reach(edges, m)
    BY <1>4, <2>5, ReachClosed DEF Closed
  <2>7. Reach(edges, e[2]) \subseteq Reach(edges, m)
    BY <2>6, ReachClosed, ReachLeast
  <2> QED BY <1>1, <2>3, <2>7
<1> QED BY <1>3, <1>4

-----------------------------------------------------------------------------
\* The edits on a blueprint.

LEMMA EditTypes ==
  ASSUME NEW op \in Edits
  PROVE  /\ op.node \in Names
         /\ op.kind \in {"add", "dispatch", "remove", "map", "link", "unlink", "route"}
         /\ op.kind \in {"link", "unlink"} => op.to \in Names
         /\ op.kind = "route" => op.targets \in SUBSET Names
  BY DEF Edits

LEMMA BlueprintFields ==
  ASSUME NEW b \in Blueprints
  PROVE  /\ b.workers \in SUBSET Workers /\ b.edges \in SUBSET Pairs
         /\ b.mapped \in SUBSET Names /\ b.routes \in SUBSET Pairs
         /\ Nodes(b) \in SUBSET Names
  BY DEF Blueprints, Nodes, Names

LEMMA SameBlueprint ==
  ASSUME NEW b \in Blueprints, NEW c \in Blueprints,
         b.workers = c.workers, b.edges = c.edges, b.mapped = c.mapped, b.routes = c.routes
  PROVE  b = c
  BY DEF Blueprints

LEMMA RemoveWorkerFields ==
  ASSUME NEW b \in Blueprints, NEW n
  PROVE  /\ RemoveWorker(b, n) \in Blueprints
         /\ RemoveWorker(b, n).workers = b.workers \ {n} /\ RemoveWorker(b, n).edges = Without(b.edges, n)
         /\ RemoveWorker(b, n).mapped = b.mapped \ {n} /\ RemoveWorker(b, n).routes = Without(b.routes, n)
  BY BlueprintFields DEF RemoveWorker, Blueprints, Without

LEMMA RemoveWorkerFacts ==
  ASSUME NEW b \in Blueprints, NEW n \in Names
  PROVE  /\ RemoveWorker(b, n) \in Blueprints
         /\ WellFormed(b) => WellFormed(RemoveWorker(b, n))
<1> DEFINE c == RemoveWorker(b, n)
<1>1. /\ c.workers = b.workers \ {n} /\ c.edges = Without(b.edges, n)
      /\ c.mapped = b.mapped \ {n} /\ c.routes = Without(b.routes, n)
      /\ c \in Blueprints
  BY RemoveWorkerFields
<1>2. ASSUME NEW pairs, pairs \subseteq Nodes(b) \X Nodes(b)
      PROVE  Without(pairs, n) \subseteq Nodes(c) \X Nodes(c) /\ Without(pairs, n) \subseteq pairs
  <2>1. ASSUME NEW p \in Without(pairs, n)
        PROVE  p \in Nodes(c) \X Nodes(c)
    <3>1. p \in Nodes(b) \X Nodes(b) /\ p[1] # n /\ p[2] # n
      BY <1>2, <2>1 DEF Without
    <3>2. p[1] \in Nodes(b) /\ p[2] \in Nodes(b) /\ p = <<p[1], p[2]>>
      BY <3>1
    <3>3. p[1] \in Nodes(c) /\ p[2] \in Nodes(c)
      BY <1>1, <3>1, <3>2 DEF Nodes
    <3> QED BY <3>2, <3>3
  <2> QED BY <2>1 DEF Without
<1>3. ASSUME WellFormed(b) PROVE WellFormed(c)
  <2>1. Acyclic(c.edges)
    BY <1>1, <1>2, <1>3, BlueprintFields, FewerStaysAcyclic DEF WellFormed
  <2>2. c.mapped \subseteq Nodes(c)
    BY <1>1, <1>3 DEF WellFormed, Nodes
  <2> QED BY <1>1, <1>2, <1>3, <2>1, <2>2 DEF WellFormed
<1> QED BY <1>1, <1>3

\* An edit that is accepted leaves a blueprint, and a well-formed one.
LEMMA AcceptedEdit ==
  ASSUME NEW b \in Blueprints, NEW op \in Edits, Accepts(b, op)
  PROVE  /\ Effect(b, op) \in Blueprints
         /\ WellFormed(b) => WellFormed(Effect(b, op))
<1> DEFINE c == Effect(b, op)
<1> USE EditTypes, BlueprintFields
<1>1. CASE op.kind \in {"add", "dispatch"}
  <2>1. /\ op.node \in Workers /\ c = AddWorker(b, op.node)
    BY <1>1 DEF Accepts, Effect
  <2>2. /\ c \in Blueprints /\ c.workers = b.workers \cup {op.node}
        /\ c.edges = b.edges /\ c.mapped = b.mapped /\ c.routes = b.routes
    BY <2>1 DEF AddWorker, Blueprints
  <2>3. Nodes(b) \subseteq Nodes(c)
    BY <2>2 DEF Nodes
  <2> QED BY <2>2, <2>3 DEF WellFormed
<1>2. CASE op.kind = "remove"
  BY <1>2, RemoveWorkerFacts DEF Effect
<1>3. CASE op.kind = "map"
  <2>1. op.node \in Nodes(b) /\ c = SetMapper(b, op.node)
    BY <1>3 DEF Accepts, Effect
  <2>2. /\ c \in Blueprints /\ c.workers = b.workers /\ c.mapped = b.mapped \cup {op.node}
        /\ c.edges = b.edges /\ c.routes = b.routes
    BY <2>1 DEF SetMapper, Blueprints
  <2> QED BY <2>1, <2>2 DEF WellFormed, Nodes
<1>4. CASE op.kind = "link"
  <2>1. /\ op.node \in Nodes(b) /\ op.to \in Nodes(b) /\ ~ClosesCycle(b.edges, op.node, op.to)
        /\ c = AddConnection(b, op.node, op.to)
    BY <1>4 DEF Accepts, Effect
  <2>2. /\ c \in Blueprints /\ c.workers = b.workers /\ c.mapped = b.mapped
        /\ c.edges = b.edges \cup {<<op.node, op.to>>} /\ c.routes = b.routes
    BY <1>4, <2>1 DEF AddConnection, Blueprints, Pairs
  <2>3. WellFormed(b) => Acyclic(c.edges)
    BY <1>4, <2>1, <2>2, SearchedEdgeStaysAcyclic DEF WellFormed
  <2>4. Nodes(c) = Nodes(b)
    BY <2>2 DEF Nodes
  <2> QED BY <2>1, <2>2, <2>3, <2>4 DEF WellFormed
<1>5. CASE op.kind = "unlink"
  <2>1. c = RemoveConnection(b, op.node, op.to)
    BY <1>5 DEF Effect
  <2>2. /\ c \in Blueprints /\ c.workers = b.workers /\ c.mapped = b.mapped
        /\ c.edges = b.edges \ {<<op.node, op.to>>} /\ c.routes = b.routes
    BY <2>1 DEF RemoveConnection, Blueprints
  <2>3. WellFormed(b) => Acyclic(c.edges)
    BY <2>2, FewerStaysAcyclic DEF WellFormed
  <2> QED BY <2>2, <2>3 DEF WellFormed, Nodes
<1>6. CASE op.kind = "route"
  <2>1. /\ op.node \in Nodes(b) /\ op.targets \subseteq Nodes(b)
        /\ c = SetRouter(b, op.node, op.targets)
    BY <1>6 DEF Accepts, Effect
  <2>2. /\ c.workers = b.workers /\ c.mapped = b.mapped /\ c.edges = b.edges
        /\ c.routes = {p \in b.routes : p[1] # op.node} \cup ({op.node} \X op.targets)
        /\ c = [workers |-> b.workers, edges |-> b.edges, mapped |-> b.mapped, routes |-> c.routes]
    BY <2>1 DEF SetRouter, Blueprints
  <2>3. {op.node} \X op.targets \subseteq Nodes(b) \X Nodes(b)
    BY <2>1
  <2>4. c.routes \in SUBSET Pairs /\ c \in Blueprints
    BY <2>2, <2>3 DEF Pairs, Blueprints
  <2> QED BY <2>2, <2>3, <2>4 DEF WellFormed, Nodes
<1> QED BY <1>1, <1>2, <1>3, <1>4, <1>5, <1>6

-----------------------------------------------------------------------------
\* Types.

LEMMA CountsAssumption ==
  MaxEdits \in Nat /\ MaxFaults \in Nat /\ MaxBuilds \in Nat /\ MaxCrashes \in Nat
  BY GraphBounds
USE CountsAssumption

EditRecords == [pc : {"free", "check", "apply", "build", "rollback"}, op : Edits, prev : Blueprints,
                live : BOOLEAN, worker : BOOLEAN]
BuildRecords == [pc : {"idle", "read", "assign"}, graph : Blueprints, run : BOOLEAN]
TypeInv == TypeOK /\ edit \in EditRecords /\ build \in BuildRecords

LEMMA EmptyType == Empty \in Blueprints /\ WellFormed(Empty)
<1>1. Empty \in Blueprints
  BY DEF Empty, Blueprints
<1>2. WellFormed(Empty)
  BY DEF Empty, WellFormed, Acyclic
<1> QED BY <1>1, <1>2

LEMMA FreeType == Free \in EditRecords /\ Idle \in BuildRecords
<1>1. NoOp \in Edits
  BY DEF NoOp, Edits, Names
<1> QED BY <1>1, EmptyType DEF Free, Idle, EditRecords, BuildRecords

LEMMA TypeFields ==
  ASSUME TypeInv
  PROVE  /\ bp \in Blueprints /\ file \in Blueprints /\ swarm \in Blueprints
         /\ edit.op \in Edits /\ edit.prev \in Blueprints /\ build.graph \in Blueprints
         /\ edit.op.node \in Names
         /\ edit \in EditRecords /\ build \in BuildRecords
         /\ open \in BOOLEAN /\ made \in BOOLEAN /\ ahead \in BOOLEAN /\ coord \in BOOLEAN /\ outdated \in BOOLEAN
         /\ edit.pc \in {"free", "check", "apply", "build", "rollback"}
         /\ edit.live \in BOOLEAN /\ edit.worker \in BOOLEAN
         /\ agents \in SUBSET Workers /\ edits \in Nat /\ faults \in Nat /\ builds \in Nat /\ crashes \in Nat
  BY EditTypes DEF TypeInv, TypeOK, EditRecords, BuildRecords

\* What is not about a record or a count of the state.
LEMMA TypeStep ==
  ASSUME bp' \in Blueprints, file' \in Blueprints, swarm' \in Blueprints, agents' \in SUBSET Workers,
         disk' \in {"missing", "valid", "corrupt"}, run' \in {"idle", "preparing", "active"},
         open' \in BOOLEAN, coord' \in BOOLEAN, made' \in BOOLEAN, ahead' \in BOOLEAN, outdated' \in BOOLEAN,
         edit' \in EditRecords, build' \in BuildRecords,
         edits' \in 0..MaxEdits, faults' \in 0..MaxFaults, builds' \in 0..MaxBuilds, crashes' \in 0..MaxCrashes
  PROVE  TypeInv'
<1>1. /\ edit'.pc \in {"free", "check", "apply", "build", "rollback"}
      /\ edit'.op \in Edits /\ edit'.prev \in Blueprints /\ edit'.live \in BOOLEAN /\ edit'.worker \in BOOLEAN
      /\ build'.pc \in {"idle", "read", "assign"} /\ build'.graph \in Blueprints
  BY DEF EditRecords, BuildRecords
<1>2. {edit'.live, edit'.worker, open', coord', made', ahead', outdated'} \subseteq BOOLEAN
  BY <1>1
<1> QED BY <1>1, <1>2 DEF TypeInv, TypeOK

LEMMA TypeInductive == Spec => []TypeInv
<1>1. Init => TypeInv
  <2> SUFFICES ASSUME Init PROVE TypeInv
    OBVIOUS
  <2>1. file \in Blueprints /\ disk \in {"missing", "valid", "corrupt"}
    BY EmptyType, StoredAssumption DEF Init
  <2>2. /\ open = FALSE /\ coord = FALSE /\ made = FALSE /\ ahead = FALSE /\ outdated = FALSE
        /\ edit = Free /\ build = Idle /\ run = "idle" /\ agents = {} /\ bp = Empty /\ swarm = Empty
        /\ edits = 0 /\ faults = 0 /\ builds = 0 /\ crashes = 0
    BY DEF Init
  <2>3. /\ edit.pc \in {"free", "check", "apply", "build", "rollback"}
        /\ edit.op \in Edits /\ edit.prev \in Blueprints /\ edit.live \in BOOLEAN /\ edit.worker \in BOOLEAN
        /\ build.pc \in {"idle", "read", "assign"} /\ build.graph \in Blueprints
    BY <2>2, FreeType DEF EditRecords, BuildRecords
  <2>4. {edit.live, edit.worker, open, coord, made, ahead, outdated} \subseteq BOOLEAN
    BY <2>2, <2>3
  <2> QED BY <2>1, <2>2, <2>3, <2>4, EmptyType, FreeType DEF TypeInv, TypeOK
<1>2. TypeInv /\ [Next]_vars => TypeInv'
  <2> SUFFICES ASSUME TypeInv, [Next]_vars PROVE TypeInv'
    OBVIOUS
  <2> USE TypeFields, EmptyType, FreeType
  <2>0. /\ disk \in {"missing", "valid", "corrupt"} /\ run \in {"idle", "preparing", "active"}
        /\ edits \in 0..MaxEdits /\ faults \in 0..MaxFaults /\ builds \in 0..MaxBuilds /\ crashes \in 0..MaxCrashes
    BY DEF TypeInv, TypeOK
  <2> USE <2>0
  <2>1. CASE Load
    BY <2>1, TypeStep DEF Load, live, host, counts
  <2>2. ASSUME NEW op \in Edits, Begin(op) PROVE TypeInv'
    <3>1. bp' \in Blueprints /\ file' \in Blueprints
      BY <2>2, AcceptedEdit DEF Begin
    <3>2. edit' \in EditRecords
      <4>1. Held(op) \in EditRecords
        BY DEF Held, EditRecords
      <4> QED BY <2>2, <4>1 DEF Begin
    <3>3. edits' \in 0..MaxEdits /\ faults' \in 0..MaxFaults
      BY <2>2 DEF Begin
    <3>4. ahead' \in BOOLEAN /\ outdated' \in BOOLEAN /\ disk' \in {"missing", "valid", "corrupt"}
      BY <2>2 DEF Begin
    <3>5. UNCHANGED <<open, live, host, builds, crashes>>
      BY <2>2 DEF Begin
    <3> QED BY <3>1, <3>2, <3>3, <3>4, <3>5, TypeStep DEF live, host
  <2>3. CASE Check
    <3>1. edit' \in EditRecords
      BY <2>3 DEF Check, Goto, EditRecords
    <3> QED BY <2>3, <3>1, TypeStep DEF Check, console, live, host, counts
  <2>4. CASE Apply
    <3>1. swarm' \in Blueprints
      BY <2>4, AcceptedEdit DEF Apply
    <3>2. agents' \in SUBSET Workers
      BY <2>4 DEF Apply, Adds, Accepts
    <3> QED BY <2>4, <3>1, <3>2, TypeStep DEF Apply, console, host, counts
  <2>5. CASE ApplyFails
    <3>1. swarm' \in Blueprints
      BY <2>5, AcceptedEdit DEF ApplyFails
    <3>2. edit' \in EditRecords
      <4>1. PICK built \in BOOLEAN : edit' = [edit EXCEPT !.pc = "rollback", !.worker = Adds /\ built]
        BY <2>5 DEF ApplyFails
      <4>2. (Adds /\ built) \in BOOLEAN
        OBVIOUS
      <4> QED BY <4>1, <4>2 DEF EditRecords
    <3> QED BY <2>5, <3>1, <3>2, TypeStep DEF ApplyFails, console, host, counts
  <2>6. CASE Build
    <3>1. edit' \in EditRecords
      BY <2>6 DEF Build, Goto, EditRecords
    <3>2. swarm' \in Blueprints /\ agents' \in SUBSET Workers
      BY <2>6, BlueprintFields DEF Build
    <3>3. made' \in BOOLEAN /\ outdated' \in BOOLEAN
      BY <2>6 DEF Build
    <3> QED BY <2>6, <3>1, <3>2, <3>3, TypeStep DEF Build, console, host, counts
  <2>7. CASE Rollback
    <3>1. swarm' \in Blueprints
      BY <2>7, RemoveWorkerFacts DEF Rollback
    <3>2. /\ file' \in Blueprints /\ disk' \in {"missing", "valid", "corrupt"} /\ ahead' \in BOOLEAN
          /\ faults' \in 0..MaxFaults /\ UNCHANGED <<edits, builds, crashes>>
      <4>1. CASE Saved(edit.prev)
        BY <4>1 DEF Saved, counts
      <4>2. CASE SaveFails
        BY <4>2 DEF SaveFails, Fault
      <4> QED BY <2>7, <4>1, <4>2 DEF Rollback
    <3>3. /\ bp' = edit.prev /\ edit' = Free /\ UNCHANGED <<open, coord, made, agents, host, outdated>>
      BY <2>7 DEF Rollback
    <3> QED BY <3>1, <3>2, <3>3, TypeStep DEF host
  <2>8. CASE Ensure
    <3>1. build' \in BuildRecords
      BY <2>8 DEF Ensure, Idle, BuildRecords
    <3>2. builds' \in 0..MaxBuilds /\ coord' \in BOOLEAN
      BY <2>8 DEF Ensure
    <3> QED BY <2>8, <3>1, <3>2, TypeStep DEF Ensure, console
  <2>9. CASE BuildRead
    <3>1. build' \in BuildRecords
      BY <2>9 DEF BuildRead, BuildRecords
    <3> QED BY <2>9, <3>1, TypeStep DEF BuildRead, console, live, counts
  <2>10. CASE BuildAssign
    <3>1. outdated' \in BOOLEAN /\ made' \in BOOLEAN
      BY <2>10 DEF BuildAssign
    <3>2. swarm' \in Blueprints /\ agents' \in SUBSET Workers
      BY <2>10, BlueprintFields DEF BuildAssign
    <3> QED BY <2>10, <3>1, <3>2, TypeStep DEF BuildAssign, console, counts
  <2>11. CASE BuildFails \/ Run
    BY <2>11, TypeStep DEF BuildFails, Run, RunStarts, RunActive, RunEnds, console, live, counts
  <2>12. CASE Crash
    <3>1. crashes' \in 0..MaxCrashes
      BY <2>12 DEF Crash
    <3> QED BY <2>12, <3>1, TypeStep DEF Crash
  <2>13. CASE UNCHANGED vars
    BY <2>13, TypeStep DEF vars, console, live, host, counts
  <2> QED BY <2>1, <2>2, <2>3, <2>4, <2>5, <2>6, <2>7, <2>8, <2>9, <2>10, <2>11, <2>12, <2>13 DEF Next
<1> QED BY <1>1, <1>2, PTL DEF Spec

\* The types of the topology's copies and of the threads that change them.
THEOREM GraphTypeCorrect == Spec => []TypeOK
<1>1. TypeInv => TypeOK
  BY DEF TypeInv
<1> QED BY <1>1, TypeInductive, PTL

-----------------------------------------------------------------------------
\* The copies agree.

\* What the roll-back of a dispatched worker takes away was all of it.
LEMMA RemoveUndoesAdd ==
  ASSUME NEW b \in Blueprints, NEW op \in Edits, WellFormed(b), Accepts(b, op),
         op.kind \in {"add", "dispatch"}
  PROVE  RemoveWorker(b, op.node) = b /\ RemoveWorker(Effect(b, op), op.node) = b
<1> DEFINE n == op.node
<1>1. n \in Workers /\ n \notin b.workers /\ n \notin Nodes(b)
  BY CoordinatorAssumption DEF Accepts, Nodes
<1>2. ASSUME NEW pairs, pairs \subseteq Nodes(b) \X Nodes(b)
      PROVE  Without(pairs, n) = pairs
  <2>1. \A p \in pairs : p[1] # n /\ p[2] # n
    BY <1>1, <1>2
  <2> QED BY <2>1 DEF Without
<1>3. Without(b.edges, n) = b.edges /\ Without(b.routes, n) = b.routes /\ b.mapped \ {n} = b.mapped
  BY <1>1, <1>2 DEF WellFormed
<1>4. ASSUME NEW c \in Blueprints, c.workers \ {n} = b.workers, c.edges = b.edges,
             c.mapped = b.mapped, c.routes = b.routes
      PROVE  RemoveWorker(c, n) = b
  <2> DEFINE d == RemoveWorker(c, n)
  <2>1. /\ d \in Blueprints /\ d.workers = c.workers \ {n} /\ d.edges = Without(c.edges, n)
        /\ d.mapped = c.mapped \ {n} /\ d.routes = Without(c.routes, n)
    BY RemoveWorkerFields
  <2>2. d.workers = b.workers /\ d.edges = b.edges /\ d.mapped = b.mapped /\ d.routes = b.routes
    BY <1>3, <1>4, <2>1
  <2> HIDE DEF d
  <2>3. d = b
    BY <2>1, <2>2, SameBlueprint
  <2> QED BY <2>3 DEF d
<1>5. LET c == Effect(b, op)
      IN /\ c \in Blueprints /\ c.workers = b.workers \cup {n}
         /\ c.edges = b.edges /\ c.mapped = b.mapped /\ c.routes = b.routes
  BY <1>1, BlueprintFields DEF Effect, AddWorker, Blueprints
<1>6. b.workers \ {n} = b.workers /\ (b.workers \cup {n}) \ {n} = b.workers
  BY <1>1
<1> QED BY <1>4, <1>5, <1>6

LEMMA WellFormedFacts ==
  WellFormedCopies <=> /\ WellFormed(bp) /\ WellFormed(file) /\ WellFormed(swarm)
                       /\ WellFormed(edit.prev) /\ WellFormed(build.graph)
  BY DEF WellFormedCopies

LEMMA WellFormedNext ==
  WellFormedCopies' <=> /\ WellFormed(bp') /\ WellFormed(file') /\ WellFormed(swarm')
                        /\ WellFormed(edit'.prev) /\ WellFormed(build'.graph)
  BY DEF WellFormedCopies, WellFormed, Nodes, Acyclic

LEMMA WellFormedStep ==
  ASSUME TypeInv, TopologyInv, [Next]_vars
  PROVE  WellFormedCopies'
<1> USE TypeFields, EmptyType
<1>0. /\ WellFormed(bp) /\ WellFormed(file) /\ WellFormed(swarm)
      /\ WellFormed(edit.prev) /\ WellFormed(build.graph)
  BY WellFormedFacts DEF TopologyInv
<1> SUFFICES /\ WellFormed(bp') /\ WellFormed(file') /\ WellFormed(swarm')
             /\ WellFormed(edit'.prev) /\ WellFormed(build'.graph)
  BY WellFormedNext
<1> USE <1>0
<1>1. CASE Load
  BY <1>1 DEF Load, live, host
<1>2. ASSUME NEW op \in Edits, Begin(op)
      PROVE  /\ WellFormed(bp') /\ WellFormed(file') /\ WellFormed(swarm')
             /\ WellFormed(edit'.prev) /\ WellFormed(build'.graph)
  BY <1>2, AcceptedEdit DEF Begin, Held, live, host
<1>3. CASE Check
  BY <1>3 DEF Check, Goto, EditRecords, console, live, host
<1>4. CASE Apply
  BY <1>4, AcceptedEdit DEF Apply, Free, console, host
<1>5. CASE ApplyFails
  BY <1>5, AcceptedEdit DEF ApplyFails, EditRecords, console, host
<1>6. CASE Build
  BY <1>6 DEF Build, Goto, Free, EditRecords, console, host
<1>7. CASE Rollback
  <2>1. WellFormed(swarm')
    BY <1>7, RemoveWorkerFacts DEF Rollback
  <2>2. WellFormed(file')
    BY <1>7 DEF Rollback, Saved, SaveFails
  <2> QED BY <1>7, <2>1, <2>2 DEF Rollback, Free, host
<1>8. CASE Ensure \/ BuildRead
  BY <1>8 DEF Ensure, BuildRead, Idle, BuildRecords, console, live
<1>11. CASE BuildAssign \/ BuildFails
  BY <1>11 DEF BuildAssign, BuildFails, Idle, BuildRecords, console, live
<1>9. CASE Run \/ UNCHANGED vars
  BY <1>9 DEF Run, vars, console, live, host
<1>10. CASE Crash
  BY <1>10 DEF Crash, Free, Idle
<1> QED BY <1>1, <1>2, <1>3, <1>4, <1>5, <1>6, <1>7, <1>8, <1>9, <1>10, <1>11 DEF Next

LEMMA ClosedStep ==
  ASSUME TypeInv, TopologyInv, [Next]_vars
  PROVE  ClosedInv'
<1> USE TypeFields DEF TopologyInv, ClosedInv, At
<1>1. CASE Load
  BY <1>1 DEF Load, live, host
<1>2. CASE \E op \in Edits : Begin(op)
  BY <1>2 DEF Begin, Held, live, host
<1>3. CASE Check \/ Apply
  BY <1>3 DEF Check, Apply, Goto, Free, EditRecords, console, live, host
<1>8. CASE ApplyFails
  <2>1. edit.pc = "apply" /\ UNCHANGED <<open, made, ahead, coord, build>>
    BY <1>8 DEF ApplyFails, console, host
  <2>2. edit'.pc = "rollback"
    BY <1>8 DEF ApplyFails, EditRecords
  <2> QED BY <2>1, <2>2 DEF Free
<1>9. CASE Build
  BY <1>9 DEF Build, Goto, Free, EditRecords, console, live, host
<1>4. CASE Rollback
  BY <1>4 DEF Rollback, Free, host
<1>5. CASE Ensure \/ BuildRead \/ BuildAssign \/ BuildFails
  BY <1>5 DEF Ensure, BuildRead, BuildAssign, BuildFails, Idle, BuildRecords, console, live
<1>6. CASE Run \/ UNCHANGED vars
  BY <1>6 DEF Run, vars, console, live, host
<1>7. CASE Crash
  BY <1>7 DEF Crash, Free, Idle
<1> QED BY <1>1, <1>2, <1>3, <1>4, <1>5, <1>6, <1>7, <1>8, <1>9 DEF Next

LEMMA MemoryStep ==
  ASSUME TypeInv, TopologyInv, [Next]_vars
  PROVE  MemoryInv'
<1> USE TypeFields DEF TopologyInv, ClosedInv, MemoryInv, Durable, At
<1>1. CASE Load
  BY <1>1 DEF Load, Free
<1>2. ASSUME NEW op \in Edits, Begin(op) PROVE MemoryInv'
  BY <1>2 DEF Begin, Held
<1>3. CASE Check
  BY <1>3 DEF Check, Goto, EditRecords, console
<1>4. CASE Apply
  BY <1>4 DEF Apply, Free, console
<1>5. CASE ApplyFails
  BY <1>5 DEF ApplyFails, EditRecords, console
<1>6. CASE Build
  BY <1>6 DEF Build, Goto, Free, EditRecords, console
<1>7. CASE Rollback
  BY <1>7 DEF Rollback, Free, Saved, SaveFails
<1>8. CASE Ensure \/ BuildRead \/ BuildAssign \/ BuildFails \/ Run \/ UNCHANGED vars
  BY <1>8 DEF Ensure, BuildRead, BuildAssign, BuildFails, Run, vars, console
<1>9. CASE Crash
  BY <1>9 DEF Crash, Free
<1> QED BY <1>1, <1>2, <1>3, <1>4, <1>5, <1>6, <1>7, <1>8, <1>9 DEF Next

LEMMA SwarmStep ==
  ASSUME TypeInv, TopologyInv, [Next]_vars
  PROVE  SwarmInv' /\ WorkerInv'
<1> USE TypeFields DEF TopologyInv, ClosedInv, SwarmInv, WorkerInv, At
<1>1. CASE Load
  BY <1>1 DEF Load, live, host, Free
<1>2. ASSUME NEW op \in Edits, Begin(op) PROVE SwarmInv' /\ WorkerInv'
  BY <1>2 DEF Begin, Held, live, host
<1>3. CASE Check
  BY <1>3 DEF Check, Goto, EditRecords, console, live, host
<1>4. CASE Apply
  <2>1. swarm = edit.prev => swarm' = bp
    BY <1>4 DEF Apply, MemoryInv
  <2>2. agents = edit.prev.workers => agents' = Effect(edit.prev, edit.op).workers
    BY <1>4, EditTypes DEF Apply, Adds, Effect, AddWorker, RemoveWorker, SetMapper, AddConnection,
       RemoveConnection, SetRouter, Blueprints
  <2> QED BY <1>4, <2>1, <2>2 DEF Apply, Free, MemoryInv, console
<1>5. CASE ApplyFails
  <2>1. PICK built \in BOOLEAN : /\ swarm' # swarm => built
                                 /\ edit' = [edit EXCEPT !.pc = "rollback", !.worker = Adds /\ built]
    BY <1>5 DEF ApplyFails
  <2>2. /\ edit'.pc = "rollback" /\ edit'.op = edit.op /\ edit'.prev = edit.prev
        /\ edit'.worker = (Adds /\ built)
    BY <2>1 DEF EditRecords
  <2>3. UNCHANGED <<bp, made, agents, outdated>> /\ edit.pc = "apply"
    BY <1>5 DEF ApplyFails, console
  <2>4. swarm' # swarm => edit.op.kind = "dispatch" /\ swarm' = Effect(swarm, edit.op)
    BY <1>5 DEF ApplyFails
  <2> QED BY <2>1, <2>2, <2>3, <2>4 DEF Adds
<1>6. CASE Build
  BY <1>6 DEF Build, Goto, Free, EditRecords, console
<1>7. CASE Rollback
  <2>1. WellFormed(edit.prev) /\ Accepts(edit.prev, edit.op)
    BY <1>7, WellFormedFacts DEF Rollback, MemoryInv
  <2>2. made /\ ~outdated => swarm' = edit.prev
    BY <1>7, <2>1, RemoveUndoesAdd DEF Rollback
  <2> QED BY <1>7, <2>2 DEF Rollback, Free
<1>8. CASE Ensure \/ BuildRead \/ BuildFails \/ Run \/ UNCHANGED vars
  BY <1>8 DEF Ensure, BuildRead, BuildFails, Run, vars, console, live
<1>9. CASE BuildAssign
  BY <1>9 DEF BuildAssign, console
<1>10. CASE Crash
  BY <1>10 DEF Crash, Free
<1> QED BY <1>1, <1>2, <1>3, <1>4, <1>5, <1>6, <1>7, <1>8, <1>9, <1>10 DEF Next

LEMMA TopologyInductive == Spec => []TopologyInv
<1>1. Init => TopologyInv
  <2> SUFFICES ASSUME Init PROVE TopologyInv
    OBVIOUS
  <2>1. WellFormed(file)
    BY EmptyType, StoredAssumption DEF Init
  <2>2. WellFormedCopies
    BY <2>1, EmptyType, WellFormedFacts DEF Init, Free, Idle
  <2> QED BY <2>2 DEF Init, TopologyInv, ClosedInv, MemoryInv, SwarmInv, WorkerInv, At, Free, Idle
<1>2. TypeInv /\ TopologyInv /\ [Next]_vars => TopologyInv'
  BY WellFormedStep, ClosedStep, MemoryStep, SwarmStep DEF TopologyInv
<1> QED BY <1>1, <1>2, TypeInductive, PTL DEF Spec

\* No copy of the topology names a removed worker or holds a cycle, and between
\* two edits the copies agree unless a save failed or a rebuild ran beside an
\* edit, for any workers and any number of edits, rebuilds, faults and crashes.
THEOREM TopologyCopiesAgree == Spec => []CopiesAgree
<1>1. TopologyInv => CopiesAgree
  BY DEF TopologyInv, MemoryInv, SwarmInv, CopiesAgree, SavedWhenFree, LiveFollows, Durable
<1> QED BY <1>1, TopologyInductive, PTL

-----------------------------------------------------------------------------
\* Every step is a step of the atomic graph, or none of its own.

Published == IF ~open THEN Durable ELSE IF At("free") THEN bp ELSE edit.prev

\* The edits AtomicGraph speaks of are the same ones.
LEMMA SameEdits ==
  /\ Atomic!Edits = Edits
  /\ \A b, op : Atomic!Accepts(b, op) <=> Accepts(b, op)
  /\ \A b, op : Atomic!Effect(b, op) = Effect(b, op)
  /\ \A b : Atomic!WellFormed(b) <=> WellFormed(b)
<1>1. Atomic!Edits = Edits
  BY DEF Edits, Atomic!Edits, Names, Atomic!Names
<1>2. \A e, n : Atomic!Reach(e, n) = Reach(e, n)
  BY DEF Reach, Atomic!Reach, Names, Atomic!Names
<1>3. \A b : Atomic!Nodes(b) = Nodes(b)
  BY DEF Nodes, Atomic!Nodes
<1>4. ASSUME NEW b, NEW op PROVE Atomic!Accepts(b, op) <=> Accepts(b, op)
  BY <1>2, <1>3 DEF Accepts, Atomic!Accepts, ClosesCycle, Atomic!ClosesCycle
<1>5. ASSUME NEW b, NEW op PROVE Atomic!Effect(b, op) = Effect(b, op)
  BY DEF Effect, Atomic!Effect, AddWorker, RemoveWorker, SetMapper, AddConnection, RemoveConnection, SetRouter,
     Without, Atomic!AddWorker, Atomic!RemoveWorker, Atomic!SetMapper, Atomic!AddConnection,
     Atomic!RemoveConnection, Atomic!SetRouter, Atomic!Without
<1>6. ASSUME NEW b PROVE Atomic!WellFormed(b) <=> WellFormed(b)
  BY <1>2, <1>3 DEF WellFormed, Atomic!WellFormed, Acyclic, Atomic!Acyclic
<1> QED BY <1>1, <1>4, <1>5, <1>6

\* What a step does to the blueprint other threads see and to the one a new host
\* would read.
EditsGraph(new, saved) == /\ \E op \in Edits : Accepts(Published, op) /\ new = Effect(Published, op)
                          /\ saved \in {Durable, new}
SavesGraph(new, saved) ==
  /\ new = Published
  /\ saved = Published \/ \E op \in Edits : Accepts(Published, op) /\ saved = Effect(Published, op)

LEMMA GraphMoves ==
  ASSUME TypeInv, TopologyInv, [Next]_vars
  PROVE  \/ EditsGraph(Published', Durable') \/ SavesGraph(Published', Durable')
         \/ Published' = Durable /\ Durable' = Durable
         \/ Published' = Published /\ Durable' = Durable
<1> USE TypeFields DEF TopologyInv, ClosedInv, Published, At
<1>1. CASE Load
  BY <1>1 DEF Load, Durable, Free
<1>2. ASSUME NEW op \in Edits, Begin(op)
      PROVE  EditsGraph(Published', Durable') \/ SavesGraph(Published', Durable')
  <2>1. open /\ edit.pc = "free" /\ Accepts(bp, op) /\ bp' = Effect(bp, op) /\ open'
    BY <1>2 DEF Begin
  <2>2. CASE file' = bp' /\ disk' = "valid" /\ edit' = Held(op)
    BY <2>1, <2>2 DEF Held, SavesGraph, Durable
  <2>3. CASE UNCHANGED <<file, disk, edit>>
    BY <2>1, <2>3 DEF EditsGraph, Durable
  <2> QED BY <1>2, <2>2, <2>3 DEF Begin
<1>3. CASE Check
  BY <1>3 DEF Check, Goto, EditRecords, console, Durable
<1>4. CASE Apply
  <2>1. /\ edit.pc # "free" /\ open /\ open' /\ bp' = bp /\ edit'.pc = "free"
        /\ Accepts(edit.prev, edit.op) /\ bp = Effect(edit.prev, edit.op) /\ Durable' = Durable
    BY <1>4 DEF Apply, Free, console, MemoryInv, Durable
  <2> QED BY <2>1 DEF EditsGraph
<1>5. CASE ApplyFails
  BY <1>5 DEF ApplyFails, EditRecords, console, Durable
<1>6. CASE Build
  <2>1. /\ edit.pc # "free" /\ open /\ open' /\ bp' = bp /\ Durable' = Durable
        /\ Accepts(edit.prev, edit.op) /\ bp = Effect(edit.prev, edit.op)
    BY <1>6 DEF Build, Free, console, MemoryInv, Durable
  <2>2. CASE edit' = Free
    BY <2>1, <2>2 DEF EditsGraph, Free
  <2>3. CASE Goto("rollback")
    BY <2>1, <2>3 DEF Goto, EditRecords
  <2> QED BY <1>6, <2>2, <2>3 DEF Build
<1>7. CASE Rollback
  <2>1. edit.pc # "free" /\ open /\ open' /\ bp' = edit.prev /\ edit'.pc = "free"
    BY <1>7 DEF Rollback, Free
  <2>2. Durable' = edit.prev \/ Durable' = Durable
    BY <1>7 DEF Rollback, Saved, SaveFails, Durable
  <2> QED BY <2>1, <2>2 DEF SavesGraph
<1>8. CASE Ensure \/ BuildRead \/ BuildAssign \/ BuildFails \/ Run \/ UNCHANGED vars
  BY <1>8 DEF Ensure, BuildRead, BuildAssign, BuildFails, Run, vars, console, Durable
<1>9. CASE Crash
  BY <1>9 DEF Crash, Durable
<1> QED BY <1>1, <1>2, <1>3, <1>4, <1>5, <1>6, <1>7, <1>8, <1>9 DEF Next

\* Other threads of the process and the next host see whole accepted edits only,
\* whatever is saved, applied to the live swarm and undone in between.
THEOREM TopologyEditsAreAtomic == Spec => ImplementsAtomicGraph
<1>1. Init => Atomic!Init
  <2> SUFFICES ASSUME Init PROVE Atomic!Init
    OBVIOUS
  <2>1. WellFormed(Durable) /\ ~open
    BY EmptyType, StoredAssumption DEF Init, Durable
  <2> QED BY <2>1, SameEdits DEF Atomic!Init, Durable
<1>2. TypeInv /\ TopologyInv /\ [Next]_vars => [Atomic!Next]_(Atomic!graph)
  <2> SUFFICES ASSUME TypeInv, TopologyInv, [Next]_vars PROVE [Atomic!Next]_(Atomic!graph)
    OBVIOUS
  <2>1. \/ EditsGraph(Published', Durable') \/ SavesGraph(Published', Durable')
        \/ Published' = Durable /\ Durable' = Durable
        \/ Published' = Published /\ Durable' = Durable
    BY GraphMoves
  <2>2. CASE EditsGraph(Published', Durable')
    BY <2>2, SameEdits DEF EditsGraph, Published, Durable, Atomic!Next, Atomic!Edit
  <2>3. CASE SavesGraph(Published', Durable')
    BY <2>3, SameEdits DEF SavesGraph, Published, Durable, Atomic!Next, Atomic!Save
  <2>4. CASE Published' = Durable /\ Durable' = Durable
    BY <2>4 DEF Published, Durable, Atomic!Next, Atomic!Restart
  <2>5. CASE Published' = Published /\ Durable' = Durable
    BY <2>5 DEF Published, Durable, Atomic!graph
  <2> QED BY <2>1, <2>2, <2>3, <2>4, <2>5
<1> QED BY <1>1, <1>2, TypeInductive, TopologyInductive, PTL DEF Spec, ImplementsAtomicGraph, Atomic!Spec

-----------------------------------------------------------------------------
\* The plans (TaskPlan).

\* Dispatches and revivals that have bound their leaf, and were not undone.
Bindings == {a \in Assignments : call[a] = "done" \/ (call[a] = "failed" /\ a \in revived)}

\* The tasks of the plan p wait for assignments of B.
WaitsFor(p, B) ==
  /\ DOMAIN p = {"up", "status", "active"}
  /\ p.active \in [Tasks -> B \cup {NoAssignment}]

Calls == [Assignments -> {"none", "checked", "bus", "bind", "done", "failed"}]
CallsOf(c, k) ==
  /\ c \in Calls /\ DOMAIN k = Assignments
  /\ \A a \in Assignments : c[a] # "none" => k[a] \in Tasks

\* The plans of the Session, the snapshot a dispatch would restore, and what
\* plan_upsert has read name only assignments that were bound: the restored
\* snapshot is older than the assignment that fails.
BindingInv ==
  /\ CallsOf(call, task)
  /\ DOMAIN plan = Owners /\ DOMAIN prev = Owners /\ DOMAIN upsert = Owners
  /\ \A o \in Owners : WaitsFor(plan[o], Bindings) /\ WaitsFor(prev[o], Bindings) /\ WaitsFor(upsert[o], Bindings)

LEMMA BlankWaits ==
  ASSUME NEW p, NEW B, DOMAIN p = {"up", "status", "active"}, p.active = [t \in Tasks |-> NoAssignment]
  PROVE  WaitsFor(p, B)
BY DEF WaitsFor

LEMMA WaitsMore ==
  ASSUME NEW p, NEW B, NEW C, B \subseteq C, WaitsFor(p, B)
  PROVE  WaitsFor(p, C)
BY DEF WaitsFor

LEMMA BindingStart == PlanInit => BindingInv
<1> SUFFICES ASSUME PlanInit PROVE BindingInv
  OBVIOUS
<1>1. WaitsFor(NoPlan, Bindings)
  BY BlankWaits DEF NoPlan
<1>2. \A shape : WaitsFor(Filed(shape), Bindings)
  BY BlankWaits DEF NoPlan, Filed
<1>3. CallsOf(call, task)
  BY DEF PlanInit, CallsOf, Calls
<1>4. plan \in [Owners -> {NoPlan} \cup {Filed(shape) : shape \in Shapes}]
      /\ prev = [o \in Owners |-> NoPlan] /\ upsert = [o \in Owners |-> NoPlan]
  BY DEF PlanInit
<1>5. \A o \in Owners : WaitsFor(plan[o], Bindings)
  BY <1>1, <1>2, <1>4
<1> QED BY <1>1, <1>3, <1>4, <1>5 DEF BindingInv

\* Writing a status keeps who is waited for.
LEMMA ReconciledWaits ==
  ASSUME NEW p, NEW B, WaitsFor(p, B), NEW written
  PROVE  WaitsFor(Reconciled(p, written), B)
BY DEF Reconciled, WaitsFor

LEMMA WriteWaits ==
  ASSUME NEW p, NEW B, WaitsFor(p, B), NEW ts, NEW s
  PROVE  WaitsFor(Write(p, ts, s), B)
<1> DEFINE q == [p EXCEPT !.status = [t \in Tasks |-> IF t \in ts THEN s ELSE @[t]]]
<1>1. WaitsFor(q, B)
  BY DEF WaitsFor
<1>2. Write(p, ts, s) = Reconciled(q, ts)
  BY DEF Write
<1> HIDE DEF q
<1> QED BY <1>1, <1>2, ReconciledWaits

-----------------------------------------------------------------------------
\* The plan tools: no dispatch takes part.
LEMMA ToolStep ==
  ASSUME BindingInv, UNCHANGED <<call, task, revived, prev>>,
         \/ UNCHANGED <<plan, upsert>>
         \/ \E o \in Owners : \E p :
              /\ WaitsFor(p, Bindings) /\ plan' = [plan EXCEPT ![o] = p]
              /\ upsert' = upsert \/ upsert' = [upsert EXCEPT ![o] = NoPlan]
         \/ \E o \in Owners : /\ plan' = plan
                              /\ upsert' = [upsert EXCEPT ![o] = plan[o]] \/ upsert' = [upsert EXCEPT ![o] = NoPlan]
  PROVE  BindingInv'
<1>1. Bindings' = Bindings /\ CallsOf(call, task)'
  BY DEF Bindings, BindingInv, CallsOf, Calls
<1>2. WaitsFor(NoPlan, Bindings)
  BY BlankWaits DEF NoPlan
<1>3. DOMAIN plan' = Owners /\ DOMAIN upsert' = Owners
  BY DEF BindingInv
<1>4. ASSUME NEW o \in Owners
      PROVE  WaitsFor(plan'[o], Bindings) /\ WaitsFor(upsert'[o], Bindings)
  BY <1>2 DEF BindingInv
<1> QED BY <1>1, <1>3, <1>4 DEF BindingInv

LEMMA PlanToolStep ==
  ASSUME BindingInv, NEW o \in Owners,
         \/ \E shape \in Shapes, given \in Given, kept \in BOOLEAN : SetPlan(o, shape, given, kept)
         \/ UpsertRead(o)
         \/ \E t \in Tasks, s \in Statuses : UpdateTask(o, t, s) \/ UpsertWrite(o, t, s)
  PROVE  BindingInv'
<1>1. UNCHANGED <<call, task, revived, prev>>
  BY DEF SetPlan, UpsertRead, UpdateTask, UpsertWrite, bus
<1>2. ASSUME NEW shape \in Shapes, NEW given \in Given, NEW kept \in BOOLEAN, SetPlan(o, shape, given, kept)
      PROVE  BindingInv'
  <2> DEFINE active == [t \in Tasks |-> IF kept /\ shape[t] # Absent THEN plan[o].active[t] ELSE NoAssignment]
             p == [up |-> shape,
                   status |-> [t \in Tasks |-> IF shape[t] = Absent THEN "not_started" ELSE given[t]],
                   active |-> active]
  <2>1. plan' = [plan EXCEPT ![o] = Reconciled(p, {})] /\ UNCHANGED upsert
    BY <1>2 DEF SetPlan
  <2>2. plan[o].active \in [Tasks -> Bindings \cup {NoAssignment}]
    BY DEF BindingInv, WaitsFor
  <2>3. active \in [Tasks -> Bindings \cup {NoAssignment}]
    BY <2>2
  <2>4. p.active = active /\ DOMAIN p = {"up", "status", "active"}
    OBVIOUS
  <2> HIDE DEF p, active
  <2>5. WaitsFor(Reconciled(p, {}), Bindings)
    BY <2>3, <2>4, ReconciledWaits DEF WaitsFor
  <2> QED BY <1>1, <2>1, <2>5, ToolStep
<1>3. CASE UpsertRead(o)
  BY <1>1, <1>3, ToolStep DEF UpsertRead
<1>4. ASSUME NEW t \in Tasks, NEW s \in Statuses, UpdateTask(o, t, s)
      PROVE  BindingInv'
  <2>1. plan' = [plan EXCEPT ![o] = Write(plan[o], {t}, s)] /\ UNCHANGED upsert
    BY <1>4 DEF UpdateTask, BindingInv
  <2>2. WaitsFor(Write(plan[o], {t}, s), Bindings)
    BY WriteWaits DEF BindingInv
  <2> QED BY <1>1, <2>1, <2>2, ToolStep
<1>5. ASSUME NEW t \in Tasks, NEW s \in Statuses, UpsertWrite(o, t, s)
      PROVE  BindingInv'
  <2> DEFINE old == upsert[o]
             rest == [old EXCEPT !.up = [u \in Tasks |->
                        IF u = t \/ (old.up[u] = t /\ old.up[t] = Root) THEN Absent ELSE @[u]]]
             new == [rest EXCEPT !.up[t] = Root, !.active[t] = NoAssignment, !.status[t] = s]
  <2>1. /\ upsert' = [upsert EXCEPT ![o] = NoPlan]
        /\ plan' = [plan EXCEPT ![o] = Reconciled(new, {})] \/ UNCHANGED plan
    BY <1>5 DEF UpsertWrite
  <2>2. WaitsFor(old, Bindings)
    BY DEF BindingInv
  <2>3. WaitsFor(rest, Bindings)
    BY <2>2 DEF WaitsFor
  <2> HIDE DEF rest
  <2>4. WaitsFor(new, Bindings)
    BY <2>3 DEF WaitsFor
  <2> HIDE DEF new
  <2>5. WaitsFor(Reconciled(new, {}), Bindings)
    BY <2>4, ReconciledWaits
  <2> QED BY <1>1, <2>1, <2>5, ToolStep
<1> QED BY <1>2, <1>3, <1>4, <1>5

-----------------------------------------------------------------------------
\* Dispatches, revivals and workers.
LEMMA CallStep ==
  ASSUME BindingInv, CallsOf(call, task)', Bindings \subseteq Bindings', upsert' = upsert,
         prev' = prev \/ prev' = plan,
         \/ plan' = plan \/ plan' = prev
         \/ DOMAIN plan' = Owners /\ \A o \in Owners : WaitsFor(plan'[o], Bindings')
  PROVE  BindingInv'
<1>1. DOMAIN plan' = Owners /\ DOMAIN prev' = Owners
  BY DEF BindingInv
<1>2. ASSUME NEW o \in Owners
      PROVE  WaitsFor(plan'[o], Bindings') /\ WaitsFor(prev'[o], Bindings') /\ WaitsFor(upsert'[o], Bindings')
  <2>1. /\ WaitsFor(plan[o], Bindings') /\ WaitsFor(prev[o], Bindings') /\ WaitsFor(upsert[o], Bindings')
    BY WaitsMore DEF BindingInv
  <2> QED BY <2>1
<1> QED BY <1>1, <1>2 DEF BindingInv

\* The plans after the leaf of a was bound.
LEMMA BoundWaits ==
  ASSUME BindingInv, NEW a \in Assignments, Bound(a), a \in Bindings', Bindings \subseteq Bindings'
  PROVE  DOMAIN plan' = Owners /\ \A o \in Owners : WaitsFor(plan'[o], Bindings')
<1> DEFINE h == Holder(task[a])
           w == Write(plan[h], {task[a]}, "in_progress")
           new == [w EXCEPT !.active[task[a]] = a]
<1>1. plan' = [plan EXCEPT ![h] = new]
  BY DEF Bound
<1>2. DOMAIN plan = Owners /\ \A o \in Owners : WaitsFor(plan[o], Bindings')
  BY WaitsMore DEF BindingInv
<1>3. ASSUME h \in Owners
      PROVE  WaitsFor(new, Bindings')
  <2>1. WaitsFor(w, Bindings')
    BY <1>2, <1>3, WriteWaits
  <2> HIDE DEF w
  <2> QED BY <2>1 DEF WaitsFor
<1> HIDE DEF new, h
<1> QED BY <1>1, <1>2, <1>3

LEMMA ReportedWaits ==
  ASSUME BindingInv, NEW a \in Assignments, Reported(a)
  PROVE  DOMAIN plan' = Owners /\ \A o \in Owners : WaitsFor(plan'[o], Bindings)
<1> DEFINE found == {o \in Owners : \E t \in Tasks : Has(plan[o], t) /\ plan[o].active[t] = a}
           h == IF First \in found THEN First ELSE CHOOSE x \in found : TRUE
           ts == {t \in Tasks : Has(plan[h], t) /\ plan[h].active[t] = a}
           new == Write(plan[h], ts, outcome[a])
<1>1. plan' = plan \/ plan' = [plan EXCEPT ![h] = new]
  BY DEF Reported
<1>2. DOMAIN plan = Owners /\ \A o \in Owners : WaitsFor(plan[o], Bindings)
  BY DEF BindingInv
<1>3. h \in Owners => WaitsFor(new, Bindings)
  BY <1>2, WriteWaits
<1> HIDE DEF new, h
<1> QED BY <1>1, <1>2, <1>3

LEMMA AssignmentStep ==
  ASSUME BindingInv, NEW a \in Assignments,
         \/ \E t \in Tasks : CallCheck(a, t)
         \/ Admit(a) \/ OnBus(a) \/ Bind(a) \/ BindFails(a) \/ ReportHook(a) \/ ReportTask(a) \/ WorkerFails(a)
  PROVE  BindingInv'
<1>1. CallsOf(call, task)
  BY DEF BindingInv
<1>2. ASSUME NEW t \in Tasks, CallCheck(a, t)
      PROVE  BindingInv'
  <2>1. /\ call[a] = "none" /\ call' = [call EXCEPT ![a] = "checked"] /\ task' = [task EXCEPT ![a] = t]
        /\ UNCHANGED <<plan, prev, upsert>> /\ revived \subseteq revived'
    BY <1>2 DEF CallCheck
  <2>2. CallsOf(call, task)'
    BY <1>1, <2>1 DEF CallsOf, Calls
  <2>3. Bindings \subseteq Bindings'
    BY <1>1, <2>1 DEF Bindings, CallsOf, Calls
  <2> QED BY <2>1, <2>2, <2>3, CallStep
<1>3. CASE Admit(a) \/ OnBus(a)
  <2>1. /\ call[a] \in {"checked", "bus"} /\ \E q \in {"bus", "bind"} : call' = [call EXCEPT ![a] = q]
        /\ UNCHANGED <<plan, task, revived, upsert>> /\ (prev' = prev \/ prev' = plan)
    BY <1>3 DEF Admit, OnBus
  <2>2. CallsOf(call, task)'
    BY <1>1, <2>1 DEF CallsOf, Calls
  <2>3. Bindings \subseteq Bindings'
    BY <1>1, <2>1 DEF Bindings, CallsOf, Calls
  <2> QED BY <2>1, <2>2, <2>3, CallStep
<1>4. CASE Bind(a)
  <2>1. /\ call[a] = "bind" /\ call' = [call EXCEPT ![a] = "done"] /\ Bound(a)
        /\ UNCHANGED <<prev, task, revived, upsert>>
    BY <1>4 DEF Bind
  <2>2. CallsOf(call, task)'
    BY <1>1, <2>1 DEF CallsOf, Calls
  <2>3. a \in Bindings' /\ Bindings \subseteq Bindings'
    BY <1>1, <2>1 DEF Bindings, CallsOf, Calls
  <2>4. DOMAIN plan' = Owners /\ \A o \in Owners : WaitsFor(plan'[o], Bindings')
    BY <2>1, <2>3, BoundWaits
  <2> QED BY <2>1, <2>2, <2>3, <2>4, CallStep
<1>5. CASE BindFails(a)
  <2>1. /\ call[a] = "bind" /\ call' = [call EXCEPT ![a] = "failed"]
        /\ UNCHANGED <<prev, task, revived, upsert>>
    BY <1>5 DEF BindFails
  <2>2. CallsOf(call, task)'
    BY <1>1, <2>1 DEF CallsOf, Calls
  <2>3. Bindings \subseteq Bindings' /\ (a \in revived => a \in Bindings')
    BY <1>1, <2>1 DEF Bindings, CallsOf, Calls
  <2>4. CASE plan' = prev \/ plan' = plan
    BY <2>1, <2>2, <2>3, <2>4, CallStep
  <2>5. CASE a \in revived /\ Bound(a)
    <3>1. DOMAIN plan' = Owners /\ \A o \in Owners : WaitsFor(plan'[o], Bindings')
      BY <2>3, <2>5, BoundWaits
    <3> QED BY <2>1, <2>2, <2>3, <3>1, CallStep
  <2> QED BY <1>5, <2>4, <2>5 DEF BindFails
<1>6. CASE ReportHook(a) \/ ReportTask(a) \/ WorkerFails(a)
  <2>1. Reported(a) /\ UNCHANGED <<prev, call, task, revived, upsert>>
    BY <1>6 DEF ReportHook, ReportTask, WorkerFails
  <2>2. CallsOf(call, task)' /\ Bindings' = Bindings
    BY <1>1, <2>1 DEF CallsOf, Calls, Bindings
  <2>3. DOMAIN plan' = Owners /\ \A o \in Owners : WaitsFor(plan'[o], Bindings')
    BY <2>1, <2>2, ReportedWaits
  <2> QED BY <2>1, <2>2, <2>3, CallStep
<1> QED BY <1>2, <1>3, <1>4, <1>5, <1>6

LEMMA BindingStep ==
  ASSUME BindingInv, [PlanNext]_planVars
  PROVE  BindingInv'
<1>1. CASE UNCHANGED planVars
  BY <1>1 DEF planVars, BindingInv, CallsOf, Calls, Bindings, WaitsFor
<1> QED BY <1>1, PlanToolStep, AssignmentStep DEF PlanNext

\* No task waits for a worker whose dispatch was undone, whatever reads of
\* plan_upsert, rollbacks and tools fall between (dispatch_agent).
THEOREM RollbackTakesBinding == PlanSpec => []NoBindingWithoutWorker
<1>1. BindingInv => NoBindingWithoutWorker
  BY DEF BindingInv, WaitsFor, Bindings, NoBindingWithoutWorker, Unassigned
<1>2. BindingInv /\ [PlanNext]_planVars => BindingInv'
  BY BindingStep
<1> QED BY BindingStart, <1>1, <1>2, PTL DEF PlanSpec

-----------------------------------------------------------------------------
\* What _derive_status computes: its recursive equation has a solution whatever
\* the forest is, found without recursion from the leaves below each task.

DerivesBy(p, f) ==
  f = [t \in Tasks |-> IF Children(p, t) = {} THEN p.status[t]
                       ELSE Combine({f[c] : c \in Children(p, t)})]

\* The tasks below and including t.
Below(p, t) ==
  {u \in Tasks : \A S \in SUBSET Tasks : t \in S /\ (\A v \in S : Children(p, v) \subseteq S) => u \in S}
LeavesBelow(p, t) == {u \in Below(p, t) : Children(p, u) = {}}
\* Their statuses; below a task without leaves something is in progress.
StatesBelow(p, t) ==
  {p.status[u] : u \in LeavesBelow(p, t)}
  \cup {s \in {"in_progress"} : \E u \in Below(p, t) : LeavesBelow(p, u) = {}}

LEMMA BelowClosed ==
  ASSUME NEW p, NEW t \in Tasks
  PROVE  /\ t \in Below(p, t) /\ Below(p, t) \in SUBSET Tasks
         /\ \A v \in Below(p, t) : Children(p, v) \subseteq Below(p, t)
         /\ \A S \in SUBSET Tasks : t \in S /\ (\A v \in S : Children(p, v) \subseteq S) => Below(p, t) \subseteq S
<1>1. t \in Below(p, t) /\ Below(p, t) \in SUBSET Tasks
  BY DEF Below
<1>2. \A S \in SUBSET Tasks : t \in S /\ (\A v \in S : Children(p, v) \subseteq S) => Below(p, t) \subseteq S
  BY DEF Below
<1>3. ASSUME NEW v \in Below(p, t), NEW c \in Children(p, v)
      PROVE  c \in Below(p, t)
  <2>1. c \in Tasks
    BY DEF Children
  <2>2. ASSUME NEW S \in SUBSET Tasks, t \in S, \A w \in S : Children(p, w) \subseteq S
        PROVE  c \in S
    BY <1>2, <2>2
  <2> QED BY <2>1, <2>2 DEF Below
<1> QED BY <1>1, <1>2, <1>3

LEMMA BelowChildren ==
  ASSUME NEW p, NEW t \in Tasks
  PROVE  /\ \A c \in Children(p, t) : c \in Tasks /\ Below(p, c) \subseteq Below(p, t)
         /\ \A u \in Below(p, t) : u = t \/ \E c \in Children(p, t) : u \in Below(p, c)
<1>1. ASSUME NEW c \in Children(p, t)
      PROVE  c \in Tasks /\ Below(p, c) \subseteq Below(p, t)
  <2>1. c \in Tasks /\ c \in Below(p, t)
    BY BelowClosed DEF Children
  <2> QED BY <2>1, BelowClosed
<1>2. ASSUME NEW u \in Below(p, t)
      PROVE  u = t \/ \E c \in Children(p, t) : u \in Below(p, c)
  <2> DEFINE S == {t} \cup {v \in Tasks : \E c \in Children(p, t) : v \in Below(p, c)}
  <2>1. S \in SUBSET Tasks /\ t \in S
    OBVIOUS
  <2>2. ASSUME NEW v \in S, NEW d \in Children(p, v)
        PROVE  d \in S
    <3>1. d \in Tasks
      BY DEF Children
    <3>2. CASE v = t
      <4>1. d \in Children(p, t) /\ d \in Below(p, d)
        BY <3>1, <3>2, BelowClosed
      <4> QED BY <3>1, <4>1
    <3>3. ASSUME NEW c \in Children(p, t), v \in Below(p, c)
          PROVE  d \in S
      <4>1. c \in Tasks
        BY DEF Children
      <4>2. d \in Below(p, c)
        BY <3>3, <4>1, BelowClosed
      <4> QED BY <3>1, <4>2
    <3> QED BY <2>2, <3>2, <3>3
  <2>3. \A v \in S : Children(p, v) \subseteq S
    BY <2>2
  <2> HIDE DEF S
  <2>4. u \in S
    BY <2>1, <2>3, BelowClosed
  <2> QED BY <2>4 DEF S
<1> QED BY <1>1, <1>2

\* A status and the set it is combined from.
LEMMA CombineFacts ==
  ASSUME NEW S
  PROVE  /\ Combine(S) \in Statuses
         /\ Combine(S) = "completed" <=> S = {"completed"}
         /\ Combine(S) = "blocked" <=> "blocked" \in S
         /\ Combine(S) = "not_started" <=> S = {"not_started"}
  BY DEF Combine, Statuses

LEMMA StatesBelowTask ==
  ASSUME NEW p, NEW t \in Tasks
  PROVE  /\ StatesBelow(p, t) # {}
         /\ Children(p, t) = {} => StatesBelow(p, t) = {p.status[t]}
         /\ Children(p, t) # {} => StatesBelow(p, t) = UNION {StatesBelow(p, c) : c \in Children(p, t)}
<1>0. t \in Below(p, t)
  BY BelowClosed
<1>1. StatesBelow(p, t) # {}
  BY <1>0 DEF StatesBelow
<1>2. ASSUME Children(p, t) = {}
      PROVE  StatesBelow(p, t) = {p.status[t]}
  <2>1. Below(p, t) = {t}
    BY <1>0, <1>2, BelowChildren
  <2>2. LeavesBelow(p, t) = {t}
    BY <1>2, <2>1 DEF LeavesBelow
  <2> QED BY <2>1, <2>2 DEF StatesBelow
<1>3. ASSUME Children(p, t) # {}
      PROVE  StatesBelow(p, t) = UNION {StatesBelow(p, c) : c \in Children(p, t)}
  <2> DEFINE C == Children(p, t)
  <2>1. \A c \in C : c \in Tasks /\ Below(p, c) \subseteq Below(p, t) /\ c \in Below(p, c)
    BY BelowChildren, BelowClosed
  <2>2. \A u \in LeavesBelow(p, t) : \E c \in C : u \in LeavesBelow(p, c)
    BY <1>3, BelowChildren DEF LeavesBelow
  <2>3. \A c \in C : LeavesBelow(p, c) \subseteq LeavesBelow(p, t)
    BY <2>1 DEF LeavesBelow
  <2>4. ASSUME NEW u \in Below(p, t), LeavesBelow(p, u) = {}
        PROVE  \E c \in C : \E v \in Below(p, c) : LeavesBelow(p, v) = {}
    <3>1. CASE u = t
      <4>1. \A c \in C : LeavesBelow(p, c) = {}
        BY <2>3, <2>4, <3>1
      <4> QED BY <1>3, <2>1, <4>1
    <3>2. CASE u # t
      BY <2>4, <3>2, BelowChildren
    <3> QED BY <3>1, <3>2
  <2>5. ASSUME NEW s \in StatesBelow(p, t)
        PROVE  \E c \in C : s \in StatesBelow(p, c)
    <3>1. CASE \E u \in LeavesBelow(p, t) : s = p.status[u]
      BY <2>2, <3>1 DEF StatesBelow
    <3>2. CASE s = "in_progress" /\ \E u \in Below(p, t) : LeavesBelow(p, u) = {}
      <4>1. \E c \in C : \E v \in Below(p, c) : LeavesBelow(p, v) = {}
        BY <2>4, <3>2
      <4> QED BY <3>2, <4>1 DEF StatesBelow
    <3> QED BY <2>5, <3>1, <3>2 DEF StatesBelow
  <2>6. ASSUME NEW c \in C, NEW s \in StatesBelow(p, c)
        PROVE  s \in StatesBelow(p, t)
    <3>1. CASE \E u \in LeavesBelow(p, c) : s = p.status[u]
      BY <2>3, <3>1 DEF StatesBelow
    <3>2. CASE s = "in_progress" /\ \E u \in Below(p, c) : LeavesBelow(p, u) = {}
      BY <2>1, <3>2 DEF StatesBelow
    <3> QED BY <2>6, <3>1, <3>2 DEF StatesBelow
  <2> QED BY <2>5, <2>6
<1> QED BY <1>1, <1>2, <1>3

LEMMA DerivedEquation ==
  ASSUME NEW p, p.status \in [Tasks -> Statuses]
  PROVE  /\ DerivesBy(p, Derived(p))
         /\ Derived(p) \in [Tasks -> Statuses]
<1> DEFINE f == [t \in Tasks |-> Combine(StatesBelow(p, t))]
<1>1. ASSUME NEW t \in Tasks
      PROVE  f[t] = IF Children(p, t) = {} THEN p.status[t] ELSE Combine({f[c] : c \in Children(p, t)})
  <2>1. CASE Children(p, t) = {}
    <3>1. StatesBelow(p, t) = {p.status[t]}
      BY <2>1, StatesBelowTask
    <3>2. p.status[t] \in Statuses
      OBVIOUS
    <3>3. \A s \in Statuses : Combine({s}) = s
      BY DEF Combine, Statuses
    <3> QED BY <2>1, <3>1, <3>2, <3>3
  <2>2. CASE Children(p, t) # {}
    <3> DEFINE D == [c \in Tasks |-> StatesBelow(p, c)]
               C == Children(p, t)
    <3>1. \A c \in C : c \in Tasks /\ D[c] # {}
      BY StatesBelowTask DEF Children
    <3>2. \A x : x \in StatesBelow(p, t) <=> \E c \in C : x \in D[c]
      <4>1. StatesBelow(p, t) = UNION {StatesBelow(p, c) : c \in C}
        BY <2>2, StatesBelowTask
      <4>2. \A c \in C : D[c] = StatesBelow(p, c)
        BY <3>1
      <4> HIDE DEF D, C
      <4> QED BY <4>1, <4>2
    <3> DEFINE U == StatesBelow(p, t)
               V == {f[c] : c \in C}
    <3>3. \A x : x \in V <=> \E c \in C : x = Combine(D[c])
      BY <3>1
    <3>4. f[t] = Combine(U)
      OBVIOUS
    <3>5. C # {}
      BY <2>2
    <3>6. \A x : x \in U <=> \E c \in C : x \in D[c]
      BY <3>2
    <3> HIDE DEF D, C, f, U, V
    <3>7. ASSUME NEW s \in {"completed", "not_started"}
          PROVE  U = {s} <=> V = {s}
      <4>1. U = {s} <=> \A c \in C : D[c] = {s}
        BY <3>1, <3>5, <3>6
      <4>2. V = {s} <=> \A c \in C : Combine(D[c]) = s
        BY <3>3, <3>5
      <4>3. \A c \in C : Combine(D[c]) = s <=> D[c] = {s}
        BY CombineFacts
      <4> QED BY <4>1, <4>2, <4>3
    <3>8. "blocked" \in U <=> "blocked" \in V
      <4>1. \A c \in C : Combine(D[c]) = "blocked" <=> "blocked" \in D[c]
        BY CombineFacts
      <4> QED BY <3>3, <3>6, <4>1
    <3>9. Combine(V) = Combine(U)
      BY <3>7, <3>8 DEF Combine
    <3> QED BY <2>2, <3>4, <3>9 DEF C, V
  <2> QED BY <2>1, <2>2
<1>2. DerivesBy(p, f)
  <2> DEFINE g == [t \in Tasks |-> IF Children(p, t) = {} THEN p.status[t] ELSE Combine({f[c] : c \in Children(p, t)})]
  <2>1. f \in [Tasks -> Statuses] /\ DOMAIN g = Tasks /\ \A t \in Tasks : f[t] = g[t]
    BY <1>1, CombineFacts
  <2> HIDE DEF f
  <2>2. f = g
    BY <2>1
  <2> QED BY <2>2 DEF DerivesBy
<1> HIDE DEF f
<1>3. Derived(p) = CHOOSE d : d = [t \in Tasks |-> IF Children(p, t) = {} THEN p.status[t]
                                                    ELSE Combine({d[c] : c \in Children(p, t)})]
  BY DEF Derived
<1>4. Derived(p) = CHOOSE d : DerivesBy(p, d)
  BY <1>3 DEF DerivesBy
<1>5. DerivesBy(p, Derived(p))
  BY <1>2, <1>4
<1>6. Derived(p) \in [Tasks -> Statuses]
  <2>1. \A t \in Tasks : Derived(p)[t] \in Statuses
    BY <1>5, CombineFacts DEF DerivesBy
  <2>2. \E g : Derived(p) = [t \in Tasks |-> g[t]]
    <3> DEFINE d == Derived(p)
               g == [t \in Tasks |-> IF Children(p, t) = {} THEN p.status[t] ELSE Combine({d[c] : c \in Children(p, t)})]
    <3>1. d = g
      BY <1>5 DEF DerivesBy
    <3>2. g = [t \in Tasks |-> g[t]]
      OBVIOUS
    <3> HIDE DEF g, d
    <3>3. d = [t \in Tasks |-> g[t]]
      BY <3>1, <3>2
    <3> QED BY <3>3 DEF d
  <2> QED BY <2>1, <2>2
<1> QED BY <1>5, <1>6

-----------------------------------------------------------------------------
\* What writing a plan keeps and what it makes of the statuses.

LEMMA NoPlanType == NoPlan \in Plans
  BY DEF NoPlan, Plans, Blank, Statuses

LEMMA ReconciledFacts ==
  ASSUME NEW p \in Plans, NEW ts
  PROVE  /\ Reconciled(p, ts) \in Plans
         /\ Reconciled(p, ts).up = p.up /\ Reconciled(p, ts).active = p.active
         /\ \A t \in Tasks : Children(p, t) = {} => Reconciled(p, ts).status[t] = p.status[t]
         /\ (\A t \in Tasks : t \in ts /\ Children(p, t) # {} => ~Unassigned(p, t)) => ParentsFollow(Reconciled(p, ts))
<1> DEFINE q == Reconciled(p, ts)
           d == Derived(p)
<1>1. p.status \in [Tasks -> Statuses]
  BY DEF Plans
<1>2. d \in [Tasks -> Statuses]
  BY <1>1, DerivedEquation
<1>3. \A t \in Tasks : d[t] = IF Children(p, t) = {} THEN p.status[t] ELSE Combine({d[c] : c \in Children(p, t)})
  BY <1>1, DerivedEquation DEF DerivesBy
<1>4. q = [p EXCEPT !.status = [t \in Tasks |-> IF t \in ts /\ p.up[t] = Root THEN p.status[t] ELSE d[t]]]
  BY DEF Reconciled
<1> HIDE DEF d
<1>5. q \in Plans /\ q.up = p.up /\ q.active = p.active
  BY <1>1, <1>2, <1>4 DEF Plans
<1>6. \A t \in Tasks : q.status[t] = IF t \in ts /\ p.up[t] = Root THEN p.status[t] ELSE d[t]
  BY <1>4 DEF Plans
<1>7. \A t \in Tasks : Children(p, t) = {} => q.status[t] = p.status[t]
  BY <1>3, <1>6
<1> HIDE DEF q
<1>8. ASSUME \A t \in Tasks : t \in ts /\ Children(p, t) # {} => ~Unassigned(p, t)
      PROVE  ParentsFollow(q)
  <2> SUFFICES ASSUME NEW t \in Tasks, Children(q, t) # {}, Unassigned(q, t)
               PROVE  q.status[t] = Combine({q.status[c] : c \in Children(q, t)})
    BY DEF ParentsFollow
  <2>1. Children(q, t) = Children(p, t) /\ Unassigned(p, t)
    BY <1>5 DEF Children, Unassigned
  <2>2. q.status[t] = Combine({d[c] : c \in Children(p, t)})
    BY <1>3, <1>6, <1>8, <2>1
  <2>3. \A c \in Children(p, t) : q.status[c] = d[c]
    BY <1>6, PlanConstants DEF Children
  <2>4. {q.status[c] : c \in Children(q, t)} = {d[c] : c \in Children(p, t)}
    BY <2>1, <2>3
  <2> QED BY <2>2, <2>4
<1> QED BY <1>5, <1>7, <1>8 DEF q

LEMMA WriteFacts ==
  ASSUME NEW p \in Plans, NEW ts, NEW s \in Statuses
  PROVE  /\ Write(p, ts, s) \in Plans
         /\ Write(p, ts, s).up = p.up /\ Write(p, ts, s).active = p.active
         /\ \A t \in Tasks : Children(p, t) = {} => Write(p, ts, s).status[t] = IF t \in ts THEN s ELSE p.status[t]
         /\ (\A t \in Tasks : t \in ts /\ Children(p, t) # {} => ~Unassigned(p, t)) => ParentsFollow(Write(p, ts, s))
<1> DEFINE q == [p EXCEPT !.status = [t \in Tasks |-> IF t \in ts THEN s ELSE @[t]]]
<1>1. q \in Plans /\ q.up = p.up /\ q.active = p.active
  BY DEF Plans
<1>2. \A t \in Tasks : q.status[t] = IF t \in ts THEN s ELSE p.status[t]
  BY DEF Plans
<1>3. Write(p, ts, s) = Reconciled(q, ts)
  BY DEF Write
<1> HIDE DEF q
<1>4. \A t \in Tasks : Children(q, t) = Children(p, t) /\ (Unassigned(q, t) <=> Unassigned(p, t))
  BY <1>1 DEF Children, Unassigned
<1> QED BY <1>1, <1>2, <1>3, <1>4, ReconciledFacts

LEMMA HolderOwns ==
  ASSUME NEW t PROVE Holder(t) \in Owners
<1>1. First \in Owners
  BY PlanConstants
<1>2. CASE Owners = {First}
  BY <1>1, <1>2, FS_Singleton DEF Holder
<1>3. CASE Owners # {First}
  <2>1. \E o \in Owners \ {First} : TRUE
    BY <1>1, <1>3
  <2> QED BY <1>1, <2>1 DEF Holder
<1> QED BY <1>2, <1>3

-----------------------------------------------------------------------------
\* What a step makes of the plans: a tool replaces one plan or writes one leaf
\* of it, a binding or a report writes the tasks of one assignment.

Written(o, q, ts, s) ==
  /\ q.up = plan[o].up
  /\ \A t \in Tasks : Children(plan[o], t) = {} => q.status[t] = IF t \in ts THEN s ELSE plan[o].status[t]

Replaces(o, q) ==
  /\ \A t \in Tasks : q.active[t] \in {plan[o].active[t], upsert[o].active[t], NoAssignment}
  /\ writer' = [writer EXCEPT ![o] = [t \in Tasks |-> NoAssignment]]
PlanEdits(o, q, t) ==
  /\ q.active = plan[o].active /\ \E s \in Statuses : Written(o, q, {t}, s)
  /\ By(o, {t}, NoAssignment)
ToolMove(o) ==
  /\ Unlocked /\ UNCHANGED bus /\ tools' \in 0..MaxTools
  /\ upsert' \in {upsert, [upsert EXCEPT ![o] = plan[o]], [upsert EXCEPT ![o] = NoPlan]}
  /\ \/ UNCHANGED <<plan, writer>>
     \/ \E q \in Plans : /\ ParentsFollow(q) /\ plan' = [plan EXCEPT ![o] = q]
                         /\ Replaces(o, q) \/ \E t \in Tasks : PlanEdits(o, q, t)

LEMMA ToolMoves ==
  ASSUME PlanTypeOK, NEW o \in Owners,
         \/ \E shape \in Shapes, given \in Given, kept \in BOOLEAN : SetPlan(o, shape, given, kept)
         \/ UpsertRead(o)
         \/ \E t \in Tasks, s \in Statuses : UpdateTask(o, t, s) \/ UpsertWrite(o, t, s)
  PROVE  ToolMove(o)
<1>1. tools \in 0..MaxTools /\ MaxTools \in Nat /\ plan[o] \in Plans /\ upsert[o] \in Plans /\ plan \in [Owners -> Plans]
  BY NoPlanType, PlanConstants DEF PlanTypeOK
<1>2. Tool => tools' \in 0..MaxTools
  BY <1>1 DEF Tool
<1>3. By(o, Tasks, NoAssignment) => writer' = [writer EXCEPT ![o] = [t \in Tasks |-> NoAssignment]]
  BY DEF By, PlanTypeOK
<1>4. ASSUME NEW shape \in Shapes, NEW given \in Given, NEW kept \in BOOLEAN, SetPlan(o, shape, given, kept)
      PROVE  ToolMove(o)
  <2> DEFINE active == [t \in Tasks |-> IF kept /\ shape[t] # Absent THEN plan[o].active[t] ELSE NoAssignment]
             status == [t \in Tasks |-> IF shape[t] = Absent THEN "not_started" ELSE given[t]]
             p == [up |-> shape, status |-> status, active |-> active]
  <2>1. shape \in [Tasks -> Tasks \cup {Root, Absent}] /\ given \in [Tasks -> Statuses]
    BY PlanConstants
  <2>2. active \in [Tasks -> Assignments \cup {NoAssignment}] /\ status \in [Tasks -> Statuses]
    BY <1>1, <2>1 DEF Plans, Statuses
  <2>3. \A t \in Tasks : active[t] \in {plan[o].active[t], upsert[o].active[t], NoAssignment}
    OBVIOUS
  <2>4. /\ Unlocked /\ Tool /\ plan' = [plan EXCEPT ![o] = Reconciled(p, {})]
        /\ By(o, Tasks, NoAssignment) /\ UNCHANGED <<bus, upsert>>
    BY <1>4 DEF SetPlan
  <2> HIDE DEF active, status
  <2>5. p \in Plans /\ p.active = active
    BY <2>1, <2>2 DEF Plans
  <2> HIDE DEF p
  <2>6. /\ Reconciled(p, {}) \in Plans /\ ParentsFollow(Reconciled(p, {}))
        /\ Reconciled(p, {}).active = active
    BY <2>5, ReconciledFacts
  <2>7. Replaces(o, Reconciled(p, {}))
    BY <1>3, <2>3, <2>4, <2>6 DEF Replaces
  <2> QED BY <1>2, <2>4, <2>6, <2>7 DEF ToolMove
<1>5. CASE UpsertRead(o)
  BY <1>2, <1>5 DEF UpsertRead, ToolMove
<1>6. ASSUME NEW t \in Tasks, NEW s \in Statuses, UpdateTask(o, t, s)
      PROVE  ToolMove(o)
  <2> DEFINE q == Write(plan[o], {t}, s)
  <2>1. /\ Unlocked /\ Tool /\ Leaf(plan[o], t) /\ plan' = [plan EXCEPT ![o] = q]
        /\ By(o, {t}, NoAssignment) /\ UNCHANGED <<bus, upsert>>
    BY <1>1, <1>6 DEF UpdateTask
  <2>2. /\ q \in Plans /\ q.active = plan[o].active /\ Written(o, q, {t}, s)
        /\ (\A u \in Tasks : u \in {t} /\ Children(plan[o], u) # {} => ~Unassigned(plan[o], u)) => ParentsFollow(q)
    BY <1>1, WriteFacts DEF Written
  <2> HIDE DEF q
  <2>3. ParentsFollow(q)
    BY <2>1, <2>2 DEF Leaf
  <2>4. PlanEdits(o, q, t)
    BY <2>1, <2>2 DEF PlanEdits
  <2> QED BY <1>2, <2>1, <2>2, <2>3, <2>4 DEF ToolMove
<1>7. ASSUME NEW t \in Tasks, NEW s \in Statuses, UpsertWrite(o, t, s)
      PROVE  ToolMove(o)
  <2> DEFINE old == upsert[o]
             rest == [old EXCEPT !.up = [u \in Tasks |->
                        IF u = t \/ (old.up[u] = t /\ old.up[t] = Root) THEN Absent ELSE @[u]]]
             new == [rest EXCEPT !.up[t] = Root, !.active[t] = NoAssignment, !.status[t] = s]
  <2>1. /\ Unlocked /\ UNCHANGED <<bus, tools>> /\ upsert' = [upsert EXCEPT ![o] = NoPlan]
        /\ \/ plan' = [plan EXCEPT ![o] = Reconciled(new, {})] /\ By(o, Tasks, NoAssignment)
           \/ UNCHANGED <<plan, writer>>
    BY <1>7 DEF UpsertWrite
  <2>2. rest \in Plans /\ rest.active = old.active
    BY <1>1 DEF Plans
  <2> HIDE DEF rest
  <2>3. new \in Plans /\ \A u \in Tasks : new.active[u] \in {old.active[u], NoAssignment}
    BY <2>2 DEF Plans
  <2> HIDE DEF new
  <2>4. /\ Reconciled(new, {}) \in Plans /\ ParentsFollow(Reconciled(new, {}))
        /\ Reconciled(new, {}).active = new.active
    BY <2>3, ReconciledFacts
  <2>5. By(o, Tasks, NoAssignment) => Replaces(o, Reconciled(new, {}))
    BY <1>3, <2>3, <2>4 DEF Replaces
  <2> QED BY <1>1, <2>1, <2>4, <2>5 DEF ToolMove
<1> QED BY <1>4, <1>5, <1>6, <1>7

Binds(a, h, q) ==
  /\ ParentsFollow(q) /\ plan' = [plan EXCEPT ![h] = q] /\ Written(h, q, {task[a]}, "in_progress")
  /\ q.active = [plan[h].active EXCEPT ![task[a]] = a] /\ By(h, {task[a]}, a)

LEMMA BoundMoves ==
  ASSUME PlanTypeOK, NEW a \in Assignments, task[a] \in Tasks, Bindable(a), Bound(a)
  PROVE  \E h \in Owners : \E q \in Plans : Binds(a, h, q)
<1> DEFINE h == Holder(task[a])
           w == Write(plan[h], {task[a]}, "in_progress")
           q == [w EXCEPT !.active[task[a]] = a]
<1>1. h \in Owners /\ plan[h] \in Plans /\ plan \in [Owners -> Plans]
  BY HolderOwns DEF PlanTypeOK
<1>2. plan' = [plan EXCEPT ![h] = q] /\ By(h, {task[a]}, a) /\ Leaf(plan[h], task[a])
  BY <1>1 DEF Bound, Bindable
<1>3. /\ w \in Plans /\ w.active = plan[h].active /\ w.up = plan[h].up
      /\ Written(h, w, {task[a]}, "in_progress")
      /\ (\A u \in Tasks : u \in {task[a]} /\ Children(plan[h], u) # {} => ~Unassigned(plan[h], u)) => ParentsFollow(w)
  BY <1>1, WriteFacts DEF Written, Statuses
<1>4. ParentsFollow(w)
  BY <1>2, <1>3 DEF Leaf
<1> HIDE DEF w
<1>5. q \in Plans /\ q.up = w.up /\ q.status = w.status /\ q.active = [plan[h].active EXCEPT ![task[a]] = a]
  BY <1>3 DEF Plans
<1>6. \A u \in Tasks : Children(q, u) = Children(w, u)
  BY <1>5 DEF Children
<1>7. \A u \in Tasks : Children(q, u) # {} /\ Unassigned(q, u) => Unassigned(w, u)
  BY <1>2, <1>3, <1>5, <1>6 DEF Unassigned, Leaf, Children, Plans
<1> HIDE DEF q
<1>8. ParentsFollow(q)
  BY <1>4, <1>5, <1>6, <1>7 DEF ParentsFollow
<1>9. Written(h, q, {task[a]}, "in_progress")
  BY <1>3, <1>5 DEF Written
<1> QED BY <1>1, <1>2, <1>5, <1>8, <1>9 DEF Binds

Holds(o, a) == {t \in Tasks : Has(plan[o], t) /\ plan[o].active[t] = a}
Reports(a, h, q) ==
  /\ ParentsFollow(q) /\ plan' = [plan EXCEPT ![h] = q] /\ Written(h, q, Holds(h, a), outcome[a])
  /\ q.active = plan[h].active /\ Holds(h, a) # {}

LEMMA ReportMoves ==
  ASSUME PlanTypeOK, NEW a \in Assignments, Reported(a)
  PROVE  \/ UNCHANGED plan /\ \A o \in Owners : Holds(o, a) = {}
         \/ \E h \in Owners : \E q \in Plans : Reports(a, h, q)
<1> DEFINE found == {o \in Owners : \E t \in Tasks : Has(plan[o], t) /\ plan[o].active[t] = a}
           h == IF First \in found THEN First ELSE CHOOSE x \in found : TRUE
           q == Write(plan[h], Holds(h, a), outcome[a])
<1>1. CASE found = {}
  BY <1>1 DEF Reported, Holds
<1>2. CASE found # {}
  <2>1. h \in found
    BY <1>2
  <2>2. h \in Owners /\ plan[h] \in Plans /\ outcome[a] \in Statuses /\ Holds(h, a) # {}
    BY <2>1 DEF PlanTypeOK, Finals, Statuses, Holds
  <2>3. plan' = [plan EXCEPT ![h] = q]
    BY <1>2, <2>2 DEF Reported, Holds, PlanTypeOK
  <2>4. \A t \in Holds(h, a) : ~Unassigned(plan[h], t)
    BY PlanConstants DEF Holds, Unassigned
  <2> HIDE DEF h
  <2>5. /\ q \in Plans /\ q.active = plan[h].active /\ Written(h, q, Holds(h, a), outcome[a])
        /\ (\A u \in Tasks : u \in Holds(h, a) /\ Children(plan[h], u) # {} => ~Unassigned(plan[h], u)) => ParentsFollow(q)
    BY <2>2, WriteFacts DEF Written
  <2> HIDE DEF q
  <2>6. ParentsFollow(q)
    BY <2>4, <2>5
  <2> QED BY <2>2, <2>3, <2>5, <2>6 DEF Reports
<1> QED BY <1>1, <1>2

-----------------------------------------------------------------------------
\* Types.

LEMMA ByType ==
  ASSUME PlanTypeOK, NEW o \in Owners, NEW ts, NEW w \in Assignments \cup {NoAssignment}, By(o, ts, w)
  PROVE  writer' \in [Owners -> [Tasks -> Assignments \cup {NoAssignment}]]
BY DEF By, PlanTypeOK

LEMMA TypeToolStep ==
  ASSUME PlanTypeOK, NEW o \in Owners, ToolMove(o)
  PROVE  PlanTypeOK'
<1>1. /\ lock' = lock /\ prev' = prev /\ call' = call /\ task' = task /\ worker' = worker
      /\ outcome' = outcome /\ revived' = revived /\ failedSaves' = failedSaves /\ tools' \in 0..MaxTools
  BY DEF ToolMove, bus
<1>2. upsert' \in [Owners -> Plans \cup {NoPlan}]
  BY DEF ToolMove, PlanTypeOK
<1>3. plan' \in [Owners -> Plans]
  BY DEF ToolMove, PlanTypeOK
<1>4. writer' \in [Owners -> [Tasks -> Assignments \cup {NoAssignment}]]
  <2>1. CASE writer' = writer
    BY <2>1 DEF PlanTypeOK
  <2>2. ASSUME NEW q, Replaces(o, q)
        PROVE  writer' \in [Owners -> [Tasks -> Assignments \cup {NoAssignment}]]
    BY <2>2 DEF Replaces, PlanTypeOK
  <2>3. ASSUME NEW q, NEW t, PlanEdits(o, q, t)
        PROVE  writer' \in [Owners -> [Tasks -> Assignments \cup {NoAssignment}]]
    BY <2>3, ByType DEF PlanEdits
  <2> QED BY <2>1, <2>2, <2>3 DEF ToolMove
<1> QED BY <1>1, <1>2, <1>3, <1>4 DEF PlanTypeOK

\* A call never binds a task it was not made for.
LEMMA CalledTask ==
  ASSUME BindingInv, NEW a \in Assignments, call[a] = "bind"
  PROVE  task[a] \in Tasks
BY DEF BindingInv, CallsOf

LEMMA TypeBound ==
  ASSUME PlanTypeOK, BindingInv, NEW a \in Assignments, call[a] = "bind", Bindable(a), Bound(a)
  PROVE  /\ plan' \in [Owners -> Plans]
         /\ writer' \in [Owners -> [Tasks -> Assignments \cup {NoAssignment}]]
<1>1. task[a] \in Tasks
  BY CalledTask
<1>2. PICK h \in Owners, q \in Plans : Binds(a, h, q)
  BY <1>1, BoundMoves
<1>3. plan' \in [Owners -> Plans]
  BY <1>2 DEF Binds, PlanTypeOK
<1>4. writer' \in [Owners -> [Tasks -> Assignments \cup {NoAssignment}]]
  BY <1>2, ByType DEF Binds
<1> QED BY <1>3, <1>4

LEMMA TypeReported ==
  ASSUME PlanTypeOK, NEW a \in Assignments, Reported(a)
  PROVE  plan' \in [Owners -> Plans]
<1>1. CASE UNCHANGED plan
  BY <1>1 DEF PlanTypeOK
<1>2. ASSUME NEW h \in Owners, NEW q \in Plans, Reports(a, h, q)
      PROVE  plan' \in [Owners -> Plans]
  BY <1>2 DEF Reports, PlanTypeOK
<1> QED BY <1>1, <1>2, ReportMoves

LEMMA PlanTypeStep ==
  ASSUME PlanTypeOK, BindingInv, [PlanNext]_planVars
  PROVE  PlanTypeOK'
<1>1. CASE UNCHANGED planVars
  BY <1>1 DEF planVars, PlanTypeOK
<1>2. ASSUME NEW o \in Owners, ToolMove(o)
      PROVE  PlanTypeOK'
  BY <1>2, TypeToolStep
<1>3. ASSUME NEW a \in Assignments, NEW t \in Tasks, CallCheck(a, t)
      PROVE  PlanTypeOK'
  BY <1>3 DEF CallCheck, PlanTypeOK
<1>4. ASSUME NEW a \in Assignments, Admit(a)
      PROVE  PlanTypeOK'
  BY <1>4 DEF Admit, PlanTypeOK
<1>5. ASSUME NEW a \in Assignments, OnBus(a)
      PROVE  PlanTypeOK'
  BY <1>5 DEF OnBus, PlanTypeOK
<1>6. ASSUME NEW a \in Assignments, Bind(a)
      PROVE  PlanTypeOK'
  <2>1. call[a] = "bind" /\ Bindable(a) /\ Bound(a)
    BY <1>6 DEF Bind
  <2>2. /\ plan' \in [Owners -> Plans]
        /\ writer' \in [Owners -> [Tasks -> Assignments \cup {NoAssignment}]]
    BY <2>1, TypeBound
  <2> QED BY <1>6, <2>2 DEF Bind, Release, PlanTypeOK
<1>7. ASSUME NEW a \in Assignments, BindFails(a)
      PROVE  PlanTypeOK'
  <2>1. /\ call[a] = "bind" /\ call' = [call EXCEPT ![a] = "failed"] /\ Release(a)
        /\ worker' = [worker EXCEPT ![a] = IF a \in revived THEN @ ELSE "exited"]
        /\ UNCHANGED <<prev, task, outcome, revived, upsert, tools>>
        /\ \/ failedSaves' = failedSaves
           \/ failedSaves < MaxFailedSaves /\ failedSaves' = failedSaves + 1
        /\ \/ plan' \in {plan, prev} /\ writer' = writer
           \/ Bindable(a) /\ Bound(a)
    BY <1>7 DEF BindFails
  <2>2. /\ plan' \in [Owners -> Plans]
        /\ writer' \in [Owners -> [Tasks -> Assignments \cup {NoAssignment}]]
    <3>1. CASE plan' \in {plan, prev} /\ writer' = writer
      BY <3>1 DEF PlanTypeOK
    <3>2. CASE Bindable(a) /\ Bound(a)
      BY <2>1, <3>2, TypeBound
    <3> QED BY <2>1, <3>1, <3>2
  <2>3. failedSaves' \in 0..MaxFailedSaves
    BY <2>1, PlanConstants DEF PlanTypeOK
  <2>4. call' \in [Assignments -> {"none", "checked", "bus", "bind", "done", "failed"}]
    BY <2>1 DEF PlanTypeOK
  <2>5. worker' \in [Assignments -> {"none", "running", "hook", "reporting", "exited"}]
    BY <2>1 DEF PlanTypeOK
  <2> QED BY <2>1, <2>2, <2>3, <2>4, <2>5 DEF Release, PlanTypeOK
<1>8. ASSUME NEW a \in Assignments, ReportHook(a) \/ ReportTask(a) \/ WorkerFails(a)
      PROVE  PlanTypeOK'
  <2>1. /\ Reported(a) /\ \E w \in {"reporting", "exited"} : worker' = [worker EXCEPT ![a] = w]
        /\ UNCHANGED <<lock, prev, call, task, outcome, revived, upsert, writer, tools, failedSaves>>
    BY <1>8 DEF ReportHook, ReportTask, WorkerFails
  <2>2. plan' \in [Owners -> Plans]
    BY <2>1, TypeReported
  <2> QED BY <2>1, <2>2 DEF PlanTypeOK
<1> QED BY <1>1, <1>2, <1>3, <1>4, <1>5, <1>6, <1>7, <1>8, ToolMoves DEF PlanNext

LEMMA FiledType ==
  ASSUME NEW shape \in Shapes
  PROVE  Filed(shape) \in Plans
BY NoPlanType, PlanConstants DEF Filed, Plans

LEMMA TypeStart == PlanInit => PlanTypeOK
<1> SUFFICES ASSUME PlanInit PROVE PlanTypeOK
  OBVIOUS
<1>1. plan \in [Owners -> Plans] /\ prev \in [Owners -> Plans]
  BY NoPlanType, FiledType DEF PlanInit
<1> QED BY <1>1, PlanConstants DEF PlanInit, PlanTypeOK

\* Whatever forests are submitted and read back, every plan stays a plan.
THEOREM PlanTypeCorrect == PlanSpec => []PlanTypeOK
<1>1. PlanTypeOK /\ BindingInv /\ [PlanNext]_planVars => PlanTypeOK' /\ BindingInv'
  BY PlanTypeStep, BindingStep
<1> QED BY TypeStart, BindingStart, <1>1, PTL DEF PlanSpec

-----------------------------------------------------------------------------
\* The steps an assignment takes, as far as the plans are concerned.

CallMove(a) ==
  /\ \/ call[a] = "none" /\ call'[a] = "checked" /\ UNCHANGED <<lock, prev, worker>>
     \/ call[a] = "checked" /\ a \in revived /\ call'[a] = "bus" /\ UNCHANGED <<lock, prev, worker>>
     \/ call[a] = "checked" /\ a \notin revived /\ call'[a] = "bus" /\ Unlocked /\ lock' = a /\ prev' = plan
        /\ UNCHANGED worker
     \/ call[a] = "bus" /\ call'[a] = "bind" /\ worker' = [worker EXCEPT ![a] = "running"] /\ UNCHANGED <<lock, prev>>
  /\ \A b \in Assignments \ {a} : call'[b] = call[b]
  /\ revived' \in {revived, revived \cup {a}} /\ (call[a] # "none" => revived' = revived)
  /\ UNCHANGED <<plan, upsert, writer, outcome>>
EndMove(a) ==
  /\ call[a] = "bind" /\ May(a) /\ Release(a)
  /\ \/ call'[a] = "done" /\ Bindable(a) /\ Bound(a) /\ worker' = worker
     \/ call'[a] = "failed" /\ a \notin revived /\ plan' = prev /\ writer' = writer
     \/ call'[a] = "failed" /\ a \in revived /\ UNCHANGED <<plan, writer>>
     \/ call'[a] = "failed" /\ a \in revived /\ Bindable(a) /\ Bound(a)
  /\ \A b \in Assignments \ {a} : call'[b] = call[b] /\ worker'[b] = worker[b]
  /\ UNCHANGED <<prev, upsert, revived, outcome>>
ReportMove(a) ==
  /\ Unlocked /\ Reported(a)
  /\ worker'[a] \in {"reporting", "exited"} /\ \A b \in Assignments \ {a} : worker'[b] = worker[b]
  /\ UNCHANGED <<lock, prev, call, task, outcome, revived, upsert, writer>>

LEMMA PlanMoves ==
  ASSUME PlanTypeOK, [PlanNext]_planVars
  PROVE  \/ UNCHANGED <<plan, lock, prev, call, worker, outcome, revived, upsert, writer>>
         \/ \E o \in Owners : ToolMove(o)
         \/ \E a \in Assignments : CallMove(a) \/ EndMove(a) \/ ReportMove(a)
<1>1. CASE UNCHANGED planVars
  BY <1>1 DEF planVars
<1>2. ASSUME NEW a \in Assignments, NEW t \in Tasks, CallCheck(a, t)
      PROVE  CallMove(a)
  BY <1>2 DEF CallCheck, CallMove, PlanTypeOK
<1>3. ASSUME NEW a \in Assignments, Admit(a)
      PROVE  CallMove(a)
  BY <1>3 DEF Admit, CallMove, PlanTypeOK
<1>4. ASSUME NEW a \in Assignments, OnBus(a)
      PROVE  CallMove(a)
  BY <1>4 DEF OnBus, CallMove, PlanTypeOK
<1>5. ASSUME NEW a \in Assignments, Bind(a)
      PROVE  EndMove(a)
  BY <1>5 DEF Bind, EndMove, PlanTypeOK
<1>6. ASSUME NEW a \in Assignments, BindFails(a)
      PROVE  EndMove(a)
  <2>1. /\ call[a] = "bind" /\ May(a) /\ Release(a) /\ call'[a] = "failed"
        /\ \A b \in Assignments \ {a} : call'[b] = call[b] /\ worker'[b] = worker[b]
        /\ UNCHANGED <<prev, upsert, revived, outcome>>
    BY <1>6 DEF BindFails, PlanTypeOK
  <2>2. CASE a \notin revived
    BY <1>6, <2>1, <2>2 DEF BindFails, EndMove
  <2>3. CASE a \in revived
    BY <1>6, <2>1, <2>3 DEF BindFails, EndMove
  <2> QED BY <2>2, <2>3
<1>7. ASSUME NEW a \in Assignments, ReportHook(a) \/ ReportTask(a) \/ WorkerFails(a)
      PROVE  ReportMove(a)
  BY <1>7 DEF ReportHook, ReportTask, WorkerFails, ReportMove, PlanTypeOK
<1> QED BY <1>1, <1>2, <1>3, <1>4, <1>5, <1>6, <1>7, ToolMoves DEF PlanNext

-----------------------------------------------------------------------------
\* Parents and their children.

LEMMA NoParents ==
  ASSUME NEW p, \A t \in Tasks : p.status[t] = "not_started"
  PROVE  ParentsFollow(p)
<1> SUFFICES ASSUME NEW t \in Tasks, Children(p, t) # {}
             PROVE  p.status[t] = Combine({p.status[c] : c \in Children(p, t)})
  BY DEF ParentsFollow
<1>1. {p.status[c] : c \in Children(p, t)} = {"not_started"}
  BY DEF Children
<1>2. Combine({"not_started"}) = "not_started"
  BY DEF Combine
<1> QED BY <1>1, <1>2

LEMMA DerivedStart == PlanInit => DerivedInv
<1>1. \A t \in Tasks : NoPlan.status[t] = "not_started"
  BY DEF NoPlan, Blank
<1>2. \A shape \in Shapes, t \in Tasks : Filed(shape).status[t] = "not_started"
  BY DEF Filed, NoPlan, Blank
<1>3. ParentsFollow(NoPlan) /\ \A shape \in Shapes : ParentsFollow(Filed(shape))
  BY <1>1, <1>2, NoParents
<1> QED BY <1>3 DEF PlanInit, DerivedInv

LEMMA OneFollows ==
  ASSUME PlanTypeOK, DerivedInv, NEW o \in Owners, NEW q, ParentsFollow(q), plan' = [plan EXCEPT ![o] = q], prev' = prev
  PROVE  DerivedInv'
BY DEF PlanTypeOK, DerivedInv

LEMMA DerivedStep ==
  ASSUME PlanTypeOK, BindingInv, DerivedInv, [PlanNext]_planVars
  PROVE  DerivedInv'
<1>1. CASE UNCHANGED <<plan, lock, prev, call, worker, outcome, revived, upsert, writer>>
  BY <1>1 DEF DerivedInv
<1>2. ASSUME NEW o \in Owners, ToolMove(o)
      PROVE  DerivedInv'
  <2>1. prev' = prev
    BY <1>2 DEF ToolMove, bus
  <2>2. CASE plan' = plan
    BY <2>1, <2>2 DEF DerivedInv
  <2>3. ASSUME NEW q \in Plans, ParentsFollow(q), plan' = [plan EXCEPT ![o] = q]
        PROVE  DerivedInv'
    BY <2>1, <2>3, OneFollows
  <2> QED BY <1>2, <2>2, <2>3 DEF ToolMove
<1>3. ASSUME NEW a \in Assignments, CallMove(a)
      PROVE  DerivedInv'
  <2>1. plan' = plan /\ prev' \in {plan, prev}
    BY <1>3 DEF CallMove
  <2> QED BY <2>1 DEF DerivedInv
<1>4. ASSUME NEW a \in Assignments, EndMove(a)
      PROVE  DerivedInv'
  <2>1. prev' = prev
    BY <1>4 DEF EndMove
  <2>2. CASE plan' \in {plan, prev}
    BY <2>1, <2>2 DEF DerivedInv
  <2>3. CASE Bindable(a) /\ Bound(a)
    <3>1. PICK h \in Owners, q \in Plans : Binds(a, h, q)
      BY <1>4, <2>3, CalledTask, BoundMoves DEF EndMove
    <3> QED BY <2>1, <3>1, OneFollows DEF Binds
  <2> QED BY <1>4, <2>2, <2>3 DEF EndMove
<1>5. ASSUME NEW a \in Assignments, ReportMove(a)
      PROVE  DerivedInv'
  <2>1. prev' = prev /\ Reported(a)
    BY <1>5 DEF ReportMove
  <2>2. CASE plan' = plan
    BY <2>1, <2>2 DEF DerivedInv
  <2>3. ASSUME NEW h \in Owners, NEW q \in Plans, Reports(a, h, q)
        PROVE  DerivedInv'
    BY <2>1, <2>3, OneFollows DEF Reports
  <2> QED BY <2>1, <2>2, <2>3, ReportMoves
<1> QED BY <1>1, <1>2, <1>3, <1>4, <1>5, PlanMoves

\* Under any tools, dispatches, rollbacks and reports a parent's status is the
\* one its children imply, at every depth of every forest (_derive_status).
THEOREM ParentsFollowChildren == PlanSpec => []ParentsDerived
<1>1. DerivedInv => ParentsDerived
  BY DEF DerivedInv, ParentsFollow, ParentsDerived
<1>2. /\ PlanTypeOK /\ BindingInv /\ DerivedInv /\ [PlanNext]_planVars
      => PlanTypeOK' /\ BindingInv' /\ DerivedInv'
  BY PlanTypeStep, BindingStep, DerivedStep
<1> QED BY TypeStart, BindingStart, DerivedStart, <1>1, <1>2, PTL DEF PlanSpec

-----------------------------------------------------------------------------
\* Each assignment in one plan, and the lock over a dispatch.

LEMMA HomeStart == PlanInit => HomeInv
<1> SUFFICES ASSUME PlanInit PROVE HomeInv
  OBVIOUS
<1>0. \A t \in Tasks : NoPlan.active[t] = NoAssignment /\ \A shape \in Shapes : Filed(shape).active[t] = NoAssignment
  BY DEF Filed, NoPlan
<1>1. \A o \in Owners, t \in Tasks : /\ plan[o].active[t] = NoAssignment
                                     /\ prev[o].active[t] = NoAssignment /\ upsert[o].active[t] = NoAssignment
  BY <1>0 DEF PlanInit
<1> QED BY <1>1, PlanConstants DEF HomeInv, ActiveIn

\* What is active in a plan after a step was active in it before.
LEMMA HomeKept ==
  ASSUME HomeInv, NEW b \in Assignments,
         \A o \in Owners : ActiveIn(o, b)' => ActiveIn(o, b)
  PROVE  \A o, x \in Owners : ActiveIn(o, b)' /\ ActiveIn(x, b)' => o = x
BY DEF HomeInv

LEMMA HomeBound ==
  ASSUME PlanTypeOK, BindingInv, HomeInv, NEW a \in Assignments, call[a] = "bind", Bindable(a), Bound(a),
         UNCHANGED <<prev, upsert>>
  PROVE  HomeInv'
<1>1. task[a] \in Tasks
  BY CalledTask
<1>2. PICK h \in Owners, q \in Plans : Binds(a, h, q)
  BY <1>1, BoundMoves
<1>3. plan' = [plan EXCEPT ![h] = q] /\ q.active = [plan[h].active EXCEPT ![task[a]] = a]
  BY <1>2 DEF Binds
<1>4. \A o \in Owners : ~ActiveIn(o, a)
  <2>1. a \notin Bindings /\ a # NoAssignment
    BY PlanConstants DEF Bindings
  <2>2. \A o \in Owners, t \in Tasks :
          {plan[o].active[t], prev[o].active[t], upsert[o].active[t]} \subseteq Bindings \cup {NoAssignment}
    BY DEF BindingInv, WaitsFor
  <2> QED BY <2>1, <2>2 DEF ActiveIn
<1>5. ASSUME NEW o \in Owners, NEW b \in Assignments, ActiveIn(o, b)'
      PROVE  ActiveIn(o, b) \/ (o = h /\ b = a)
  <2>1. PICK t \in Tasks : b \in {plan'[o].active[t], prev[o].active[t], upsert[o].active[t]}
    BY <1>5 DEF ActiveIn
  <2>2. plan'[o].active[t] = plan[o].active[t] \/ (o = h /\ plan'[o].active[t] = a)
    BY <1>3 DEF PlanTypeOK, Plans
  <2> QED BY <2>1, <2>2 DEF ActiveIn
<1> QED BY <1>4, <1>5 DEF HomeInv

LEMMA HomeStep ==
  ASSUME PlanTypeOK, BindingInv, HomeInv, [PlanNext]_planVars
  PROVE  HomeInv'
<1>1. CASE \A b \in Assignments, o \in Owners : ActiveIn(o, b)' => ActiveIn(o, b)
  BY <1>1, HomeKept DEF HomeInv
<1>2. CASE UNCHANGED <<plan, lock, prev, call, worker, outcome, revived, upsert, writer>>
  BY <1>1, <1>2 DEF ActiveIn
<1>3. ASSUME NEW o \in Owners, ToolMove(o)
      PROVE  HomeInv'
  <2>1. prev' = prev /\ upsert' \in {upsert, [upsert EXCEPT ![o] = plan[o]], [upsert EXCEPT ![o] = NoPlan]}
    BY <1>3 DEF ToolMove, bus
  <2>2. \A x \in Owners, t \in Tasks : upsert'[x].active[t] \in {upsert[x].active[t], plan[x].active[t], NoAssignment}
    BY <2>1 DEF PlanTypeOK, NoPlan
  <2>3. \A x \in Owners, t \in Tasks : plan'[x].active[t] \in {upsert[x].active[t], plan[x].active[t], NoAssignment}
    <3>1. ASSUME NEW q \in Plans, plan' = [plan EXCEPT ![o] = q], Replaces(o, q) \/ \E t \in Tasks : PlanEdits(o, q, t)
          PROVE  \A t \in Tasks : plan'[o].active[t] \in {upsert[o].active[t], plan[o].active[t], NoAssignment}
      BY <3>1 DEF Replaces, PlanEdits, PlanTypeOK
    <3>2. \A x \in Owners \ {o} : plan'[x] = plan[x]
      BY <1>3 DEF ToolMove, PlanTypeOK
    <3> QED BY <1>3, <3>1, <3>2 DEF ToolMove
  <2>4. \A b \in Assignments, x \in Owners : ActiveIn(x, b)' => ActiveIn(x, b)
    BY <2>1, <2>2, <2>3, PlanConstants DEF ActiveIn
  <2> QED BY <1>1, <2>4
<1>4. ASSUME NEW a \in Assignments, CallMove(a)
      PROVE  HomeInv'
  <2>1. plan' = plan /\ upsert' = upsert /\ prev' \in {plan, prev}
    BY <1>4 DEF CallMove
  <2> QED BY <1>1, <2>1 DEF ActiveIn
<1>5. ASSUME NEW a \in Assignments, EndMove(a)
      PROVE  HomeInv'
  <2>1. prev' = prev /\ upsert' = upsert /\ call[a] = "bind"
    BY <1>5 DEF EndMove
  <2>2. CASE plan' \in {plan, prev}
    BY <1>1, <2>1, <2>2 DEF ActiveIn
  <2>3. CASE Bindable(a) /\ Bound(a)
    BY <2>1, <2>3, HomeBound
  <2> QED BY <1>5, <2>2, <2>3 DEF EndMove
<1>6. ASSUME NEW a \in Assignments, ReportMove(a)
      PROVE  HomeInv'
  <2>1. prev' = prev /\ upsert' = upsert /\ Reported(a)
    BY <1>6 DEF ReportMove
  <2>2. \A x \in Owners : plan'[x].active = plan[x].active
    BY <2>1, ReportMoves DEF Reports, PlanTypeOK
  <2> QED BY <1>1, <2>1, <2>2 DEF ActiveIn
<1> QED BY <1>2, <1>3, <1>4, <1>5, <1>6, PlanMoves

LEMMA LockStart == PlanInit => LockInv
BY DEF PlanInit, LockInv

LEMMA LockStep ==
  ASSUME PlanTypeOK, LockInv, [PlanNext]_planVars
  PROVE  LockInv'
<1>1. CASE UNCHANGED <<plan, lock, prev, call, worker, outcome, revived, upsert, writer>>
  BY <1>1 DEF LockInv
<1>2. ASSUME NEW o \in Owners, ToolMove(o)
      PROVE  LockInv'
  BY <1>2 DEF ToolMove, bus, Unlocked, LockInv
<1>3. ASSUME NEW a \in Assignments, CallMove(a)
      PROVE  LockInv'
  <2>1. lock' # NoAssignment => plan' = prev'
    BY <1>3 DEF CallMove, LockInv
  <2>2. ASSUME NEW b \in Assignments \ revived', call'[b] \in {"bus", "bind"}
        PROVE  lock' = b /\ (call'[b] = "bind" => worker'[b] = "running")
    <3>1. b \notin revived
      BY <1>3, <2>2 DEF CallMove
    <3>2. CASE b = a
      BY <1>3, <2>2, <3>1, <3>2 DEF CallMove, LockInv, PlanTypeOK
    <3>3. CASE b # a
      BY <1>3, <2>2, <3>1, <3>3, PlanConstants DEF CallMove, LockInv, PlanTypeOK, Unlocked
    <3> QED BY <3>2, <3>3
  <2> QED BY <2>1, <2>2 DEF LockInv
<1>4. ASSUME NEW a \in Assignments, EndMove(a)
      PROVE  LockInv'
  <2>1. /\ May(a) /\ Release(a) /\ call'[a] \in {"done", "failed"} /\ revived' = revived
        /\ \A b \in Assignments \ {a} : call'[b] = call[b] /\ worker'[b] = worker[b]
    BY <1>4 DEF EndMove
  <2>2. lock' = NoAssignment
    BY <2>1 DEF May, Unlocked, Release
  <2>3. ASSUME NEW b \in Assignments \ revived, call'[b] \in {"bus", "bind"}
        PROVE  FALSE
    <3>1. b # a /\ lock = b
      BY <2>1, <2>3 DEF LockInv
    <3> QED BY <2>1, <3>1, PlanConstants DEF May, Unlocked
  <2> QED BY <2>1, <2>2, <2>3 DEF LockInv
<1>5. ASSUME NEW a \in Assignments, ReportMove(a)
      PROVE  LockInv'
  <2>1. lock = NoAssignment /\ UNCHANGED <<lock, prev, call, revived>>
    BY <1>5 DEF ReportMove, Unlocked
  <2>2. \A b \in Assignments \ revived : call[b] \notin {"bus", "bind"}
    BY <2>1, PlanConstants DEF LockInv
  <2> QED BY <2>1, <2>2 DEF LockInv
<1> QED BY <1>1, <1>2, <1>3, <1>4, <1>5, PlanMoves

-----------------------------------------------------------------------------
\* Reports and the leaves they were made for.

\* Writing the tasks ts of one plan keeps every leaf, and the status of the others.
OnlyWrites(h, ts) ==
  \A o \in Owners, t \in Tasks :
    /\ Leaf(plan'[o], t) <=> Leaf(plan[o], t)
    /\ Leaf(plan[o], t) /\ (o = h => t \notin ts) => plan'[o].status[t] = plan[o].status[t]

LEMMA LeavesKept ==
  ASSUME PlanTypeOK, NEW h \in Owners, NEW q, NEW ts, NEW s, Written(h, q, ts, s), plan' = [plan EXCEPT ![h] = q]
  PROVE  OnlyWrites(h, ts)
<1>1. \A o \in Owners : plan'[o] = IF o = h THEN q ELSE plan[o]
  BY DEF PlanTypeOK
<1>2. \A t \in Tasks : (Leaf(q, t) <=> Leaf(plan[h], t)) /\ Children(q, t) = Children(plan[h], t)
  BY DEF Written, Leaf, Has, Children
<1>3. \A t \in Tasks : Leaf(plan[h], t) /\ t \notin ts => q.status[t] = plan[h].status[t]
  BY DEF Written, Leaf
<1> QED BY <1>1, <1>2, <1>3 DEF OnlyWrites

\* Nothing the property speaks of changes, or only to its credit.
LEMMA SamePlans ==
  ASSUME ReportReachesPlan, UNCHANGED <<plan, writer, outcome>>, revived \subseteq revived',
         \A b \in Assignments \ revived' :
           call'[b] = "done" /\ worker'[b] = "exited" => call[b] = "done" /\ worker[b] = "exited"
  PROVE  ReportReachesPlan'
BY DEF ReportReachesPlan

LEMMA ReachesAfterTool ==
  ASSUME PlanTypeOK, ReportReachesPlan, NEW o \in Owners, ToolMove(o)
  PROVE  ReportReachesPlan'
<1>1. UNCHANGED <<call, worker, outcome, revived>>
  BY DEF ToolMove, bus
<1>2. CASE UNCHANGED <<plan, writer>>
  BY <1>1, <1>2, SamePlans
<1>3. ASSUME NEW q \in Plans, plan' = [plan EXCEPT ![o] = q], Replaces(o, q)
      PROVE  ReportReachesPlan'
  <2>1. \A t \in Tasks : writer'[o][t] = NoAssignment
    BY <1>3 DEF Replaces, PlanTypeOK
  <2>2. \A x \in Owners \ {o} : writer'[x] = writer[x] /\ plan'[x] = plan[x]
    BY <1>3 DEF Replaces, PlanTypeOK
  <2> QED BY <1>1, <2>1, <2>2, PlanConstants DEF ReportReachesPlan
<1>4. ASSUME NEW q \in Plans, plan' = [plan EXCEPT ![o] = q], NEW t \in Tasks, PlanEdits(o, q, t)
      PROVE  ReportReachesPlan'
  <2>1. PICK s \in Statuses : Written(o, q, {t}, s)
    BY <1>4 DEF PlanEdits
  <2>2. writer'[o][t] = NoAssignment
    BY <1>4 DEF PlanEdits, By, PlanTypeOK
  <2>3. \A x \in Owners, u \in Tasks : writer'[x][u] = NoAssignment \/ writer'[x][u] = writer[x][u]
    BY <1>4 DEF PlanEdits, By, PlanTypeOK
  <2>4. q.active = plan[o].active
    BY <1>4 DEF PlanEdits
  <2> SUFFICES ASSUME NEW b \in Assignments \ revived', call'[b] = "done", worker'[b] = "exited",
                      NEW x \in Owners, NEW u \in Tasks,
                      writer'[x][u] = b, plan'[x].active[u] = b, Leaf(plan'[x], u)
               PROVE  plan'[x].status[u] = outcome'[b]
    BY DEF ReportReachesPlan
  <2>5. b # NoAssignment /\ b \in Assignments \ revived
    BY <1>1, PlanConstants
  <2>6. writer[x][u] = b /\ call[b] = "done" /\ worker[b] = "exited"
    BY <1>1, <2>3, <2>5
  <2>7. x = o => u \notin {t} /\ plan[o].active[u] = b
    BY <1>4, <2>2, <2>4, <2>5 DEF PlanTypeOK
  <2>8. plan'[x].status[u] = outcome[b]
    <3>0. OnlyWrites(o, {t})
      BY <1>4, <2>1, LeavesKept
    <3>1. Leaf(plan[x], u) /\ plan'[x].status[u] = plan[x].status[u]
      BY <2>7, <3>0 DEF OnlyWrites
    <3>2. plan[x].active[u] = b
      BY <1>4, <2>7 DEF PlanTypeOK
    <3> QED BY <2>5, <2>6, <3>1, <3>2 DEF ReportReachesPlan
  <2> QED BY <1>1, <2>8
<1> QED BY <1>2, <1>3, <1>4 DEF ToolMove

LEMMA ReachesAfterBound ==
  ASSUME PlanTypeOK, BindingInv, ReportReachesPlan, NEW a \in Assignments, call[a] = "bind", Bindable(a), Bound(a),
         \A b \in Assignments \ {a} : call'[b] = call[b] /\ worker'[b] = worker[b],
         UNCHANGED <<outcome, revived>>,
         a \in revived \/ worker'[a] # "exited" \/ call'[a] # "done"
  PROVE  ReportReachesPlan'
<1>1. task[a] \in Tasks
  BY CalledTask
<1>2. PICK h \in Owners, q \in Plans : Binds(a, h, q)
  BY <1>1, BoundMoves
<1>3. /\ plan' = [plan EXCEPT ![h] = q] /\ Written(h, q, {task[a]}, "in_progress")
      /\ q.active = [plan[h].active EXCEPT ![task[a]] = a] /\ By(h, {task[a]}, a)
  BY <1>2 DEF Binds
<1>4. \A x \in Owners, u \in Tasks : writer'[x][u] \in {a, writer[x][u]}
  BY <1>3 DEF By, PlanTypeOK
<1>5. \A u \in Tasks : q.active[u] = IF u = task[a] THEN a ELSE plan[h].active[u]
  BY <1>1, <1>3 DEF PlanTypeOK, Plans
<1> SUFFICES ASSUME NEW b \in Assignments \ revived', call'[b] = "done", worker'[b] = "exited",
                    NEW x \in Owners, NEW u \in Tasks,
                    writer'[x][u] = b, plan'[x].active[u] = b, Leaf(plan'[x], u)
             PROVE  plan'[x].status[u] = outcome'[b]
  BY DEF ReportReachesPlan
<1>6. b # a /\ b \in Assignments \ revived /\ call[b] = "done" /\ worker[b] = "exited"
  OBVIOUS
<1>7. writer[x][u] = b
  BY <1>4, <1>6
<1>8. x = h => u \notin {task[a]} /\ plan[h].active[u] = b
  BY <1>3, <1>5, <1>6 DEF PlanTypeOK
<1>9. plan'[x].status[u] = outcome[b]
  <2>0. OnlyWrites(h, {task[a]})
    BY <1>3, LeavesKept
  <2>1. Leaf(plan[x], u) /\ plan'[x].status[u] = plan[x].status[u]
    BY <1>8, <2>0 DEF OnlyWrites
  <2>2. plan[x].active[u] = b
    BY <1>3, <1>8 DEF PlanTypeOK
  <2> QED BY <1>6, <1>7, <2>1, <2>2 DEF ReportReachesPlan
<1> QED BY <1>9

LEMMA ReachesAfterReport ==
  ASSUME PlanTypeOK, HomeInv, ReportReachesPlan, NEW a \in Assignments, ReportMove(a)
  PROVE  ReportReachesPlan'
<1>1. /\ Reported(a) /\ UNCHANGED <<call, outcome, revived, writer>>
      /\ \A b \in Assignments \ {a} : worker'[b] = worker[b]
  BY DEF ReportMove
<1> SUFFICES ASSUME NEW b \in Assignments \ revived', call'[b] = "done", worker'[b] = "exited",
                    NEW x \in Owners, NEW u \in Tasks,
                    writer'[x][u] = b, plan'[x].active[u] = b, Leaf(plan'[x], u)
             PROVE  plan'[x].status[u] = outcome'[b]
  BY DEF ReportReachesPlan
<1>2. CASE UNCHANGED plan /\ \A o \in Owners : Holds(o, a) = {}
  <2>1. b # a
    BY <1>2 DEF Holds, Leaf
  <2> QED BY <1>1, <1>2, <2>1 DEF ReportReachesPlan
<1>3. ASSUME NEW h \in Owners, NEW q \in Plans, Reports(a, h, q)
      PROVE  plan'[x].status[u] = outcome'[b]
  <2>1. /\ plan' = [plan EXCEPT ![h] = q] /\ Written(h, q, Holds(h, a), outcome[a])
        /\ q.active = plan[h].active /\ Holds(h, a) # {}
    BY <1>3 DEF Reports
  <2>2. CASE b # a
    <3>1. x = h => u \notin Holds(h, a) /\ plan[h].active[u] = b
      BY <2>1, <2>2 DEF Holds, PlanTypeOK
    <3>2. call[b] = "done" /\ worker[b] = "exited" /\ b \in Assignments \ revived
      BY <1>1, <2>2
    <3>3. plan'[x].status[u] = outcome[b]
      <4>0. OnlyWrites(h, Holds(h, a))
        BY <2>1, LeavesKept
      <4>1. Leaf(plan[x], u) /\ plan'[x].status[u] = plan[x].status[u]
        BY <3>1, <4>0 DEF OnlyWrites
      <4>2. plan[x].active[u] = b
        BY <2>1, <3>1 DEF PlanTypeOK
      <4> QED BY <1>1, <3>2, <4>1, <4>2 DEF ReportReachesPlan
    <3> QED BY <1>1, <3>3
  <2>3. CASE b = a
    <3>1. plan[x].active[u] = a
      BY <2>1, <2>3 DEF PlanTypeOK
    <3>2. ActiveIn(x, a) /\ ActiveIn(h, a)
      BY <2>1, <3>1 DEF ActiveIn, Holds
    <3>3. x = h /\ plan'[h] = q
      BY <2>1, <3>2 DEF HomeInv, PlanTypeOK
    <3>4. Leaf(plan[h], u)
      BY <2>1, <3>3 DEF Written, Leaf, Has, Children
    <3>5. u \in Holds(h, a) /\ Children(plan[h], u) = {}
      BY <3>1, <3>3, <3>4 DEF Holds, Leaf
    <3> QED BY <1>1, <2>1, <2>3, <3>3, <3>5 DEF Written
  <2> QED BY <2>2, <2>3
<1> QED BY <1>1, <1>2, <1>3, ReportMoves

LEMMA ReachesStep ==
  ASSUME PlanTypeOK, BindingInv, HomeInv, LockInv, ReportReachesPlan, [PlanNext]_planVars
  PROVE  ReportReachesPlan'
<1>1. CASE UNCHANGED <<plan, lock, prev, call, worker, outcome, revived, upsert, writer>>
  BY <1>1, SamePlans
<1>2. ASSUME NEW a \in Assignments, CallMove(a)
      PROVE  ReportReachesPlan'
  <2>1. UNCHANGED <<plan, writer, outcome>> /\ revived \subseteq revived'
    BY <1>2 DEF CallMove
  <2>2. call'[a] # "done" /\ \A b \in Assignments \ {a} : call'[b] = call[b] /\ worker'[b] = worker[b]
    BY <1>2 DEF CallMove, PlanTypeOK
  <2> QED BY <2>1, <2>2, SamePlans
<1>3. ASSUME NEW a \in Assignments, EndMove(a)
      PROVE  ReportReachesPlan'
  <2>1. /\ \A b \in Assignments \ {a} : call'[b] = call[b] /\ worker'[b] = worker[b]
        /\ UNCHANGED <<outcome, revived>> /\ call[a] = "bind" /\ call'[a] \in {"done", "failed"}
    BY <1>3 DEF EndMove
  <2>2. CASE Bindable(a) /\ Bound(a) /\ (call'[a] = "failed" \/ worker' = worker)
    <3>1. a \in revived \/ worker'[a] # "exited" \/ call'[a] # "done"
      BY <2>1, <2>2 DEF LockInv
    <3> QED BY <2>1, <2>2, <3>1, ReachesAfterBound
  <2>3. CASE call'[a] = "failed" /\ plan' \in {plan, prev} /\ writer' = writer /\ (a \in revived => plan' = plan)
    <3>1. plan' = plan
      BY <2>1, <2>3, PlanConstants DEF LockInv
    <3> QED BY <2>1, <2>3, <3>1, SamePlans
  <2> QED BY <1>3, <2>2, <2>3 DEF EndMove
<1> QED BY <1>1, <1>2, <1>3, ReachesAfterTool, ReachesAfterReport, PlanMoves

LEMMA ReachesStart == PlanInit => ReportReachesPlan
BY DEF PlanInit, ReportReachesPlan

\* The report of a dispatched worker is not lost to the binding it answers, nor
\* to any rollback (dispatch_agent, update_assignment_status).
THEOREM ReportsArrive == PlanSpec => []ReportReachesPlan
<1> DEFINE I == PlanTypeOK /\ BindingInv /\ HomeInv /\ LockInv /\ ReportReachesPlan
<1>1. PlanInit => I
  BY TypeStart, BindingStart, HomeStart, LockStart, ReachesStart
<1>2. I /\ [PlanNext]_planVars => I'
  BY PlanTypeStep, BindingStep, HomeStep, LockStep, ReachesStep
<1>3. I => ReportReachesPlan
  OBVIOUS
<1> HIDE DEF I
<1> QED BY <1>1, <1>2, <1>3, PTL DEF PlanSpec
=============================================================================
