----------------------------- MODULE SwarmGraphProps -----------------------------
(* What makes the three copies of a Session's topology agree.              *)
EXTENDS SwarmGraph, TLC

\* Whatever edits, rollbacks, rebuilds and restarts come in whatever order, no
\* copy of the topology names a removed worker or holds a cycle: not the one in
\* memory, not the one the next host loads, not the one that schedules Agents
\* (remove_worker, add_connection, rebuild_swarm).
\*
\* Between two calls the file holds what the memory holds unless the last save
\* failed, and the live swarm schedules that same graph and session.agents its
\* workers unless a rebuild outside the gateway ran beside an edit: rejected,
\* half-applied and repeated edits leave no copy behind (_mutate, add_agent,
\* remove_agent, dispatch_agent, _rollback_failures).
WellFormedCopies == \A b \in {bp, file, swarm, edit.prev, build.graph} : WellFormed(b)
SavedWhenFree == open /\ At("free") /\ ~ahead => bp = IF disk = "valid" THEN file ELSE Empty
LiveFollows == made /\ At("free") /\ ~outdated => swarm = bp /\ agents = bp.workers
CopiesAgree == WellFormedCopies /\ SavedWhenFree /\ LiveFollows

\* Other threads and the next host see whole accepted edits only.
Atomic == INSTANCE AtomicGraph WITH
  published <- IF ~open THEN IF disk = "valid" THEN file ELSE Empty
               ELSE IF At("free") THEN bp ELSE edit.prev,
  durable <- IF disk = "valid" THEN file ELSE Empty
ImplementsAtomicGraph == Atomic!Spec

-----------------------------------------------------------------------------
\* The inductive invariant behind the theorems.

Durable == IF disk = "valid" THEN file ELSE Empty

\* A closed Session is as a new process makes it, and whatever has been built was
\* built with a coordinator.
ClosedInv ==
  /\ ~open => edit = Free /\ ~made /\ ~ahead /\ build = Idle
  /\ ~At("free") => ~ahead
  /\ made \/ build.pc # "idle" => coord

\* The memory is ahead of the file behind a failed save only, and an edit on its
\* way has an accepted change of the topology it would restore in memory.
MemoryInv ==
  /\ open /\ ~ahead => bp = Durable
  /\ ~At("free") => Accepts(edit.prev, edit.op) /\ bp = Effect(edit.prev, edit.op)

\* The live swarm, unless it is outdated, still has the topology the edit would
\* restore, but for the worker a failed dispatch leaves for the roll-back.
SwarmInv ==
  made /\ ~outdated =>
    /\ At("free") => swarm = bp /\ agents = bp.workers
    /\ ~At("free") => agents = edit.prev.workers
    /\ ~At("free") /\ swarm # edit.prev
         => /\ At("rollback") /\ edit.worker
            /\ edit.op.kind = "dispatch" /\ swarm = Effect(edit.prev, edit.op)
WorkerInv == edit.worker => At("rollback") /\ edit.op.kind \in {"add", "dispatch"}

TopologyInv == ClosedInv /\ MemoryInv /\ SwarmInv /\ WorkerInv /\ WellFormedCopies

-----------------------------------------------------------------------------
\* The instance TLC checks.
\* Two workers in a chain behind the coordinator, with a mapper and a router.
MCStored ==
  {[workers |-> {p[1], p[2]}, edges |-> {<<Coordinator, p[1]>>, p}, mapped |-> {p[2]},
    routes |-> {<<Coordinator, p[2]>>, <<p[2], Coordinator>>}] : p \in {q \in Workers \X Workers : q[1] # q[2]}}
WorkerSymmetry == Permutations(Workers)
=============================================================================
