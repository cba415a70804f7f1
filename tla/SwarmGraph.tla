------------------------------- MODULE SwarmGraph -------------------------------
(***************************************************************************)
(* The topology of one Session in its three copies: the blueprint in       *)
(* memory, console/state.json, and the live swarm.  Edits go through       *)
(* SwarmGraphService one at a time (the console lock); a run or a          *)
(* compaction that builds the coordinator rebuilds the swarm beside them.  *)
(***************************************************************************)
EXTENDS Blueprint, Naturals

CONSTANTS
  Stored,   \* what an earlier host may have saved
  MaxEdits, MaxFaults, MaxBuilds, MaxCrashes

ASSUME StoredAssumption == Stored \subseteq Blueprints /\ \A b \in Stored : WellFormed(b)
ASSUME GraphBounds == {MaxEdits, MaxFaults, MaxBuilds, MaxCrashes} \subseteq Nat

VARIABLES
  bp,      \* ConsoleState._blueprint
  file,    \* the blueprint in state.json
  disk,    \* "missing", "valid" or "corrupt": what _load will find
  open,    \* the Session has its ConsoleState
  edit,    \* the edit that holds the console lock
  coord,   \* the coordinator has been built
  made,    \* session.swarm exists
  swarm,   \* its graph
  agents,  \* the workers in session.agents
  run,     \* "idle", "preparing" or "active"
  build,   \* a rebuild_swarm outside the gateway: its program point and its snapshot
  ahead,   \* the last save failed: memory and file differ
  outdated,\* session.swarm misses an edit: rebuilt beside it, or its save failed
  edits, faults, builds, crashes

console == <<bp, file, disk, open>>
live == <<coord, made, swarm, agents>>
host == <<run, build>>
counts == <<edits, faults, builds, crashes>>
vars == <<console, edit, live, host, ahead, outdated, counts>>

NoOp == [kind |-> "remove", node |-> Coordinator]
Free == [pc |-> "free", op |-> NoOp, prev |-> Empty, live |-> FALSE, worker |-> FALSE]
Idle == [pc |-> "idle", graph |-> Empty, run |-> FALSE]
Active == {"active"}

TypeOK ==
  /\ bp \in Blueprints /\ file \in Blueprints /\ swarm \in Blueprints
  /\ disk \in {"missing", "valid", "corrupt"}
  /\ edit.pc \in {"free", "check", "apply", "build", "rollback"}
  /\ edit.op \in Edits /\ edit.prev \in Blueprints
  /\ {edit.live, edit.worker, open, coord, made, ahead, outdated} \subseteq BOOLEAN
  /\ agents \subseteq Workers
  /\ run \in {"idle", "preparing", "active"}
  /\ build.pc \in {"idle", "read", "assign"} /\ build.graph \in Blueprints
  /\ edits \in 0..MaxEdits /\ faults \in 0..MaxFaults
  /\ builds \in 0..MaxBuilds /\ crashes \in 0..MaxCrashes

Init ==
  /\ bp = Empty /\ swarm = Empty /\ agents = {} /\ open = FALSE
  /\ \/ disk \in {"missing", "corrupt"} /\ file = Empty
     \/ disk = "valid" /\ file \in Stored
  /\ edit = Free /\ build = Idle /\ run = "idle"
  /\ coord = FALSE /\ made = FALSE /\ ahead = FALSE /\ outdated = FALSE
  /\ edits = 0 /\ faults = 0 /\ builds = 0 /\ crashes = 0

Fault == faults < MaxFaults /\ faults' = faults + 1 /\ UNCHANGED <<edits, builds, crashes>>

-----------------------------------------------------------------------------
\* ConsoleState

\* _load: a corrupt document is moved aside and the Session does not open.
Load ==
  /\ ~open
  /\ \/ disk # "corrupt" /\ open' = TRUE /\ bp' = (IF disk = "valid" THEN file ELSE Empty)
        /\ UNCHANGED disk
     \/ disk = "corrupt" /\ disk' = "missing" /\ UNCHANGED <<open, bp>>
  /\ UNCHANGED <<file, edit, live, host, ahead, outdated, counts>>

\* The atomic replacement of state.json with a blueprint, or its failure, which
\* leaves the file as it was.
Saved(b) == file' = b /\ disk' = "valid" /\ ahead' = FALSE /\ UNCHANGED counts
SaveFails == Fault /\ ahead' = TRUE /\ UNCHANGED <<file, disk>>

-----------------------------------------------------------------------------
\* SwarmGraphService

Held(op) == [pc |-> "check", op |-> op, prev |-> bp, live |-> run \in Active, worker |-> FALSE]

\* Mutant: the transaction is not held over the live change.
BeginUnlocked(op) ==
  /\ open /\ edits < MaxEdits /\ Accepts(bp, op)
  /\ bp' = Effect(bp, op) /\ edits' = edits + 1
  /\ file' = bp' /\ disk' = "valid" /\ ahead' = FALSE /\ edit' = Held(op)
  /\ UNCHANGED <<open, live, host, outdated, faults, builds, crashes>>

\* The validated change of memory and its save, before any try block: when the
\* save fails the call is over and the memory keeps the change.
Begin(op) ==
  /\ open /\ edit.pc = "free" /\ edits < MaxEdits /\ Accepts(bp, op)
  /\ bp' = Effect(bp, op) /\ edits' = edits + 1
  /\ \/ /\ file' = bp' /\ disk' = "valid" /\ ahead' = FALSE
        /\ edit' = Held(op) /\ UNCHANGED <<faults, outdated>>
     \/ /\ faults < MaxFaults /\ faults' = faults + 1
        /\ ahead' = TRUE /\ outdated' = TRUE
        /\ UNCHANGED <<file, disk, edit>>
  /\ UNCHANGED <<open, live, host, builds, crashes>>

At(point) == edit.pc = point
Goto(point) == edit' = [edit EXCEPT !.pc = point]

\* Live or idle?  remove_agent asked before it changed the blueprint.
Check ==
  /\ At("check")
  /\ LET active == IF edit.op.kind = "remove" THEN edit.live ELSE run \in Active
     IN Goto(IF active THEN IF made THEN "apply" ELSE "rollback"
             ELSE IF edit.op.kind = "dispatch" THEN "rollback" ELSE "build")
  /\ UNCHANGED <<console, live, host, ahead, outdated, counts>>

Adds == edit.op.kind \in {"add", "dispatch"}

\* The live swarm takes the change.
Apply ==
  /\ At("apply") /\ Accepts(swarm, edit.op)
  /\ swarm' = Effect(swarm, edit.op)
  /\ agents' = IF Adds THEN agents \cup {edit.op.node}
               ELSE IF edit.op.kind = "remove" THEN agents \ {edit.op.node} ELSE agents
  /\ edit' = Free
  /\ UNCHANGED <<console, coord, made, host, ahead, outdated, counts>>

\* The worker cannot be built, or the live swarm rejects the change, or a
\* dispatch raises behind it.
ApplyFails ==
  /\ At("apply")
  /\ \/ UNCHANGED swarm
     \/ edit.op.kind = "dispatch" /\ Accepts(swarm, edit.op) /\ swarm' = Effect(swarm, edit.op)
  /\ \E built \in BOOLEAN :
       /\ swarm' # swarm => built
       /\ edit' = [edit EXCEPT !.pc = "rollback", !.worker = Adds /\ built]
  /\ UNCHANGED <<console, coord, made, agents, host, ahead, outdated, counts>>

\* materialize of an idle Session: rebuild_swarm on the same thread.
Build ==
  /\ At("build")
  /\ \/ /\ coord /\ made' = TRUE /\ swarm' = bp /\ agents' = bp.workers /\ outdated' = FALSE
        /\ edit' = Free
     \/ ~coord /\ edit' = Free /\ UNCHANGED <<made, swarm, agents, outdated>>
     \/ coord /\ Goto("rollback") /\ UNCHANGED <<made, swarm, agents, outdated>>
  /\ UNCHANGED <<console, coord, host, ahead, counts>>

\* Mutant: no clean-up of a dispatched worker.
RollbackConsole ==
  /\ At("rollback") /\ bp' = edit.prev
  /\ Saved(edit.prev) \/ SaveFails
  /\ edit' = Free
  /\ UNCHANGED <<open, live, host, outdated>>

\* Both undo steps are tried, whichever fails.
Rollback ==
  /\ At("rollback") /\ bp' = edit.prev
  /\ Saved(edit.prev) \/ SaveFails
  /\ swarm' = IF edit.worker THEN RemoveWorker(swarm, edit.op.node) ELSE swarm
  /\ edit' = Free
  /\ UNCHANGED <<open, coord, made, agents, host, outdated>>

-----------------------------------------------------------------------------
\* The threads beside the gateway.

\* run_swarm or compact finds that the coordinator must be built, and
\* rebuild_swarm asks the console for its blueprint.
BuildRead ==
  /\ open /\ At("free") /\ build.pc = "read"
  /\ build' = [build EXCEPT !.pc = "assign", !.graph = bp]
  /\ UNCHANGED <<console, edit, live, run, ahead, outdated, counts>>

BuildAssign ==
  /\ build.pc = "assign" /\ build' = Idle
  /\ made' = TRUE /\ swarm' = build.graph /\ agents' = build.graph.workers
  /\ outdated' = (build.graph # bp \/ ~At("free"))
  /\ UNCHANGED <<console, edit, coord, run, ahead, counts>>

\* A worker cannot be built: session.swarm stays as it was and the run fails.
BuildFails ==
  /\ build.pc = "assign" /\ build' = Idle /\ run' = IF build.run THEN "idle" ELSE run
  /\ UNCHANGED <<console, edit, live, ahead, outdated, counts>>

\* ensure_coordinator, by the run's thread or a compaction, builds a coordinator
\* when the profile or a forced stop asks for it.
Ensure ==
  /\ open /\ build.pc = "idle" /\ run # "active" /\ builds < MaxBuilds
  /\ builds' = builds + 1 /\ coord' = TRUE
  /\ \E byRun \in {FALSE, run = "preparing"} :
       build' = [Idle EXCEPT !.pc = "read", !.run = byRun]
  /\ UNCHANGED <<console, edit, made, swarm, agents, run, ahead, outdated, edits, faults, crashes>>

RunStarts == open /\ run = "idle" /\ run' = "preparing"
RunActive == run = "preparing" /\ ~build.run /\ made /\ run' = "active"
RunEnds == run # "idle" /\ ~build.run /\ run' = "idle"
Run == /\ RunStarts \/ RunActive \/ RunEnds
       /\ UNCHANGED <<console, edit, live, build, ahead, outdated, counts>>

\* The host dies; the file stays.
Crash ==
  /\ open /\ crashes < MaxCrashes /\ crashes' = crashes + 1
  /\ open' = FALSE /\ bp' = Empty /\ swarm' = Empty /\ agents' = {}
  /\ coord' = FALSE /\ made' = FALSE /\ ahead' = FALSE /\ outdated' = FALSE
  /\ edit' = Free /\ build' = Idle /\ run' = "idle"
  /\ UNCHANGED <<file, disk, edits, faults, builds>>

Next ==
  \/ Load
  \/ \E op \in Edits : Begin(op)
  \/ Check \/ Apply \/ ApplyFails \/ Build \/ Rollback
  \/ Ensure \/ BuildRead \/ BuildAssign \/ BuildFails \/ Run \/ Crash

Spec == Init /\ [][Next]_vars
=============================================================================
