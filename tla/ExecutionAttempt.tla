---------------------------- MODULE ExecutionAttempt ----------------------------
(***************************************************************************)
(* One ExecutionAttempt of a Session: its in-memory lifecycle fields, the  *)
(* append-only journal, the checkpoint files and the manifest on disk, and *)
(* the threads that race for its lock: the API thread that starts it, its  *)
(* worker, the swarm hook that commits checkpoints, API stop requests and  *)
(* the shutdown supervisor.  A host crash can happen between any two disk  *)
(* writes; the next host reconciles what it finds.                         *)
(*                                                                         *)
(* A critical section of the attempt's RLock is one action that takes the  *)
(* lock and changes the fields, followed by one action per disk write made *)
(* under the lock.  `lock` names the next write of its holder, or "free".  *)
(***************************************************************************)
EXTENDS Naturals, Sequences

CONSTANTS
  Generations,   \* checkpoint generation labels the hook may commit
  NoGen,         \* no generation
  MaxStops,      \* bound: stop requests journaled
  MaxFaults,     \* bound: failing disk writes
  MaxCrashes     \* bound: host crashes

ASSUME NoGenAssumption == NoGen \notin Generations
ASSUME BoundsAssumption == MaxStops \in Nat /\ MaxFaults \in Nat /\ MaxCrashes \in Nat

VARIABLES
  state,     \* _state, the lifecycle state
  stop,      \* the controller's stop request: "none", "graceful" or "force"
  lock,      \* "free", or the next disk write of the thread inside _lock
  worker,    \* program point of the worker thread
  step,      \* lifecycle transitions the operation has published
  hook,      \* generation a swarm hook has projected and not yet committed
  done,      \* the _done event
  sup,       \* program point of the shutdown supervisor
  journal,   \* the readable events of execution.events.ndjson
  torn,      \* the file ends in a partial line
  synced,    \* events of the journal known to be on disk
  graphs,    \* generations whose run-graph file is on disk
  manifest,  \* execution-manifest.json
  host,      \* "up", "down", "reconciling" or "reconciled"
  faults,    \* failed writes so far
  crashes    \* crashes so far

memory == <<state, stop, lock, worker, step, hook, done, sup>>
disk == <<journal, torn, synced, graphs, manifest>>
vars == <<memory, disk, host, faults, crashes>>

-----------------------------------------------------------------------------
\* States and events.

\* The states run_swarm publishes, in order.
Phases == <<"preparing", "materializing_tools", "connecting_mcp",
            "materializing_swarm", "loading_context", "running">>

LiveStates == {"queued", "preparing", "materializing_tools", "connecting_mcp",
               "materializing_swarm", "loading_context", "running",
               "stopping", "force_stopping"}
TerminalStates == {"completed", "stopped", "interrupted", "failed"}
States == {"idle"} \cup LiveStates \cup TerminalStates

\* The states live_view accepts, and the ones reconcile looks for.
ActiveStates == {"running", "stopping", "force_stopping"}

OutcomeEvents == {"execution_completed", "execution_stopped", "execution_failed"}
EventTypes == OutcomeEvents \cup
              {"execution_started", "execution_state_changed", "stop_requested",
               "checkpoint_committed", "execution_interrupted"}
Event(type, gen) == [type |-> type, gen |-> gen]
Events == [type : EventTypes, gen : Generations \cup {NoGen}]

OutcomeOf(s) == CASE s = "completed" -> "execution_completed"
                  [] s = "stopped"   -> "execution_stopped"
                  [] OTHER           -> "execution_failed"

\* What a reader that finds no manifest file sees.
NoManifest == [state |-> "none", ckpt |-> NoGen]

-----------------------------------------------------------------------------
\* Writes made inside the lock, in the order the code makes them.

ManifestPoints == {"start_manifest", "stop_manifest", "sup_stop_manifest",
                   "interrupt_manifest", "close_manifest"}
JournalPoints == {"start_journal", "transition_journal", "stop_journal",
                  "sup_stop_journal", "commit_journal", "interrupt_journal",
                  "decide_journal"}
Points == ManifestPoints \cup JournalPoints \cup {"commit_graph", "commit_ref"}

\* Mutant: the reference to a generation before the event that makes it valid.
ReferenceFirst(p) == CASE p = "start_manifest"    -> "start_journal"
                       [] p = "stop_journal"      -> "stop_manifest"
                       [] p = "sup_stop_journal"  -> "sup_stop_manifest"
                       [] p = "commit_graph"      -> "commit_ref"
                       [] p = "commit_ref"        -> "commit_journal"
                       [] p = "interrupt_journal" -> "interrupt_manifest"
                       [] OTHER                   -> "free"

\* The write that follows a write in the same critical section.
NextWrite(p) == CASE p = "start_manifest"    -> "start_journal"
                  [] p = "stop_journal"      -> "stop_manifest"
                  [] p = "sup_stop_journal"  -> "sup_stop_manifest"
                  [] p = "commit_graph"      -> "commit_journal"
                  [] p = "commit_journal"    -> "commit_ref"
                  [] p = "interrupt_journal" -> "interrupt_manifest"
                  [] OTHER                   -> "free"

EventAt(p) ==
  CASE p = "start_journal"      -> Event("execution_started", NoGen)
    [] p = "transition_journal" -> Event("execution_state_changed", NoGen)
    [] p = "commit_journal"     -> Event("checkpoint_committed", hook)
    [] p = "interrupt_journal"  -> Event("execution_interrupted", NoGen)
    [] p = "decide_journal"     -> Event(OutcomeOf(state), NoGen)
    [] OTHER                    -> Event("stop_requested", NoGen)

\* Mutant: the done event is set only behind a manifest that was written.
WorkerAfterWritten(p, ok) ==
  CASE p \in {"start_manifest", "start_journal"} -> IF ok THEN "operation" ELSE "none"
    [] p = "transition_journal" -> IF ok THEN "operation" ELSE "raised"
    [] p = "decide_journal"     -> "decided"
    [] p = "close_manifest"     -> IF ok THEN "closed" ELSE "none"
    [] OTHER                    -> worker

\* The thread that leaves the lock goes on: `ok` tells whether its last write
\* succeeded; a failed write raises out of the critical section.
WorkerAfter(p, ok) ==
  CASE p \in {"start_manifest", "start_journal"} -> IF ok THEN "operation" ELSE "none"
    [] p = "transition_journal" -> IF ok THEN "operation" ELSE "raised"
    [] p = "decide_journal"     -> "decided"
    [] p = "close_manifest"     -> "closed"
    [] OTHER                    -> worker
SupAfter(p, ok) ==
  CASE p \in {"sup_stop_journal", "sup_stop_manifest"} -> IF ok THEN "waiting" ELSE "raised"
    [] p \in {"interrupt_journal", "interrupt_manifest"} -> IF ok THEN "finished" ELSE "raised"
    [] OTHER -> sup
HookAfter(p) == IF p \in {"commit_graph", "commit_journal", "commit_ref"} THEN NoGen ELSE hook

Leave(ok) == /\ lock' = "free"
             /\ worker' = WorkerAfter(lock, ok)
             /\ sup' = SupAfter(lock, ok)
             /\ hook' = HookAfter(lock)

\* The current write succeeded: on to the next one, or out of the lock.
Advance == \/ /\ NextWrite(lock) # "free"
              /\ lock' = NextWrite(lock)
              /\ UNCHANGED <<worker, sup, hook>>
           \/ /\ NextWrite(lock) = "free"
              /\ Leave(TRUE)

-----------------------------------------------------------------------------
TypeOK ==
  /\ state \in States
  /\ stop \in {"none", "graceful", "force"}
  /\ lock \in Points \cup {"free"}
  /\ worker \in {"none", "operation", "returned", "raised", "decided", "closed", "exited"}
  /\ step \in 0..Len(Phases)
  /\ hook \in Generations \cup {NoGen}
  /\ done \in BOOLEAN
  /\ sup \in {"idle", "selected", "waiting", "late", "finished", "skipped", "raised"}
  /\ journal \in Seq(Events)
  /\ torn \in BOOLEAN
  /\ synced \in 0..Len(journal)
  /\ graphs \in SUBSET Generations
  /\ manifest \in [state : States \cup {"none"}, ckpt : Generations \cup {NoGen}]
  /\ host \in {"up", "down", "reconciling", "reconciled"}
  /\ faults \in Nat
  /\ crashes \in Nat

Init ==
  /\ state = "idle" /\ stop = "none" /\ lock = "free" /\ worker = "none"
  /\ step = 0 /\ hook = NoGen /\ done = FALSE /\ sup = "idle"
  /\ journal = <<>> /\ torn = FALSE /\ synced = 0 /\ graphs = {} /\ manifest = NoManifest
  /\ host = "up" /\ faults = 0 /\ crashes = 0

Free == host = "up" /\ lock = "free"

-----------------------------------------------------------------------------
\* Lifecycle fields, inside the lock.

\* start: the worker thread begins once both writes are on disk.
Start ==
  /\ Free
  /\ state = "idle"
  /\ state' = "queued"
  /\ lock' = "start_manifest"
  /\ UNCHANGED <<stop, worker, step, hook, done, sup, disk, host, faults, crashes>>

\* transition: the next lifecycle state of run_swarm; a terminal state stays.
Transition ==
  /\ Free
  /\ worker = "operation" /\ step < Len(Phases)
  /\ step' = step + 1
  /\ \/ /\ state \in TerminalStates
        /\ UNCHANGED <<state, lock>>
     \/ /\ state \notin TerminalStates
        /\ state' = Phases[step + 1]
        /\ lock' = "transition_journal"
  /\ UNCHANGED <<stop, worker, hook, done, sup, disk, host, faults, crashes>>

\* The controller keeps the stronger of two requests.
Stronger(mode) == IF stop = "force" THEN "force" ELSE mode

\* Mutant: a stop request is accepted in every state.
AcceptAnyStop(mode, point) ==
  /\ stop' = Stronger(mode)
  /\ state' = IF Stronger(mode) = "force" THEN "force_stopping" ELSE "stopping"
  /\ lock' = point

\* request_stop in a live state; at `point` the holder journals the request.
AcceptStop(mode, point) ==
  /\ state \in LiveStates
  /\ stop' = Stronger(mode)
  /\ state' = IF Stronger(mode) = "force" THEN "force_stopping" ELSE "stopping"
  /\ lock' = point

StopsJournaled == Len(SelectSeq(journal, LAMBDA e : e.type = "stop_requested"))

\* request_stop from the API; in any other state it only returns a snapshot.
RequestStop ==
  /\ Free
  /\ StopsJournaled < MaxStops
  /\ \E mode \in {"graceful", "force"} : AcceptStop(mode, "stop_journal")
  /\ UNCHANGED <<worker, step, hook, done, sup, disk, host, faults, crashes>>

\* SessionRunControl.stop("all", ...) reaches the controller without the lock,
\* from the moment run_swarm has published its run control.
ControllerStop ==
  /\ host = "up" /\ worker # "none"
  /\ step > 0 /\ Phases[step] \in {"loading_context", "running"}
  /\ \E mode \in {"graceful", "force"} : stop' = Stronger(mode)
  /\ stop' # stop
  /\ UNCHANGED <<state, lock, worker, step, hook, done, sup, disk, host, faults, crashes>>

-----------------------------------------------------------------------------
\* The worker thread.

\* run_swarm returns once its Agents have; it may raise at any point.
OperationEnds ==
  /\ host = "up" /\ worker = "operation"
  /\ lock # "transition_journal"
  /\ hook = NoGen
  /\ \/ worker' = "raised"
     \/ step = Len(Phases) /\ worker' = "returned"
  /\ UNCHANGED <<state, stop, lock, step, hook, done, sup, disk, host, faults, crashes>>

\* Mutant: the outcome is read off the state, which a transition overwrites.
DecideFromState ==
  /\ Free
  /\ worker \in {"returned", "raised"}
  /\ \/ /\ state = "interrupted"
        /\ worker' = "decided"
        /\ UNCHANGED <<state, lock>>
     \/ /\ state # "interrupted"
        /\ state' = IF state \in {"stopping", "force_stopping"} THEN "stopped"
                    ELSE IF worker = "returned" THEN "completed" ELSE "failed"
        /\ lock' = "decide_journal"
        /\ UNCHANGED worker
  /\ UNCHANGED <<stop, step, hook, done, sup, disk, host, faults, crashes>>

\* Mutant: a late worker overwrites a recorded interruption.
DecideAlways ==
  /\ Free
  /\ worker \in {"returned", "raised"}
  /\ state' = IF stop # "none" THEN "stopped"
              ELSE IF worker = "returned" THEN "completed" ELSE "failed"
  /\ lock' = "decide_journal"
  /\ UNCHANGED <<stop, worker, step, hook, done, sup, disk, host, faults, crashes>>

\* The terminal outcome; a recorded interruption is not overwritten.
Decide ==
  /\ Free
  /\ worker \in {"returned", "raised"}
  /\ \/ /\ state = "interrupted"
        /\ worker' = "decided"
        /\ UNCHANGED <<state, lock>>
     \/ /\ state # "interrupted"
        /\ state' = IF stop # "none" THEN "stopped"
                    ELSE IF worker = "returned" THEN "completed" ELSE "failed"
        /\ lock' = "decide_journal"
        /\ UNCHANGED worker
  /\ UNCHANGED <<stop, step, hook, done, sup, disk, host, faults, crashes>>

\* The finally block: the stream buffer is closed and the manifest written.
Close ==
  /\ Free
  /\ worker = "decided"
  /\ lock' = "close_manifest"
  /\ UNCHANGED <<state, stop, worker, step, hook, done, sup, disk, host, faults, crashes>>

\* _done.set() runs outside the lock, whether or not the manifest was written.
Release ==
  /\ host = "up" /\ worker = "closed"
  /\ worker' = "exited" /\ done' = TRUE
  /\ UNCHANGED <<state, stop, lock, step, hook, sup, disk, host, faults, crashes>>

-----------------------------------------------------------------------------
\* The swarm hook: project the live graph, then commit it as a generation.

HookProject(g) ==
  /\ host = "up" /\ worker = "operation"
  /\ step = Len(Phases) /\ lock # "transition_journal"
  /\ hook = NoGen /\ g \notin graphs
  /\ state \in ActiveStates
  /\ hook' = g
  /\ UNCHANGED <<state, stop, lock, worker, step, done, sup, disk, host, faults, crashes>>

CommitCheckpoint ==
  /\ Free
  /\ hook # NoGen
  /\ lock' = "commit_graph"
  /\ UNCHANGED <<state, stop, worker, step, hook, done, sup, disk, host, faults, crashes>>

-----------------------------------------------------------------------------
\* The shutdown supervisor: select, force-stop, wait, interrupt.

SupSelect ==
  /\ Free /\ sup = "idle"
  /\ sup' = IF state \in LiveStates THEN "selected" ELSE "skipped"
  /\ UNCHANGED <<state, stop, lock, worker, step, hook, done, disk, host, faults, crashes>>

SupStop ==
  /\ Free /\ sup = "selected"
  /\ \/ AcceptStop("force", "sup_stop_journal") /\ UNCHANGED sup
     \/ /\ state \notin LiveStates
        /\ sup' = "waiting"
        /\ UNCHANGED <<state, stop, lock>>
  /\ UNCHANGED <<worker, step, hook, done, disk, host, faults, crashes>>

\* Mutant: the supervisor waits without a deadline.
SupWaitForever ==
  /\ host = "up" /\ sup = "waiting" /\ done
  /\ sup' = "finished"
  /\ UNCHANGED <<state, stop, lock, worker, step, hook, done, disk, host, faults, crashes>>

\* wait(deadline): the event is set, or the deadline passes first.
SupWait ==
  /\ host = "up" /\ sup = "waiting"
  /\ sup' = IF done THEN "finished" ELSE "late"
  /\ UNCHANGED <<state, stop, lock, worker, step, hook, done, disk, host, faults, crashes>>

\* mark_interrupted: checks _done again under the lock.
MarkInterrupted ==
  /\ Free /\ sup = "late"
  /\ \/ /\ done
        /\ sup' = "finished"
        /\ UNCHANGED <<state, lock>>
     \/ /\ ~done
        /\ state' = "interrupted"
        /\ lock' = "interrupt_journal"
        /\ UNCHANGED sup
  /\ UNCHANGED <<stop, worker, step, hook, done, disk, host, faults, crashes>>

-----------------------------------------------------------------------------
\* Disk writes of the lock holder.

\* A line appended behind a partial one is unreadable together with it.
AppendLine(e) == /\ journal' = IF torn THEN journal ELSE Append(journal, e)
                 /\ torn' = FALSE

\* _write_manifest keeps the checkpoint reference it finds in the file.
LifecycleManifest == [state |-> state, ckpt |-> manifest.ckpt]
\* CheckpointStore.commit keeps the lifecycle facts it finds in the file.
CheckpointManifest == [manifest EXCEPT !.ckpt = hook]

\* What the current write leaves on disk when it is carried out in full.
PutManifest == /\ lock \in ManifestPoints
               /\ manifest' = LifecycleManifest
               /\ UNCHANGED <<journal, torn, synced, graphs>>
PutEvent == /\ lock \in JournalPoints
            /\ AppendLine(EventAt(lock))
            /\ UNCHANGED <<graphs, manifest>>
PutGraph == /\ lock = "commit_graph"
            /\ graphs' = graphs \cup {hook}
            /\ UNCHANGED <<journal, torn, synced, manifest>>
PutRef == /\ lock = "commit_ref"
          /\ manifest' = CheckpointManifest
          /\ UNCHANGED <<journal, torn, synced, graphs>>

Written == host = "up" /\ Advance /\ UNCHANGED <<state, stop, step, done, host, faults, crashes>>

WriteManifest == PutManifest /\ Written
\* journal.append is fsynced, except for a state change.
WriteJournal == /\ PutEvent /\ Written
                /\ synced' = IF lock = "transition_journal" THEN synced ELSE Len(journal')
\* CheckpointStore.commit: the payload, its event, and the reference last.
WriteGraph == PutGraph /\ Written
WriteRef == PutRef /\ Written

\* A write raises OSError: nothing, part of a line or all of it got to the file.
WriteFails ==
  /\ host = "up" /\ lock # "free" /\ faults < MaxFaults
  /\ faults' = faults + 1
  /\ \/ UNCHANGED disk
     \/ lock \in JournalPoints /\ torn' = TRUE /\ UNCHANGED <<journal, synced, graphs, manifest>>
     \/ PutEvent /\ UNCHANGED synced
     \/ PutManifest \/ PutGraph \/ PutRef
  /\ Leave(FALSE)
  /\ UNCHANGED <<state, stop, step, done, host, crashes>>

-----------------------------------------------------------------------------
\* Crash of the host and start of the next one.

\* Process memory is gone, and so may be the journal's unsynced tail.  A line
\* being appended, by the lock holder or by an Agent's event, may be cut.
Crash ==
  /\ host # "down" /\ crashes < MaxCrashes
  /\ host' = "down" /\ crashes' = crashes + 1
  /\ \E n \in synced..Len(journal) :
       /\ journal' = SubSeq(journal, 1, n)
       /\ \/ torn' = FALSE
          \/ /\ torn \/ n < Len(journal) \/ lock \in JournalPoints \/ worker = "operation"
             /\ torn' = TRUE
  /\ state' = "idle" /\ stop' = "none" /\ lock' = "free" /\ worker' = "none"
  /\ step' = 0 /\ hook' = NoGen /\ done' = FALSE /\ sup' = "idle"
  /\ UNCHANGED <<synced, graphs, manifest, faults>>

\* reconcile_interrupted_attempts: the journal fact first ...
Reconcile ==
  /\ host = "down"
  /\ \/ /\ manifest.state \in ActiveStates
        /\ AppendLine(Event("execution_interrupted", NoGen))
        /\ synced' = Len(journal')
        /\ host' = "reconciling"
     \/ /\ manifest.state \notin ActiveStates
        /\ host' = "reconciled"
        /\ UNCHANGED <<journal, torn, synced>>
  /\ UNCHANGED <<memory, graphs, manifest, faults, crashes>>

\* ... and then the manifest.
ReconcileManifest ==
  /\ host = "reconciling"
  /\ manifest' = [manifest EXCEPT !.state = "interrupted"]
  /\ host' = "reconciled"
  /\ UNCHANGED <<memory, journal, torn, synced, graphs, faults, crashes>>

-----------------------------------------------------------------------------
Write == WriteManifest \/ WriteJournal \/ WriteGraph \/ WriteRef
WorkerStep == Decide \/ Close \/ Release
SupStep == SupStop \/ SupWait \/ MarkInterrupted

Next ==
  \/ Start \/ Transition \/ RequestStop \/ ControllerStop
  \/ OperationEnds \/ Decide \/ Close \/ Release
  \/ \E g \in Generations : HookProject(g)
  \/ CommitCheckpoint
  \/ SupSelect \/ SupStop \/ SupWait \/ MarkInterrupted
  \/ WriteManifest \/ WriteJournal \/ WriteGraph \/ WriteRef \/ WriteFails
  \/ Crash \/ Reconcile \/ ReconcileManifest

Spec == Init /\ [][Next]_vars

(* Threads the interpreter schedules go on: a write returns or raises, the  *)
(* worker runs its own epilogue and the supervisor's bounded wait ends.     *)
(* Taking the lock is strongly fair: other threads may take it in between. *)
(* Nothing makes the operation itself return, and nothing starts or stops. *)
Fairness == /\ WF_vars(Write \/ WriteFails)
            /\ SF_vars(WorkerStep)
            /\ SF_vars(SupStep)
FairSpec == Spec /\ Fairness
=============================================================================
