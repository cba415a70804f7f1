---------------------------- MODULE SessionExecution ----------------------------
(***************************************************************************)
(* One Session of the host: its SessionExecutor and the attempts it        *)
(* allocates, the provider clients and the swarm its runs reuse, and the   *)
(* threads that meet there: API calls that start, stop and control a run,  *)
(* edit the graph or compact a context, the worker of each attempt, the    *)
(* deletion pool and the shutdown of the host.                             *)
(*                                                                         *)
(* An attempt is seen through its lifecycle only (ExecutionAttempt is the  *)
(* module about its inside): a critical section of its lock, writes        *)
(* included, is one step here.  "preparing" stands for the states from     *)
(* QUEUED to LOADING_CONTEXT, "stopping" for the two stopping ones.        *)
(* Thread n > 0 is the worker of attempt n; thread 0 serves an API call    *)
(* that edits the graph or compacts a context.                             *)
(***************************************************************************)
EXTENDS Naturals, FiniteSets

CONSTANTS
  MaxStarts,    \* bound: start calls, and so attempts
  MaxStops,     \* bound: stop calls
  MaxControls,  \* bound: Agent control calls
  MaxMaint,     \* bound: topology edits and compactions
  MaxDeletes,   \* bound: deletions
  MaxHostStops  \* bound: 0 where the host is not stopped

ASSUME CallsAssumption ==
  {MaxStarts, MaxStops, MaxControls, MaxMaint, MaxDeletes, MaxHostStops} \subseteq Nat

Attempts == 1..MaxStarts
Threads == 0..MaxStarts

VARIABLES
  registered,  \* the Session is in the catalog and in the registry
  dir,         \* its state directory: "present", "partial", "removed", "resurrected"
  current,     \* number of the executor's latest attempt, 0 before the first
  st,          \* lifecycle state of each attempt
  ask,         \* stop mode its controller holds
  pc,          \* program point of each thread
  draft,       \* client a thread read for the swarm it is building
  coord,       \* client of session.coordinator, 0 before the first
  dirty,       \* runtime_agents_dirty
  built,       \* clients built so far
  swarm,       \* session.swarm: which one, and the client of its coordinator
  hookAt,      \* the swarm each attempt's journal hook is on, 0 if none
  ran,         \* the swarm an attempt is running on, NoSwarm outside of its run
  closed,      \* clients a force stop closed: of which attempt, by which caller
  runControl,  \* attempt of session.run_control, 0 if None
  starts,      \* admitted start calls that have not reached the executor
  stopper,     \* "idle", or "marking" after a forced API stop
  ctl,         \* the control call: program point, attempts it looked at, mode
  del,         \* the deletion: program point and the attempt it waits for
  host,        \* "up", "signalled", "draining" or "down", and the attempt to await
  left         \* calls of each kind that may still come

run == <<st, ask, pc>>
agents == <<draft, coord, dirty, built, swarm>>
calls == <<starts, stopper, ctl, left>>
vars == <<registered, dir, current, run, agents, hookAt, ran, closed, runControl,
          calls, del, host>>

-----------------------------------------------------------------------------
Live == {"preparing", "running", "stopping"}
Active == {"running", "stopping"}
Terminal == {"completed", "failed", "stopped", "interrupted"}
Points == {"none", "begin", "ensure", "build", "rebuild", "assign", "attach", "publish",
           "enter", "call", "run", "cleanup", "decide", "close", "exited"}
Operation == Points \ {"none", "decide", "close", "exited"}
Swarms == [id : Nat, client : Nat]
NoSwarm == [id |-> 0, client |-> 0]
NoCall == [pc |-> "idle", seen |-> 0, target |-> 0, mode |-> "none"]

TypeOK ==
  /\ registered \in BOOLEAN
  /\ dir \in {"present", "partial", "removed", "resurrected"}
  /\ current \in Threads
  /\ st \in [Threads -> Live \cup Terminal \cup {"none"}]
  /\ ask \in [Threads -> {"none", "graceful", "force"}]
  /\ pc \in [Threads -> Points]
  /\ draft \in [Threads -> Nat]
  /\ coord \in 0..built /\ dirty \in BOOLEAN /\ built \in Nat
  /\ swarm \in Swarms
  /\ hookAt \in [Threads -> Nat]
  /\ ran \in [Threads -> Swarms]
  /\ closed \subseteq [client : Nat, of : Attempts, by : {"stop", "control", "delete", "host"}]
  /\ runControl \in Threads
  /\ starts \in 0..MaxStarts
  /\ stopper \in {"idle", "marking"}
  /\ ctl \in [pc : {"idle", "route", "act", "finish"}, seen : Threads, target : Threads,
              mode : {"none", "graceful", "force"}]
  /\ del \in [pc : {"idle", "check", "stop", "capture", "wait", "remove", "forget", "done"},
              target : Threads]
  /\ host \in [pc : {"up", "signalled", "draining", "down"}, target : Threads]
  /\ left \in [start : 0..MaxStarts, stop : 0..MaxStops, control : 0..MaxControls,
               maint : 0..MaxMaint, delete : 0..MaxDeletes]

Init ==
  /\ registered = TRUE /\ dir = "present" /\ current = 0
  /\ st = [t \in Threads |-> "none"]
  /\ ask = [t \in Threads |-> "none"]
  /\ pc = [t \in Threads |-> "none"]
  /\ draft = [t \in Threads |-> 0]
  /\ coord = 0 /\ dirty = FALSE /\ built = 0
  /\ swarm = [id |-> 1, client |-> 0]
  /\ hookAt = [t \in Threads |-> 0]
  /\ ran = [t \in Threads |-> NoSwarm]
  /\ closed = {} /\ runControl = 0
  /\ starts = 0 /\ stopper = "idle" /\ ctl = NoCall
  /\ del = [pc |-> "idle", target |-> 0]
  /\ host = [pc |-> "up", target |-> 0]
  /\ left = [start |-> MaxStarts, stop |-> MaxStops, control |-> MaxControls,
             maint |-> MaxMaint, delete |-> MaxDeletes]

-----------------------------------------------------------------------------
\* Helpers.

\* The HTTP server takes requests until its shutdown hook runs.
Serving == host.pc \in {"up", "signalled"}
Call(kind) == Serving /\ left[kind] > 0 /\ left' = [left EXCEPT ![kind] = @ - 1]

\* Every writer of an attempt makes the directories its file needs.
WriteDir == dir' = IF dir = "removed" THEN "resurrected" ELSE dir

Goto(t, point) == pc' = [pc EXCEPT ![t] = point]

Stronger(old, mode) == IF old = "force" THEN "force" ELSE mode

\* The controller's request_stop: a forced one cancels provider I/O in flight.
CloseClients(n, mode, by) ==
  closed' = closed \cup {c \in [client : {ran[n].client}, of : {n}, by : {by}] :
                            mode = "force" /\ pc[n] = "run"}
\* Mutant: a controller that drops a request no provider call listens to.
HaltInFlight(n, mode, by) == /\ ask' = [ask EXCEPT ![n] = IF pc[n] = "run" THEN mode ELSE @]
                             /\ CloseClients(n, mode, by)

Halt(n, mode, by) == /\ ask' = [ask EXCEPT ![n] = Stronger(@, mode)]
                     /\ CloseClients(n, mode, by)

\* ExecutionAttempt.request_stop.
StopAttempt(n, mode, by) ==
  \/ /\ st[n] \in Live
     /\ Halt(n, mode, by)
     /\ st' = [st EXCEPT ![n] = "stopping"]
     /\ WriteDir
  \/ /\ st[n] \notin Live
     /\ UNCHANGED <<ask, closed, st, dir>>

-----------------------------------------------------------------------------
\* Starting a run.

\* The call found the Session and touched its workspace record.
StartAdmit ==
  /\ registered /\ Call("start")
  /\ starts' = starts + 1
  /\ UNCHANGED <<registered, dir, current, run, agents, hookAt, ran, closed, runControl,
                 stopper, ctl, del, host>>

\* Mutant: the weaker guard of recover, which lets a preparing attempt pass.
StartOverPreparing ==
  /\ starts > 0
  /\ starts' = starts - 1
  /\ st[current] \notin Active
  /\ current' = current + 1
  /\ st' = [st EXCEPT ![current + 1] = "preparing"]
  /\ Goto(current + 1, "begin")
  /\ WriteDir
  /\ UNCHANGED <<registered, ask, agents, hookAt, ran, closed, runControl,
                 stopper, ctl, left, del, host>>

\* SessionExecutor.start: refused while the latest attempt is live.
StartCommit ==
  /\ starts > 0
  /\ starts' = starts - 1
  /\ \/ /\ st[current] \in Live
        /\ UNCHANGED <<current, st, pc, dir>>
     \/ /\ st[current] \notin Live
        /\ current' = current + 1
        /\ st' = [st EXCEPT ![current + 1] = "preparing"]
        /\ Goto(current + 1, "begin")
        /\ WriteDir
  /\ UNCHANGED <<registered, ask, agents, hookAt, ran, closed, runControl,
                 stopper, ctl, left, del, host>>

-----------------------------------------------------------------------------
\* The coordinator's clients and the swarm, for a run or for an API call.

Resume(t) == IF t = 0 THEN "none" ELSE "attach"

\* ensure_coordinator: a coordinator that matches is kept unless it is dirty.
EnsureCheck(t) ==
  /\ pc[t] = "ensure" /\ registered
  /\ Goto(t, IF coord # 0 /\ ~dirty THEN Resume(t) ELSE "build")
  /\ UNCHANGED <<registered, dir, current, st, ask, agents, hookAt, ran, closed, runControl,
                 calls, del, host>>

\* create_agent has built new clients; the new coordinator is clean.
Build(t) ==
  /\ pc[t] = "build"
  /\ built' = built + 1 /\ coord' = built + 1 /\ dirty' = FALSE
  /\ Goto(t, "rebuild")
  /\ UNCHANGED <<registered, dir, current, st, ask, draft, swarm, hookAt, ran, closed,
                 runControl, calls, del, host>>

\* rebuild_swarm takes the coordinator first and installs the swarm last.
RebuildRead(t) ==
  /\ pc[t] = "rebuild" /\ registered
  /\ draft' = [draft EXCEPT ![t] = coord]
  /\ Goto(t, IF coord = 0 THEN Resume(t) ELSE "assign")
  /\ UNCHANGED <<registered, dir, current, st, ask, coord, dirty, built, swarm, hookAt, ran,
                 closed, runControl, calls, del, host>>

RebuildAssign(t) ==
  /\ pc[t] = "assign"
  /\ swarm' = [id |-> swarm.id + 1, client |-> draft[t]]
  /\ draft' = [draft EXCEPT ![t] = 0]
  /\ Goto(t, Resume(t))
  /\ UNCHANGED <<registered, dir, current, st, ask, coord, dirty, built, hookAt, ran, closed,
                 runControl, calls, del, host>>

\* A topology edit or a compaction looks at the latest attempt first; an edit
\* of a live swarm goes to that swarm instead, a compaction is refused.
MaintCheck ==
  /\ registered /\ pc[0] = "none" /\ Call("maint")
  /\ \/ st[current] \in Active /\ UNCHANGED pc
     \/ st[current] \notin Active /\ \E point \in {"ensure", "rebuild"} : Goto(0, point)
  /\ UNCHANGED <<registered, dir, current, st, ask, agents, hookAt, ran, closed, runControl,
                 starts, stopper, ctl, del, host>>

\* A profile, a connector or the Session itself is missing.
MaintFails ==
  /\ pc[0] # "none"
  /\ Goto(0, "none") /\ draft' = [draft EXCEPT ![0] = 0]
  /\ UNCHANGED <<registered, dir, current, st, ask, coord, dirty, built, swarm, hookAt, ran,
                 closed, runControl, calls, del, host>>

-----------------------------------------------------------------------------
\* The worker: run_swarm, then the epilogue of ExecutionAttempt._run.

\* A transition overwrites any state but a terminal one.
Publish(n, state) == /\ st' = [st EXCEPT ![n] = IF @ \in Terminal THEN @ ELSE state]
                     /\ WriteDir

Prepare(n) ==
  /\ pc[n] = "begin"
  /\ Publish(n, "preparing") /\ Goto(n, "ensure")
  /\ UNCHANGED <<registered, current, ask, agents, hookAt, ran, closed, runControl,
                 calls, del, host>>

\* CONNECTING_MCP, MATERIALIZING_SWARM, the journal hook, LOADING_CONTEXT.
Attach(n) ==
  /\ pc[n] = "attach"
  /\ hookAt' = [hookAt EXCEPT ![n] = swarm.id]
  /\ Publish(n, "preparing") /\ Goto(n, "publish")
  /\ UNCHANGED <<registered, current, ask, agents, ran, closed, runControl, calls, del, host>>

\* session.run_control, with a view of every Agent of the registered Session.
PublishControl(n) ==
  /\ pc[n] = "publish" /\ registered
  /\ runControl' = n
  /\ Goto(n, "enter")
  /\ UNCHANGED <<registered, dir, current, st, ask, agents, hookAt, ran, closed,
                 calls, del, host>>

EnterRunning(n) ==
  /\ pc[n] = "enter"
  /\ Publish(n, "running") /\ Goto(n, "call")
  /\ UNCHANGED <<registered, current, ask, agents, hookAt, ran, closed, runControl,
                 calls, del, host>>

\* session.swarm.run; with a stop requested the scheduler starts no Agent.
RunSwarm(n) ==
  /\ pc[n] = "call"
  /\ \/ /\ ask[n] = "none"
        /\ ran' = [ran EXCEPT ![n] = swarm]
        /\ Goto(n, "run")
     \/ /\ ask[n] # "none"
        /\ Goto(n, "cleanup")
        /\ UNCHANGED ran
  /\ UNCHANGED <<registered, dir, current, st, ask, agents, hookAt, closed, runControl,
                 calls, del, host>>

RunEnds(n) ==
  /\ pc[n] = "run"
  /\ ran' = [ran EXCEPT ![n] = NoSwarm]
  /\ Goto(n, "cleanup")
  /\ UNCHANGED <<registered, dir, current, st, ask, agents, hookAt, closed, runControl,
                 calls, del, host>>

\* run_swarm raises: before its try block straight to the epilogue.
Raises(n) ==
  /\ pc[n] \in Operation \ {"cleanup", "run"}
  /\ Goto(n, IF pc[n] \in {"enter", "call"} THEN "cleanup" ELSE "decide")
  /\ draft' = [draft EXCEPT ![n] = 0]
  /\ UNCHANGED <<registered, dir, current, st, ask, coord, dirty, built, swarm, hookAt, ran,
                 closed, runControl, calls, del, host>>

\* Mutant: only a run whose swarm is still the Session's withdraws its control.
CleanupOwnSwarm(n) ==
  /\ pc[n] = "cleanup"
  /\ hookAt' = [hookAt EXCEPT ![n] = IF @ = swarm.id THEN 0 ELSE @]
  /\ runControl' = IF hookAt[n] = swarm.id THEN 0 ELSE runControl
  /\ Goto(n, "decide")
  /\ UNCHANGED <<registered, dir, current, st, ask, agents, ran, closed, calls, del, host>>

\* finally: the hook leaves session.swarm, if that is the swarm it is on.
Cleanup(n) ==
  /\ pc[n] = "cleanup"
  /\ hookAt' = [hookAt EXCEPT ![n] = IF @ = swarm.id THEN 0 ELSE @]
  /\ runControl' = 0
  /\ Goto(n, "decide")
  /\ UNCHANGED <<registered, dir, current, st, ask, agents, ran, closed, calls, del, host>>

\* Mutant: the outcome is read off the state, which a transition overwrites.
OutcomeFromState(n) == IF st[n] = "interrupted" THEN {"interrupted"}
                       ELSE IF st[n] = "stopping" THEN {"stopped"} ELSE {"completed", "failed"}

Outcome(n) == IF st[n] = "interrupted" THEN {"interrupted"}
              ELSE IF ask[n] # "none" THEN {"stopped"} ELSE {"completed", "failed"}

Decide(n) ==
  /\ pc[n] = "decide"
  /\ \E outcome \in Outcome(n) : st' = [st EXCEPT ![n] = outcome]
  /\ WriteDir
  /\ Goto(n, "close")
  /\ UNCHANGED <<registered, current, ask, agents, hookAt, ran, closed, runControl,
                 calls, del, host>>

\* The last manifest, and the done event.
Close(n) ==
  /\ pc[n] = "close"
  /\ WriteDir
  /\ Goto(n, "exited")
  /\ UNCHANGED <<registered, current, st, ask, agents, hookAt, ran, closed, runControl,
                 calls, del, host>>

-----------------------------------------------------------------------------
\* Stop and control calls.

StopRequest(mode) ==
  /\ registered /\ stopper = "idle" /\ Call("stop")
  /\ StopAttempt(current, mode, "stop")
  /\ stopper' = IF mode = "force" THEN "marking" ELSE "idle"
  /\ UNCHANGED <<registered, current, pc, agents, hookAt, ran, runControl,
                 starts, ctl, del, host>>

StopMark ==
  /\ stopper = "marking"
  /\ dirty' = TRUE /\ stopper' = "idle"
  /\ UNCHANGED <<registered, dir, current, run, draft, coord, built, swarm, hookAt, ran,
                 closed, runControl, starts, ctl, left, del, host>>

\* control reads a snapshot, then session.run_control, and checks both.
ControlSnapshot(mode) ==
  /\ registered /\ ctl.pc = "idle" /\ Call("control")
  /\ ctl' = IF st[current] \in Active
            THEN [pc |-> "route", seen |-> current, target |-> 0, mode |-> mode]
            ELSE NoCall
  /\ UNCHANGED <<registered, dir, current, run, agents, hookAt, ran, closed, runControl,
                 starts, stopper, del, host>>

ControlRoute ==
  /\ ctl.pc = "route"
  /\ ctl' = IF runControl = 0 THEN NoCall ELSE [ctl EXCEPT !.pc = "act", !.target = runControl]
  /\ UNCHANGED <<registered, dir, current, run, agents, hookAt, ran, closed, runControl,
                 starts, stopper, left, del, host>>

\* SessionRunControl.stop, for the whole run or for one of its Agents.
ControlAct ==
  /\ ctl.pc = "act"
  /\ \/ Halt(ctl.target, ctl.mode, "control")
     \/ /\ CloseClients(ctl.target, ctl.mode, "control")
        /\ UNCHANGED ask
  /\ ctl' = [ctl EXCEPT !.pc = "finish"]
  /\ UNCHANGED <<registered, dir, current, st, pc, agents, hookAt, ran, runControl,
                 starts, stopper, left, del, host>>

\* The mark, and the record in the journal of the attempt that is current now.
ControlFinish ==
  /\ ctl.pc = "finish"
  /\ dirty' = (dirty \/ ctl.mode = "force")
  /\ WriteDir
  /\ ctl' = NoCall
  /\ UNCHANGED <<registered, current, run, draft, coord, built, swarm, hookAt, ran, closed,
                 runControl, starts, stopper, left, del, host>>

-----------------------------------------------------------------------------
\* Deletion.

Deleting(point, target) == del' = [pc |-> point, target |-> target]

DeleteSubmit ==
  /\ registered /\ del.pc = "idle" /\ Call("delete")
  /\ Deleting("check", 0)
  /\ UNCHANGED <<registered, dir, current, run, agents, hookAt, ran, closed, runControl,
                 starts, stopper, ctl, host>>

DeleteCheck ==
  /\ del.pc = "check"
  /\ Deleting(IF st[current] \in Live THEN "stop" ELSE "remove", 0)
  /\ UNCHANGED <<registered, dir, current, run, agents, hookAt, ran, closed, runControl,
                 calls, host>>

DeleteStop ==
  /\ del.pc = "stop"
  /\ StopAttempt(current, "force", "delete")
  /\ Deleting("capture", 0)
  /\ UNCHANGED <<registered, current, pc, agents, hookAt, ran, runControl, calls, host>>

\* SessionExecutor.wait looks up the latest attempt again.
DeleteCapture ==
  /\ del.pc = "capture"
  /\ Deleting("wait", current)
  /\ UNCHANGED <<registered, dir, current, run, agents, hookAt, ran, closed, runControl,
                 calls, host>>

\* Mutant: the result of the bounded wait is ignored.
DeleteAnyway ==
  /\ del.pc = "wait"
  /\ Deleting("remove", del.target)
  /\ UNCHANGED <<registered, dir, current, run, agents, hookAt, ran, closed, runControl,
                 calls, host>>

\* Mutant: a wait without a deadline.
DeleteWaitForever ==
  /\ del.pc = "wait" /\ pc[del.target] = "exited"
  /\ Deleting("remove", del.target)
  /\ UNCHANGED <<registered, dir, current, run, agents, hookAt, ran, closed, runControl,
                 calls, host>>

\* Done in time, or the operation fails at its deadline.
DeleteWait ==
  /\ del.pc = "wait"
  /\ IF pc[del.target] = "exited" THEN Deleting("remove", del.target) ELSE Deleting("idle", 0)
  /\ UNCHANGED <<registered, dir, current, run, agents, hookAt, ran, closed, runControl,
                 calls, host>>

\* rmtree, which can also raise half way.
DeleteRemove ==
  /\ del.pc = "remove"
  /\ \/ dir' = "removed" /\ Deleting("forget", del.target)
     \/ dir' = "partial" /\ Deleting("idle", 0)
  /\ UNCHANGED <<registered, current, run, agents, hookAt, ran, closed, runControl,
                 calls, host>>

\* Conversation, catalog record and registry entry.
DeleteForget ==
  /\ del.pc = "forget"
  /\ registered' = FALSE
  /\ Deleting("done", del.target)
  /\ UNCHANGED <<dir, current, run, agents, hookAt, ran, closed, runControl, calls, host>>

-----------------------------------------------------------------------------
\* The host.

\* live_attempts of the registry, each asked to stop by force.
StopAll(point) ==
  /\ \/ /\ registered /\ st[current] \in Live
        /\ host' = [pc |-> point, target |-> current]
     \/ /\ ~(registered /\ st[current] \in Live)
        /\ host' = [pc |-> point, target |-> 0]
  /\ IF host'.target # 0 THEN StopAttempt(current, "force", "host")
                         ELSE UNCHANGED <<ask, closed, st, dir>>

ReceiveSigint ==
  /\ host.pc = "up" /\ MaxHostStops > 0
  /\ StopAll("signalled")
  /\ UNCHANGED <<registered, current, pc, agents, hookAt, ran, runControl, calls, del>>

\* The shutdown hook runs when the server has answered its last request.
Shutdown ==
  /\ MaxHostStops > 0
  /\ starts = 0 /\ stopper = "idle" /\ ctl.pc = "idle"
  /\ \/ host.pc = "up" /\ StopAll("draining")
     \/ /\ host.pc = "signalled"
        /\ host' = [host EXCEPT !.pc = "draining"]
        /\ UNCHANGED <<ask, closed, st, dir>>
  /\ UNCHANGED <<registered, current, pc, agents, hookAt, ran, runControl, calls, del>>

\* Mutant: the deadline passes and nothing is recorded.
ShutdownLeaves ==
  /\ host.pc = "draining"
  /\ host' = [host EXCEPT !.pc = "down"]
  /\ UNCHANGED <<registered, dir, current, run, agents, hookAt, ran, closed, runControl,
                 calls, del>>

\* The attempt is done, or it is marked interrupted at the deadline.
ShutdownWait ==
  /\ host.pc = "draining"
  /\ host' = [host EXCEPT !.pc = "down"]
  /\ \/ /\ host.target = 0 \/ pc[host.target] = "exited"
        /\ UNCHANGED <<st, dir>>
     \/ /\ host.target # 0 /\ pc[host.target] # "exited"
        /\ st' = [st EXCEPT ![host.target] = "interrupted"]
        /\ WriteDir
  /\ UNCHANGED <<registered, current, ask, pc, agents, hookAt, ran, closed, runControl,
                 calls, del>>

-----------------------------------------------------------------------------
Modes == {"graceful", "force"}

Prologue(n) == Prepare(n) \/ Attach(n) \/ PublishControl(n) \/ EnterRunning(n) \/ RunSwarm(n)
Epilogue(n) == Cleanup(n) \/ Decide(n) \/ Close(n)
Maint(t) == EnsureCheck(t) \/ Build(t) \/ RebuildRead(t) \/ RebuildAssign(t)
DeleteStep == DeleteCheck \/ DeleteStop \/ DeleteCapture \/ DeleteWait \/ DeleteRemove \/ DeleteForget

Next ==
  \/ StartAdmit \/ StartCommit
  \/ \E t \in Threads : EnsureCheck(t) \/ Build(t) \/ RebuildRead(t) \/ RebuildAssign(t)
  \/ MaintCheck \/ MaintFails
  \/ \E n \in Attempts : \/ Prepare(n) \/ Attach(n) \/ PublishControl(n) \/ EnterRunning(n)
                         \/ RunSwarm(n) \/ RunEnds(n) \/ Raises(n)
                         \/ Cleanup(n) \/ Decide(n) \/ Close(n)
  \/ \E mode \in Modes : StopRequest(mode) \/ ControlSnapshot(mode)
  \/ StopMark \/ ControlRoute \/ ControlAct \/ ControlFinish
  \/ DeleteSubmit \/ DeleteCheck \/ DeleteStop \/ DeleteCapture \/ DeleteWait
  \/ DeleteRemove \/ DeleteForget
  \/ ReceiveSigint \/ Shutdown \/ ShutdownWait

Spec == Init /\ [][Next]_vars

(* Worker threads and the deletion pool are scheduled.  Agents return once  *)
(* the controller asks them to: their fairness needs a stop request, and   *)
(* nothing makes an unstopped run end.  No call has to come.               *)
Fairness ==
  /\ \A n \in Attempts :
       /\ WF_vars(Maint(n) \/ Prologue(n) \/ Raises(n))
       /\ WF_vars(ask[n] # "none" /\ RunEnds(n))
       /\ WF_vars(Epilogue(n))
  /\ WF_vars(DeleteStep)
  /\ WF_vars(ShutdownWait)
FairSpec == Spec /\ Fairness
=============================================================================
