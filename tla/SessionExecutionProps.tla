------------------------- MODULE SessionExecutionProps -------------------------
(* What makes the runs of one Session correct.                             *)
EXTENDS SessionExecution

\* At most one attempt is live, the executor's latest, and at most one worker is
\* inside run_swarm, although an attempt is allocated while its predecessor is
\* still writing its last manifest (SessionExecutor.start, _run).
OneLiveRun ==
  \A m, n \in Attempts :
    /\ st[n] \in Live => n = current
    /\ pc[m] \in Operation /\ pc[n] \in Operation => m = n

\* The run control a browser command reaches belongs to the latest attempt and
\* to a worker still inside run_swarm: an earlier run's finally block never
\* erases a later one's, and no finished run leaves its own behind.
RunControlOfCurrent ==
  /\ runControl # 0 => runControl = current
  /\ \A n \in Attempts : pc[n] \in {"enter", "call", "run", "cleanup"} => runControl = n

\* A deletion that had to stop a run removes nothing before the worker it waited
\* for has written its last file and a deletion that gives up unregisters
\* nothing (delete, SessionExecutor.wait).
DeletionWaitsForWorker ==
  /\ del.pc \in {"remove", "forget", "done"} /\ del.target # 0 => pc[del.target] = "exited"
  /\ ~registered => del.pc = "done"

\* Seen from the Session, with calls of several threads in flight, every attempt
\* keeps what one attempt promises by itself: a stop held by its controller, by
\* whichever way it came, decides the outcome, and waiters are told last.
Lifecycle(n) == INSTANCE AttemptLifecycle WITH
  life <- CASE st[n] = "none" -> "idle" [] st[n] \in Live -> "live" [] OTHER -> st[n],
  asked <- ask[n] # "none",
  released <- pc[n] = "exited"
AttemptsKeepLifecycle ==
  /\ \A n \in Attempts : Lifecycle(n)!Init
  /\ [][\A n \in Attempts : [Lifecycle(n)!Next]_(Lifecycle(n)!lifecycle)]_vars

\* A stop the attempt accepted, or one its controller holds, ends the run,
\* whatever phase the worker was in and whatever state it publishes over
\* "stopping" afterwards.
StopIsHonoured ==
  \A n \in Attempts :
    (ask[n] # "none" \/ st[n] = "stopping") /\ pc[n] \in Operation ~> pc[n] = "exited"

\* A submitted deletion completes or fails, also when the attempt it stopped is
\* not the one it waits for.
DeletionEnds == del.pc = "check" ~> del.pc \in {"idle", "done"}

\* When the shutdown hook returns, the attempt it found live is terminal, even if
\* its Agents ignored the stop and whatever its worker did at the deadline.
ShutdownLeavesNothingLive ==
  host.pc = "down" /\ host.target # 0 => st[host.target] \in Terminal

-----------------------------------------------------------------------------
\* What the repository says and the code does not do.

\* "Hooks are attached inside the attempt operation, before the swarm scheduler
\* starts, so even a very fast root Agent cannot outrun the durable trace
\* subscription" (ExecutionService.start): a running swarm has its attempt's hook.
RunIsTraced == \A n \in Attempts : pc[n] = "run" => hookAt[n] = ran[n].id

\* "This prevents a still-running Agent from writing into directories that have
\* already been removed" (SessionService.delete).
NoAgentInRemovedSession ==
  dir \in {"removed", "resurrected"} => \A n \in Attempts : pc[n] # "run"

\* "The next run must rebuild them instead of reusing the dead clients"
\* (Session.runtime_agents_dirty): no run uses a client closed in an earlier one.
RunUsesOpenClients ==
  \A n \in Attempts : pc[n] = "run" => ~ \E c \in closed : c.client = ran[n].client /\ c.of # n
=============================================================================
