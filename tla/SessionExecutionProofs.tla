------------------------- MODULE SessionExecutionProofs -------------------------
(* Theorems about SessionExecution, for every number of calls.             *)
EXTENDS SessionExecutionProps, TLAPS

LEMMA Bounds ==
  /\ MaxStarts \in Nat /\ MaxStops \in Nat /\ MaxControls \in Nat
  /\ MaxMaint \in Nat /\ MaxDeletes \in Nat /\ MaxHostStops \in Nat
  BY CallsAssumption

LEMMA ThreadFacts ==
  /\ 0 \in Threads /\ 0 \notin Attempts
  /\ \A n \in Attempts : n \in Threads
  /\ \A n \in Threads : n \in Nat /\ n <= MaxStarts /\ (n # 0 => n \in Attempts)
  /\ \A n \in Nat : n < MaxStarts => n + 1 \in Attempts
  BY Bounds DEF Threads, Attempts

USE Bounds, ThreadFacts

Kinds == {"start", "stop", "control", "maint", "delete"}
Closings == [client : Nat, of : Attempts, by : {"stop", "control", "delete", "host"}]
Lefts == [start : 0..MaxStarts, stop : 0..MaxStops, control : 0..MaxControls,
          maint : 0..MaxMaint, delete : 0..MaxDeletes]

\* Every attempt stands for one start call, and an API call never runs a swarm.
CountInv == current + starts + left.start <= MaxStarts
ThreadInv == pc[0] \in {"none", "ensure", "build", "rebuild", "assign"}
TypeInv == TypeOK /\ CountInv /\ ThreadInv

LEMMA CallType ==
  ASSUME TypeOK, NEW kind \in Kinds, Call(kind)
  PROVE  /\ left' \in Lefts
         /\ left'.start = IF kind = "start" THEN left.start - 1 ELSE left.start
         /\ Serving
<1>1. left \in Lefts
  BY DEF TypeOK, Lefts
<1> QED BY <1>1 DEF Call, Lefts, Kinds

LEMMA HaltType ==
  ASSUME TypeInv, NEW n \in Threads, NEW mode \in {"none", "graceful", "force"},
         NEW by \in {"stop", "control", "delete", "host"}
  PROVE  /\ Halt(n, mode, by) => ask' \in [Threads -> {"none", "graceful", "force"}]
         /\ CloseClients(n, mode, by) => closed' \in SUBSET Closings
<1>1. closed \in SUBSET Closings /\ ran[n] \in Swarms
  BY DEF TypeInv, TypeOK, Closings
<1>2. pc[n] = "run" => n \in Attempts
  BY DEF TypeInv, ThreadInv, TypeOK
<1>3. ASSUME CloseClients(n, mode, by)
      PROVE  closed' \in SUBSET Closings
  <2>1. ran[n].client \in Nat
    BY <1>1 DEF Swarms
  <2>2. ASSUME NEW c \in closed', c \notin closed
        PROVE  c \in Closings
    <3>1. pc[n] = "run" /\ c \in [client : {ran[n].client}, of : {n}, by : {by}]
      BY <1>3, <2>2 DEF CloseClients
    <3> QED BY <1>2, <2>1, <3>1 DEF Closings
  <2> QED BY <1>1, <2>2
<1>4. ASSUME Halt(n, mode, by)
      PROVE  ask' \in [Threads -> {"none", "graceful", "force"}]
  BY <1>4 DEF Halt, Stronger, TypeInv, TypeOK
<1> QED BY <1>3, <1>4

LEMMA StopType ==
  ASSUME TypeInv, NEW n \in Threads, NEW mode \in {"graceful", "force"},
         NEW by \in {"stop", "control", "delete", "host"}, StopAttempt(n, mode, by)
  PROVE  /\ ask' \in [Threads -> {"none", "graceful", "force"}]
         /\ closed' \in SUBSET Closings
         /\ st' \in [Threads -> Live \cup Terminal \cup {"none"}]
         /\ dir' \in {"present", "partial", "removed", "resurrected"}
<1>1. CASE st[n] \in Live
  <2>1. Halt(n, mode, by) /\ CloseClients(n, mode, by) /\ st' = [st EXCEPT ![n] = "stopping"] /\ WriteDir
    BY <1>1 DEF StopAttempt, Halt
  <2> QED BY <2>1, HaltType DEF TypeInv, TypeOK, WriteDir, Live
<1>2. CASE st[n] \notin Live
  BY <1>2 DEF StopAttempt, TypeInv, TypeOK, Closings
<1> QED BY <1>1, <1>2

LEMMA TypeInductive == Spec => []TypeInv
<1> USE DEF TypeInv, CountInv, ThreadInv
<1>1. Init => TypeInv
  <2> SUFFICES ASSUME Init PROVE TypeInv
    OBVIOUS
  <2>1. registered \in BOOLEAN /\ dirty \in BOOLEAN
    BY Zenon DEF Init
  <2>2. /\ st \in [Threads -> Live \cup Terminal \cup {"none"}]
        /\ ask \in [Threads -> {"none", "graceful", "force"}]
        /\ pc \in [Threads -> Points] /\ pc[0] = "none"
        /\ draft \in [Threads -> Nat] /\ hookAt \in [Threads -> Nat]
    BY DEF Init, Points
  <2>3. ran \in [Threads -> Swarms] /\ swarm \in Swarms
    BY DEF Init, Swarms, NoSwarm
  <2>4. /\ left \in Lefts /\ left.start = MaxStarts
        /\ ctl \in [pc : {"idle", "route", "act", "finish"}, seen : Threads, target : Threads,
                     mode : {"none", "graceful", "force"}]
    BY DEF Init, Lefts, NoCall
  <2> QED BY <2>1, <2>2, <2>3, <2>4 DEF Init, TypeOK, Lefts
<1>2. TypeInv /\ [Next]_vars => TypeInv'
  <2> SUFFICES ASSUME TypeInv, [Next]_vars PROVE TypeInv'
    OBVIOUS
  <2>1. ASSUME NEW t \in Threads, EnsureCheck(t) PROVE TypeInv'
    BY <2>1 DEF EnsureCheck, TypeOK, Points, run, agents, calls, Goto, Resume
  <2>2. ASSUME NEW t \in Threads, Build(t) PROVE TypeInv'
    <3>1. pc' \in [Threads -> Points] /\ pc'[0] \in {"none", "ensure", "build", "rebuild", "assign"}
      BY <2>2 DEF Build, TypeOK, Points, Goto
    <3>2. built' \in Nat /\ coord' \in 0..built'
      BY <2>2 DEF Build, TypeOK
    <3>3. dirty' \in BOOLEAN
      BY <2>2, Zenon DEF Build
    <3> QED BY <2>2, <3>1, <3>2, <3>3 DEF Build, TypeOK, calls
  <2>3. ASSUME NEW t \in Threads, RebuildRead(t) PROVE TypeInv'
    BY <2>3 DEF RebuildRead, TypeOK, Points, run, agents, calls, Goto, Resume
  <2>4. ASSUME NEW t \in Threads, RebuildAssign(t) PROVE TypeInv'
    <3>1. pc' \in [Threads -> Points] /\ pc'[0] \in {"none", "ensure", "build", "rebuild", "assign"}
      BY <2>4 DEF RebuildAssign, TypeOK, Points, Goto, Resume
    <3>2. swarm' \in Swarms /\ draft' \in [Threads -> Nat]
      BY <2>4 DEF RebuildAssign, TypeOK, Swarms
    <3> QED BY <2>4, <3>1, <3>2 DEF RebuildAssign, TypeOK, calls
  <2>5. ASSUME NEW n \in Attempts, Prepare(n) PROVE TypeInv'
    BY <2>5 DEF Prepare, TypeOK, Points, run, agents, calls, Goto, Publish, WriteDir, Live, Terminal, Operation, NoSwarm, Swarms, Outcome
  <2>6. ASSUME NEW n \in Attempts, Attach(n) PROVE TypeInv'
    BY <2>6 DEF Attach, TypeOK, Points, run, agents, calls, Goto, Publish, WriteDir, Live, Terminal, Operation, NoSwarm, Swarms, Outcome
  <2>7. ASSUME NEW n \in Attempts, PublishControl(n) PROVE TypeInv'
    BY <2>7 DEF PublishControl, TypeOK, Points, run, agents, calls, Goto, Publish, WriteDir, Live, Terminal, Operation, NoSwarm, Swarms, Outcome
  <2>8. ASSUME NEW n \in Attempts, EnterRunning(n) PROVE TypeInv'
    BY <2>8 DEF EnterRunning, TypeOK, Points, run, agents, calls, Goto, Publish, WriteDir, Live, Terminal, Operation, NoSwarm, Swarms, Outcome
  <2>9. ASSUME NEW n \in Attempts, RunSwarm(n) PROVE TypeInv'
    <3>1. ran' \in [Threads -> Swarms]
      BY <2>9 DEF RunSwarm, TypeOK
    <3> QED BY <2>9, <3>1 DEF RunSwarm, TypeOK, Goto, Points, agents, calls
  <2>10. ASSUME NEW n \in Attempts, RunEnds(n) PROVE TypeInv'
    BY <2>10 DEF RunEnds, TypeOK, Points, run, agents, calls, Goto, Publish, WriteDir, Live, Terminal, Operation, NoSwarm, Swarms, Outcome
  <2>11. ASSUME NEW n \in Attempts, Raises(n) PROVE TypeInv'
    BY <2>11 DEF Raises, TypeOK, Points, run, agents, calls, Goto, Publish, WriteDir, Live, Terminal, Operation, NoSwarm, Swarms, Outcome
  <2>12. ASSUME NEW n \in Attempts, Cleanup(n) PROVE TypeInv'
    BY <2>12 DEF Cleanup, TypeOK, Points, run, agents, calls, Goto, Publish, WriteDir, Live, Terminal, Operation, NoSwarm, Swarms, Outcome
  <2>13. ASSUME NEW n \in Attempts, Decide(n) PROVE TypeInv'
    BY <2>13 DEF Decide, TypeOK, Points, run, agents, calls, Goto, Publish, WriteDir, Live, Terminal, Operation, NoSwarm, Swarms, Outcome
  <2>14. ASSUME NEW n \in Attempts, Close(n) PROVE TypeInv'
    BY <2>14 DEF Close, TypeOK, Points, run, agents, calls, Goto, Publish, WriteDir, Live, Terminal, Operation, NoSwarm, Swarms, Outcome
  <2>15. ASSUME NEW mode \in Modes, StopRequest(mode) PROVE TypeInv'
    BY <2>15, CallType, StopType DEF StopRequest, TypeOK, Points, run, agents, calls, Goto, Modes, NoCall, Kinds, Lefts, Closings
  <2>16. ASSUME NEW mode \in Modes, ControlSnapshot(mode) PROVE TypeInv'
    BY <2>16, CallType, StopType DEF ControlSnapshot, TypeOK, Points, run, agents, calls, Goto, Modes, NoCall, Kinds, Lefts, Closings
  <2>17. CASE StartAdmit
    BY <2>17, CallType, StopType, HaltType DEF StartAdmit, TypeOK, Points, run, agents, calls, Goto, Deleting, WriteDir, NoCall, Kinds, Lefts, Closings, StopAll, Live, Terminal
  <2>18. CASE StartCommit
    BY <2>18, CallType, StopType, HaltType DEF StartCommit, TypeOK, Points, run, agents, calls, Goto, Deleting, WriteDir, NoCall, Kinds, Lefts, Closings, StopAll, Live, Terminal
  <2>19. CASE MaintCheck
    BY <2>19, CallType, StopType, HaltType DEF MaintCheck, TypeOK, Points, run, agents, calls, Goto, Deleting, WriteDir, NoCall, Kinds, Lefts, Closings, StopAll, Live, Terminal
  <2>20. CASE MaintFails
    BY <2>20, CallType, StopType, HaltType DEF MaintFails, TypeOK, Points, run, agents, calls, Goto, Deleting, WriteDir, NoCall, Kinds, Lefts, Closings, StopAll, Live, Terminal
  <2>21. CASE StopMark
    BY <2>21, CallType, StopType, HaltType DEF StopMark, TypeOK, Points, run, agents, calls, Goto, Deleting, WriteDir, NoCall, Kinds, Lefts, Closings, StopAll, Live, Terminal
  <2>22. CASE ControlRoute
    <3>1. ctl' \in [pc : {"idle", "route", "act", "finish"}, seen : Threads, target : Threads,
                     mode : {"none", "graceful", "force"}]
      BY <2>22 DEF ControlRoute, TypeOK, NoCall
    <3> QED BY <2>22, <3>1 DEF ControlRoute, TypeOK, run, agents
  <2>23. CASE ControlAct
    <3>1. ctl' \in [pc : {"idle", "route", "act", "finish"}, seen : Threads, target : Threads,
                     mode : {"none", "graceful", "force"}]
      BY <2>23 DEF ControlAct, TypeOK
    <3>2. ctl.target \in Threads /\ ctl.mode \in {"none", "graceful", "force"}
      BY DEF TypeOK
    <3>3. ask' \in [Threads -> {"none", "graceful", "force"}] /\ closed' \in SUBSET Closings
      <4>1. ask \in [Threads -> {"none", "graceful", "force"}]
        BY DEF TypeOK
      <4> QED BY <2>23, <3>2, <4>1, HaltType DEF ControlAct, Halt
    <3> QED BY <2>23, <3>1, <3>3 DEF ControlAct, TypeOK, Closings, agents
  <2>24. CASE ControlFinish
    BY <2>24, CallType, StopType, HaltType DEF ControlFinish, TypeOK, Points, run, agents, calls, Goto, Deleting, WriteDir, NoCall, Kinds, Lefts, Closings, StopAll, Live, Terminal
  <2>25. CASE DeleteSubmit
    BY <2>25, CallType, StopType, HaltType DEF DeleteSubmit, TypeOK, Points, run, agents, calls, Goto, Deleting, WriteDir, NoCall, Kinds, Lefts, Closings, StopAll, Live, Terminal
  <2>26. CASE DeleteCheck
    BY <2>26, CallType, StopType, HaltType DEF DeleteCheck, TypeOK, Points, run, agents, calls, Goto, Deleting, WriteDir, NoCall, Kinds, Lefts, Closings, StopAll, Live, Terminal
  <2>27. CASE DeleteStop
    BY <2>27, CallType, StopType, HaltType DEF DeleteStop, TypeOK, Points, run, agents, calls, Goto, Deleting, WriteDir, NoCall, Kinds, Lefts, Closings, StopAll, Live, Terminal
  <2>28. CASE DeleteCapture
    BY <2>28, CallType, StopType, HaltType DEF DeleteCapture, TypeOK, Points, run, agents, calls, Goto, Deleting, WriteDir, NoCall, Kinds, Lefts, Closings, StopAll, Live, Terminal
  <2>29. CASE DeleteWait
    BY <2>29, CallType, StopType, HaltType DEF DeleteWait, TypeOK, Points, run, agents, calls, Goto, Deleting, WriteDir, NoCall, Kinds, Lefts, Closings, StopAll, Live, Terminal
  <2>30. CASE DeleteRemove
    BY <2>30, CallType, StopType, HaltType DEF DeleteRemove, TypeOK, Points, run, agents, calls, Goto, Deleting, WriteDir, NoCall, Kinds, Lefts, Closings, StopAll, Live, Terminal
  <2>31. CASE DeleteForget
    <3>1. registered' \in BOOLEAN
      BY <2>31 DEF DeleteForget
    <3>2. del' \in [pc : {"idle", "check", "stop", "capture", "wait", "remove", "forget", "done"},
                    target : Threads]
      BY <2>31 DEF DeleteForget, Deleting, TypeOK
    <3> QED BY <2>31, <3>1, <3>2 DEF DeleteForget, TypeOK, run, agents, calls
  <2>32. CASE ReceiveSigint
    BY <2>32, CallType, StopType, HaltType DEF ReceiveSigint, TypeOK, Points, run, agents, calls, Goto, Deleting, WriteDir, NoCall, Kinds, Lefts, Closings, StopAll, Live, Terminal
  <2>33. CASE Shutdown
    BY <2>33, CallType, StopType, HaltType DEF Shutdown, TypeOK, Points, run, agents, calls, Goto, Deleting, WriteDir, NoCall, Kinds, Lefts, Closings, StopAll, Live, Terminal
  <2>34. CASE ShutdownWait
    BY <2>34, CallType, StopType, HaltType DEF ShutdownWait, TypeOK, Points, run, agents, calls, Goto, Deleting, WriteDir, NoCall, Kinds, Lefts, Closings, StopAll, Live, Terminal
  <2>35. CASE UNCHANGED vars
    BY <2>35 DEF vars, TypeOK, Points, run, agents, calls
  <2> QED BY <2>1, <2>2, <2>3, <2>4, <2>5, <2>6, <2>7, <2>8, <2>9, <2>10, <2>11, <2>12, <2>13, <2>14, <2>15, <2>16, <2>17, <2>18, <2>19, <2>20, <2>21, <2>22, <2>23, <2>24, <2>25, <2>26, <2>27, <2>28, <2>29, <2>30, <2>31, <2>32, <2>33, <2>34, <2>35 DEF Next, Modes
<1> QED BY <1>1, <1>2, PTL DEF Spec

\* The types of a Session's state, whatever the number of calls of each kind.
THEOREM SessionTypeCorrect == Spec => []TypeOK
<1>1. TypeInv => TypeOK
  BY DEF TypeInv
<1> QED BY <1>1, TypeInductive, PTL

-----------------------------------------------------------------------------
\* Program points of a worker inside run_swarm, with and without a run control.
Controlled == {"enter", "call", "run", "cleanup"}
Preparing == {"begin", "ensure", "build", "rebuild", "assign", "attach", "publish"}

\* A worker in its operation belongs to the latest attempt, which is live unless
\* the shutdown has interrupted it, and then no start call is left.
AloneInv ==
  \A n \in Attempts :
    /\ n > current => pc[n] = "none"
    /\ pc[n] \in Preparing \cup Controlled \cup {"decide"}
         => n = current /\ st[n] \in Live \cup {"interrupted"}
    /\ st[n] \in Live => n = current
    /\ st[n] = "interrupted" => host.pc = "down"
HostInv == host.pc \in {"draining", "down"} => starts = 0
ControlInv ==
  /\ runControl # 0 => runControl = current /\ pc[current] \in Controlled
  /\ \A n \in Attempts : pc[n] \in Controlled => runControl = n
LiveInv == AloneInv /\ HostInv /\ ControlInv

LEMMA OperationPoints == Operation = Preparing \cup Controlled
  BY DEF Operation, Points, Preparing, Controlled

\* A step within one part of the operation, or from its first part to the end.
MovesWithin(n) ==
  \/ pc'[n] = pc[n]
  \/ pc[n] \in Preparing /\ pc'[n] \in Preparing \cup {"decide"}
  \/ pc[n] \in Controlled /\ pc'[n] \in Controlled

LEMMA QuietStep ==
  ASSUME TypeInv, LiveInv, UNCHANGED <<current, st, starts, host, runControl>>,
         \A n \in Attempts : MovesWithin(n)
  PROVE  LiveInv'
<1>1. ASSUME NEW n \in Attempts
      PROVE  /\ pc'[n] \in Controlled <=> pc[n] \in Controlled
             /\ pc'[n] \in Preparing \cup Controlled \cup {"decide"}
                  => pc[n] \in Preparing \cup Controlled \cup {"decide"}
             /\ pc[n] = "none" => pc'[n] = "none"
  BY DEF MovesWithin, Preparing, Controlled
<1>2. AloneInv'
  BY <1>1 DEF LiveInv, AloneInv
<1>3. ControlInv'
  <2>1. runControl # 0 => current \in Attempts
    BY DEF LiveInv, ControlInv, TypeInv, TypeOK
  <2> QED BY <1>1, <2>1 DEF LiveInv, ControlInv
<1> QED BY <1>2, <1>3 DEF LiveInv, HostInv

\* A stop of the latest attempt.
LEMMA StopStep ==
  ASSUME TypeInv, LiveInv, NEW mode, NEW by, StopAttempt(current, mode, by),
         UNCHANGED <<current, pc, starts, runControl>>,
         host.pc = "down" => host'.pc = "down", HostInv'
  PROVE  LiveInv'
<1>1. st' = st \/ (st[current] \in Live /\ st' = [st EXCEPT ![current] = "stopping"])
  BY DEF StopAttempt
<1>2. \A n \in Attempts : \/ st'[n] = st[n]
                          \/ n = current /\ st[n] \in Live /\ st'[n] = "stopping"
  BY <1>1 DEF TypeInv, TypeOK
<1>3. AloneInv'
  BY <1>2 DEF LiveInv, AloneInv, Live
<1>4. ControlInv'
  BY DEF LiveInv, ControlInv
<1> QED BY <1>3, <1>4 DEF LiveInv

\* A worker that publishes a state of its own attempt.
LEMMA PublishStep ==
  ASSUME TypeInv, LiveInv, NEW n \in Attempts, NEW state \in Live, Publish(n, state),
         pc[n] \in Preparing \cup Controlled,
         UNCHANGED <<current, starts, host, runControl>>,
         \A m \in Attempts : MovesWithin(m)
  PROVE  LiveInv'
<1>1. \A m \in Attempts : \/ st'[m] = st[m]
                          \/ m = n /\ st[m] \in Live /\ st'[m] = state
  <2>1. st[n] \in Live \cup {"interrupted"}
    BY DEF LiveInv, AloneInv
  <2> QED BY <2>1 DEF Publish, Terminal, Live, TypeInv, TypeOK
<1>2. ASSUME NEW m \in Attempts
      PROVE  /\ pc'[m] \in Controlled <=> pc[m] \in Controlled
             /\ pc'[m] \in Preparing \cup Controlled \cup {"decide"}
                  => pc[m] \in Preparing \cup Controlled \cup {"decide"}
             /\ pc[m] = "none" => pc'[m] = "none"
  BY DEF MovesWithin, Preparing, Controlled
<1>3. AloneInv'
  BY <1>1, <1>2 DEF LiveInv, AloneInv, Live
<1>4. ControlInv'
  <2>1. runControl # 0 => current \in Attempts
    BY DEF LiveInv, ControlInv, TypeInv, TypeOK
  <2> QED BY <1>2, <2>1 DEF LiveInv, ControlInv
<1> QED BY <1>3, <1>4 DEF LiveInv, HostInv

LEMMA LiveInductive == Spec => []LiveInv
<1>1. Init => LiveInv
  <2> SUFFICES ASSUME Init PROVE LiveInv
    OBVIOUS
  <2>1. \A n \in Attempts : pc[n] = "none" /\ st[n] = "none"
    BY DEF Init
  <2> QED BY <2>1 DEF Init, LiveInv, AloneInv, HostInv, ControlInv, Live, Preparing, Controlled
<1>2. TypeInv /\ LiveInv /\ [Next]_vars => LiveInv'
  <2> SUFFICES ASSUME TypeInv, LiveInv, [Next]_vars PROVE LiveInv'
    OBVIOUS
  <2>0. /\ pc \in [Threads -> Points] /\ st \in [Threads -> Live \cup Terminal \cup {"none"}]
        /\ current \in Nat /\ starts \in Nat /\ current \in Threads
    BY DEF TypeInv, TypeOK
  \* The latest attempt's worker is out of its operation when the next one starts.
  <2>1. CASE StartCommit
    <3>1. CASE st[current] \in Live
      <4>1. UNCHANGED <<current, st, pc, host, runControl>> /\ starts' = starts - 1 /\ starts > 0
        BY <2>1, <3>1 DEF StartCommit
      <4> QED BY <2>0, <4>1 DEF LiveInv, AloneInv, HostInv, ControlInv
    <3>2. CASE st[current] \notin Live
      <4>1. /\ current' = current + 1 /\ current + 1 \in Attempts
            /\ st' = [st EXCEPT ![current + 1] = "preparing"]
            /\ pc' = [pc EXCEPT ![current + 1] = "begin"]
            /\ UNCHANGED <<host, runControl>> /\ starts > 0
        <5>1. current < MaxStarts
          BY <2>0, <2>1 DEF StartCommit, TypeInv, CountInv, TypeOK
        <5> QED BY <2>0, <2>1, <3>2, <5>1 DEF StartCommit, Goto
      <4>2. \A n \in Attempts : st[n] \notin Live /\ st[n] # "interrupted"
        BY <2>0, <3>2, <4>1 DEF LiveInv, AloneInv, HostInv
      <4>3. \A n \in Attempts : pc[n] \notin Preparing \cup Controlled \cup {"decide"}
        BY <4>2 DEF LiveInv, AloneInv
      <4>4. runControl = 0
        <5>1. runControl # 0 => current \in Attempts
          BY <2>0 DEF LiveInv, ControlInv
        <5> QED BY <4>3, <5>1 DEF LiveInv, ControlInv
      <4>5. ASSUME NEW n \in Attempts, n # current + 1
            PROVE  st'[n] = st[n] /\ pc'[n] = pc[n]
        BY <2>0, <4>1, <4>5
      <4>6. st'[current + 1] = "preparing" /\ pc'[current + 1] = "begin"
        BY <2>0, <4>1
      <4>7. AloneInv'
        <5> SUFFICES ASSUME NEW n \in Attempts
                     PROVE  /\ n > current' => pc'[n] = "none"
                            /\ pc'[n] \in Preparing \cup Controlled \cup {"decide"}
                                 => n = current' /\ st'[n] \in Live \cup {"interrupted"}
                            /\ st'[n] \in Live => n = current'
                            /\ st'[n] = "interrupted" => host'.pc = "down"
          BY DEF AloneInv
        <5>1. CASE n = current + 1
          BY <4>1, <4>6, <5>1, <2>0 DEF Live
        <5>2. CASE n # current + 1
          <6>1. n > current' => n > current
            <7>1. n \in Nat
              BY ThreadFacts
            <7> QED BY <2>0, <4>1, <7>1
          <6> QED BY <4>1, <4>2, <4>3, <4>5, <5>2, <6>1 DEF LiveInv, AloneInv
        <5> QED BY <5>1, <5>2
      <4>8. ControlInv'
        <5>1. \A n \in Attempts : pc'[n] \notin Controlled
          BY <4>3, <4>5, <4>6 DEF Controlled
        <5> QED BY <4>1, <4>4, <5>1 DEF ControlInv
      <4>9. HostInv'
        BY <2>0, <4>1 DEF LiveInv, HostInv
      <4> QED BY <4>7, <4>8, <4>9 DEF LiveInv
    <3> QED BY <3>1, <3>2
  <2>2. CASE StartAdmit
    <3>1. UNCHANGED <<current, st, pc, host, runControl>> /\ host.pc \in {"up", "signalled"}
      BY <2>2 DEF StartAdmit, Call, Serving, run
    <3> QED BY <3>1 DEF LiveInv, AloneInv, HostInv, ControlInv
  <2>3. ASSUME NEW t \in Threads, EnsureCheck(t) \/ Build(t) \/ RebuildRead(t) \/ RebuildAssign(t)
        PROVE  LiveInv'
    <3>1. UNCHANGED <<current, st, starts, host, runControl>>
      BY <2>3 DEF EnsureCheck, Build, RebuildRead, RebuildAssign, calls, run
    <3>2. \A n \in Attempts : MovesWithin(n)
      BY <2>0, <2>3 DEF EnsureCheck, Build, RebuildRead, RebuildAssign, Goto, Resume, MovesWithin, Preparing
    <3> QED BY <3>1, <3>2, QuietStep
  <2>4. CASE MaintCheck \/ MaintFails
    <3>1. UNCHANGED <<current, st, starts, host, runControl>>
      BY <2>4 DEF MaintCheck, MaintFails, calls
    <3>2. \A n \in Attempts : pc'[n] = pc[n]
      BY <2>0, <2>4 DEF MaintCheck, MaintFails, Goto
    <3> QED BY <3>1, <3>2, QuietStep DEF MovesWithin
  <2>5. ASSUME NEW n \in Attempts, Prepare(n) \/ Attach(n) \/ EnterRunning(n)
        PROVE  LiveInv'
    <3>1. /\ UNCHANGED <<current, starts, host, runControl>>
          /\ Publish(n, "preparing") \/ Publish(n, "running")
          /\ pc[n] \in Preparing \cup Controlled
      BY <2>5 DEF Prepare, Attach, EnterRunning, calls, Preparing, Controlled
    <3>2. \A m \in Attempts : MovesWithin(m)
      BY <2>0, <2>5 DEF Prepare, Attach, EnterRunning, Goto, MovesWithin, Preparing, Controlled
    <3>3. "preparing" \in Live /\ "running" \in Live
      BY DEF Live
    <3> QED BY <3>1, <3>2, <3>3, PublishStep
  <2>6. ASSUME NEW n \in Attempts, PublishControl(n)
        PROVE  LiveInv'
    <3>1. /\ UNCHANGED <<current, st, starts, host>> /\ runControl' = n
          /\ pc[n] = "publish" /\ pc' = [pc EXCEPT ![n] = "enter"]
      BY <2>6 DEF PublishControl, Goto, calls
    <3>2. n = current
      BY <3>1 DEF LiveInv, AloneInv, Preparing
    <3>3. pc'[n] = "enter" /\ \A m \in Attempts : m # n => pc'[m] = pc[m]
      BY <2>0, <3>1
    <3>4. AloneInv'
      BY <3>1, <3>3 DEF LiveInv, AloneInv, Preparing, Controlled
    <3>5. \A m \in Attempts : m # n => pc[m] \notin Controlled
      BY <3>2 DEF LiveInv, AloneInv
    <3>6. ControlInv'
      BY <3>1, <3>2, <3>3, <3>5 DEF ControlInv, Controlled
    <3> QED BY <3>1, <3>4, <3>6 DEF LiveInv, HostInv
  <2>7. ASSUME NEW n \in Attempts, RunSwarm(n) \/ RunEnds(n) \/ Raises(n)
        PROVE  LiveInv'
    <3>1. UNCHANGED <<current, st, starts, host, runControl>>
      BY <2>7 DEF RunSwarm, RunEnds, Raises, calls
    <3>2. \A m \in Attempts : MovesWithin(m)
      BY <2>0, <2>7, OperationPoints
         DEF RunSwarm, RunEnds, Raises, Goto, MovesWithin, Preparing, Controlled
    <3> QED BY <3>1, <3>2, QuietStep
  <2>8. ASSUME NEW n \in Attempts, Cleanup(n)
        PROVE  LiveInv'
    <3>1. /\ UNCHANGED <<current, st, starts, host>> /\ runControl' = 0
          /\ pc[n] = "cleanup" /\ pc' = [pc EXCEPT ![n] = "decide"]
      BY <2>8 DEF Cleanup, Goto, calls
    <3>2. n = current
      BY <3>1 DEF LiveInv, AloneInv, Controlled
    <3>3. pc'[n] = "decide" /\ \A m \in Attempts : m # n => pc'[m] = pc[m]
      BY <2>0, <3>1
    <3>4. AloneInv'
      BY <3>1, <3>3 DEF LiveInv, AloneInv, Preparing, Controlled
    <3>5. \A m \in Attempts : m # n => pc[m] \notin Controlled
      BY <3>2 DEF LiveInv, AloneInv
    <3>6. ControlInv'
      BY <3>1, <3>3, <3>5 DEF ControlInv, Controlled
    <3> QED BY <3>1, <3>4, <3>6 DEF LiveInv, HostInv
  <2>9. ASSUME NEW n \in Attempts, Decide(n)
        PROVE  LiveInv'
    <3>1. /\ UNCHANGED <<current, starts, host, runControl>>
          /\ pc[n] = "decide" /\ pc' = [pc EXCEPT ![n] = "close"]
      BY <2>9 DEF Decide, Goto, calls
    <3>2. PICK outcome \in Outcome(n) : st' = [st EXCEPT ![n] = outcome]
      BY <2>9 DEF Decide
    <3>3. outcome \notin Live /\ (outcome = "interrupted" => st[n] = "interrupted")
      BY DEF Outcome, Live
    <3>4. /\ pc'[n] = "close" /\ st'[n] = outcome
          /\ \A m \in Attempts : m # n => pc'[m] = pc[m] /\ st'[m] = st[m]
      BY <2>0, <3>1, <3>2
    <3>5. AloneInv'
      BY <3>1, <3>3, <3>4 DEF LiveInv, AloneInv, Preparing, Controlled
    <3>6. ControlInv'
      <4>1. runControl # n
        BY <3>1, <2>0 DEF LiveInv, ControlInv, Controlled
      <4>2. runControl # 0 => current \in Attempts /\ current # n
        BY <2>0, <4>1 DEF LiveInv, ControlInv
      <4> QED BY <3>1, <3>4, <4>2 DEF LiveInv, ControlInv, Controlled
    <3> QED BY <3>1, <3>5, <3>6 DEF LiveInv, HostInv
  <2>10. ASSUME NEW n \in Attempts, Close(n)
         PROVE  LiveInv'
    <3>1. /\ UNCHANGED <<current, st, starts, host, runControl>>
          /\ pc[n] = "close" /\ pc' = [pc EXCEPT ![n] = "exited"]
      BY <2>10 DEF Close, Goto, calls
    <3>2. pc'[n] = "exited" /\ \A m \in Attempts : m # n => pc'[m] = pc[m]
      BY <2>0, <3>1
    <3>3. AloneInv'
      BY <3>1, <3>2 DEF LiveInv, AloneInv, Preparing, Controlled
    <3>4. ControlInv'
      <4>1. runControl # 0 => current \in Attempts /\ current # n
        BY <2>0, <3>1 DEF LiveInv, ControlInv, Controlled
      <4> QED BY <3>1, <3>2, <4>1 DEF LiveInv, ControlInv, Controlled
    <3> QED BY <3>1, <3>3, <3>4 DEF LiveInv, HostInv
  <2>11. ASSUME NEW mode \in Modes, StopRequest(mode)
         PROVE  LiveInv'
    <3>1. StopAttempt(current, mode, "stop") /\ UNCHANGED <<current, pc, starts, host, runControl>>
      BY <2>11 DEF StopRequest
    <3> QED BY <3>1, StopStep DEF LiveInv, HostInv
  <2>12. CASE DeleteStop
    <3>1. StopAttempt(current, "force", "delete") /\ UNCHANGED <<current, pc, starts, host, runControl>>
      BY <2>12 DEF DeleteStop, calls
    <3> QED BY <3>1, StopStep DEF LiveInv, HostInv
  <2>13. ASSUME UNCHANGED <<current, run, starts, host, runControl>>
         PROVE  LiveInv'
    BY <2>13, QuietStep DEF run, MovesWithin
  <2>14. ASSUME NEW mode \in Modes, ControlSnapshot(mode)
         PROVE  LiveInv'
    BY <2>13, <2>14 DEF ControlSnapshot
  <2>15. CASE StopMark \/ ControlRoute \/ ControlFinish
    BY <2>13, <2>15 DEF StopMark, ControlRoute, ControlFinish
  <2>16. CASE ControlAct
    BY <2>16, QuietStep DEF ControlAct, MovesWithin
  <2>17. CASE DeleteSubmit \/ DeleteCheck \/ DeleteCapture \/ DeleteWait \/ DeleteRemove \/ DeleteForget
    BY <2>13, <2>17 DEF DeleteSubmit, DeleteCheck, DeleteCapture, DeleteWait, DeleteRemove, DeleteForget, calls
  <2>18. CASE ReceiveSigint \/ Shutdown
    <3>1. UNCHANGED <<current, pc, starts, runControl>>
      BY <2>18 DEF ReceiveSigint, Shutdown, calls
    <3>2. /\ host.pc # "down"
          /\ HostInv'
      BY <2>18, <3>1 DEF ReceiveSigint, Shutdown, StopAll, HostInv, TypeInv, TypeOK
    <3>3. StopAttempt(current, "force", "host") \/ st' = st
      BY <2>18 DEF ReceiveSigint, Shutdown, StopAll
    <3>4. CASE st' = st
      <4>1. \A n \in Attempts : st[n] # "interrupted"
        BY <3>2 DEF LiveInv, AloneInv
      <4> QED BY <3>1, <3>2, <3>4, <4>1 DEF LiveInv, AloneInv, ControlInv
    <3> QED BY <3>1, <3>2, <3>3, <3>4, StopStep
  <2>19. CASE ShutdownWait
    <3>1. UNCHANGED <<current, pc, starts, runControl>> /\ host.pc = "draining" /\ host'.pc = "down"
      BY <2>19 DEF ShutdownWait, calls, TypeInv, TypeOK
    <3>2. \A n \in Attempts : st'[n] \in {st[n], "interrupted"}
      BY <2>0, <2>19 DEF ShutdownWait
    <3>3. AloneInv'
      BY <3>1, <3>2 DEF LiveInv, AloneInv, Live
    <3> QED BY <3>1, <3>3 DEF LiveInv, HostInv, ControlInv
  <2>20. CASE UNCHANGED vars
    BY <2>13, <2>20 DEF vars, calls
  <2> QED BY <2>1, <2>2, <2>3, <2>4, <2>5, <2>6, <2>7, <2>8, <2>9, <2>10, <2>11, <2>12, <2>14,
             <2>15, <2>16, <2>17, <2>18, <2>19, <2>20 DEF Next
<1> QED BY <1>1, <1>2, TypeInductive, PTL DEF Spec

\* At most one attempt is live and at most one worker is inside run_swarm, for
\* every number of calls: a start finds the latest attempt's worker behind its
\* outcome, and behind the shutdown's interruption no start call is left.
THEOREM AtMostOneRun == Spec => []OneLiveRun
<1>1. LiveInv => OneLiveRun
  BY OperationPoints DEF LiveInv, AloneInv, OneLiveRun
<1> QED BY <1>1, LiveInductive, PTL

\* The published run control is the latest attempt's, from before its run until
\* its own finally block.
THEOREM RunControlIsCurrent == Spec => []RunControlOfCurrent
<1>1. LiveInv => RunControlOfCurrent
  BY DEF LiveInv, ControlInv, RunControlOfCurrent, Controlled
<1> QED BY <1>1, LiveInductive, PTL

-----------------------------------------------------------------------------
\* One attempt, step by step.

\* What a step does to attempt n, as the callers of the attempt see it.
Keeps(n) ==
  /\ st'[n] = st[n] /\ ask'[n] = ask[n]
  /\ pc'[n] = pc[n] \/ {pc[n], pc'[n]} \cap {"close", "exited"} = {}
Begins(n) ==
  /\ n = current + 1 /\ current' = n
  /\ st[n] = "none" /\ st'[n] = "preparing" /\ ask'[n] = ask[n]
  /\ pc[n] = "none" /\ pc'[n] = "begin"
Publishes(n) ==
  /\ st[n] \in Live /\ st'[n] \in Live /\ ask'[n] = ask[n]
  /\ {pc[n], pc'[n]} \cap {"close", "exited"} = {}
IsAsked(n) ==
  /\ st[n] # "none" /\ pc'[n] = pc[n] /\ ask'[n] # "none"
  /\ st'[n] = st[n] \/ (st[n] \in Live /\ st'[n] \in Live)
Ends(n) ==
  /\ pc[n] = "decide" /\ pc'[n] = "close" /\ ask'[n] = ask[n]
  /\ st[n] \in Live \cup {"interrupted"} /\ st'[n] \in Outcome(n)
IsInterrupted(n) ==
  /\ st[n] # "none" /\ st'[n] = "interrupted"
  /\ pc[n] # "exited" /\ pc'[n] = pc[n] /\ ask'[n] = ask[n]
Exits(n) ==
  /\ pc[n] = "close" /\ pc'[n] = "exited" /\ st'[n] = st[n] /\ ask'[n] = ask[n]
AttemptStep(n) == \/ Keeps(n) \/ Begins(n) \/ Publishes(n) \/ IsAsked(n)
                  \/ Ends(n) \/ IsInterrupted(n) \/ Exits(n)

\* Attempts are allocated one behind the other, and a worker behind its outcome
\* has one; whoever holds on to an attempt holds on to one that was allocated.
AgeInv == \A n \in Attempts : /\ n > current <=> st[n] = "none"
                              /\ pc[n] \in {"close", "exited"} => st[n] \in Terminal
CallerInv ==
  /\ ctl.pc # "idle" => ctl.mode \in Modes
  /\ ctl.pc = "act" => ctl.target \in Attempts /\ ctl.target <= current
  /\ host.target <= current
\* The deletion is past its wait only behind an exited worker, and the shutdown
\* past its own only behind a terminal attempt.
WaitInv ==
  /\ del.target <= current
  /\ DeletionWaitsForWorker
  /\ ShutdownLeavesNothingLive
LateInv == AgeInv /\ CallerInv /\ WaitInv

LEMMA FieldTypes ==
  ASSUME TypeInv
  PROVE  /\ pc \in [Threads -> Points] /\ st \in [Threads -> Live \cup Terminal \cup {"none"}]
         /\ ask \in [Threads -> {"none", "graceful", "force"}]
         /\ current \in Nat /\ current \in Threads /\ del.target \in Threads /\ host.target \in Threads
         /\ ctl.target \in Threads /\ starts \in Nat
  BY DEF TypeInv, TypeOK

\* A stop of one attempt, and of no other.
LEMMA StopMoves ==
  ASSUME TypeInv, NEW m \in Threads, NEW mode \in Modes, NEW by, StopAttempt(m, mode, by), pc' = pc,
         NEW n \in Attempts
  PROVE  Keeps(n) \/ IsAsked(n)
<1>1. CASE st[m] \in Live /\ n = m
  <2>1. ask'[n] = Stronger(ask[n], mode) /\ st'[n] = "stopping"
    BY <1>1, FieldTypes DEF StopAttempt, Halt
  <2> QED BY <1>1, <2>1 DEF IsAsked, Stronger, Live, Modes
<1>2. CASE ~(st[m] \in Live /\ n = m)
  BY <1>2, FieldTypes DEF StopAttempt, Halt, Keeps
<1> QED BY <1>1, <1>2

LEMMA AttemptMoves ==
  ASSUME TypeInv, LiveInv, LateInv, [Next]_vars, NEW n \in Attempts
  PROVE  AttemptStep(n)
<1> USE FieldTypes DEF AttemptStep
<1>1. CASE UNCHANGED run
  BY <1>1 DEF run, Keeps
<1>2. CASE StartCommit
  <2>1. CASE st[current] \in Live
    BY <1>2, <2>1 DEF StartCommit, Keeps
  <2>2. CASE st[current] \notin Live
    <3>1. /\ st' = [st EXCEPT ![current + 1] = "preparing"] /\ pc' = [pc EXCEPT ![current + 1] = "begin"]
          /\ ask' = ask /\ current' = current + 1
      BY <1>2, <2>2 DEF StartCommit, Goto, agents
    <3>2. CASE n = current + 1
      BY <3>1, <3>2 DEF Begins, LiveInv, AloneInv, LateInv, AgeInv
    <3>3. CASE n # current + 1
      BY <3>1, <3>3 DEF Keeps
    <3> QED BY <3>2, <3>3
  <2> QED BY <2>1, <2>2
<1>3. ASSUME NEW t \in Threads, EnsureCheck(t) \/ Build(t) \/ RebuildRead(t) \/ RebuildAssign(t)
      PROVE  Keeps(n)
  BY <1>3 DEF EnsureCheck, Build, RebuildRead, RebuildAssign, Goto, Resume, Keeps, run
<1>4. CASE MaintCheck \/ MaintFails
  BY <1>4 DEF MaintCheck, MaintFails, Goto, Keeps
<1>5. ASSUME NEW m \in Attempts, Prepare(m) \/ Attach(m) \/ EnterRunning(m)
      PROVE  Keeps(n) \/ Publishes(n)
  <2>1. /\ Publish(m, "preparing") \/ Publish(m, "running")
        /\ pc[m] \in {"begin", "attach", "enter"} /\ ask' = ask
        /\ pc' = [pc EXCEPT ![m] = "ensure"] \/ pc' = [pc EXCEPT ![m] = "publish"] \/ pc' = [pc EXCEPT ![m] = "call"]
    BY <1>5 DEF Prepare, Attach, EnterRunning, Goto
  <2>2. st[m] \in Live \cup {"interrupted"}
    BY <2>1 DEF LiveInv, AloneInv, Preparing, Controlled
  <2> QED BY <2>1, <2>2 DEF Publish, Keeps, Publishes, Live, Terminal
<1>6. ASSUME NEW m \in Attempts, PublishControl(m) \/ RunSwarm(m) \/ RunEnds(m) \/ Raises(m) \/ Cleanup(m)
      PROVE  Keeps(n)
  BY <1>6 DEF PublishControl, RunSwarm, RunEnds, Raises, Cleanup, Goto, Keeps, Operation, Points
<1>7. ASSUME NEW m \in Attempts, Decide(m)
      PROVE  Keeps(n) \/ Ends(n)
  BY <1>7 DEF Decide, Goto, Keeps, Ends, LiveInv, AloneInv
<1>8. ASSUME NEW m \in Attempts, Close(m)
      PROVE  Keeps(n) \/ Exits(n)
  BY <1>8 DEF Close, Goto, Keeps, Exits
<1>9. ASSUME NEW mode \in Modes, StopRequest(mode) PROVE AttemptStep(n)
  BY <1>9, StopMoves DEF StopRequest
<1>10. CASE DeleteStop
  BY <1>10, StopMoves DEF DeleteStop, Modes
<1>11. CASE ControlAct
  <2>1. ctl.target \in Attempts /\ ctl.target <= current /\ ctl.mode \in Modes
    BY <1>11 DEF ControlAct, LateInv, CallerInv
  <2>2. st' = st /\ pc' = pc /\ (ask' = ask \/ ask' = [ask EXCEPT ![ctl.target] = Stronger(@, ctl.mode)])
    BY <1>11 DEF ControlAct, Halt
  <2>3. CASE n = ctl.target
    <3>1. st[n] # "none"
      BY <2>1, <2>3 DEF LateInv, AgeInv
    <3> QED BY <2>1, <2>2, <2>3, <3>1 DEF Keeps, IsAsked, Stronger, Modes
  <2>4. CASE n # ctl.target
    BY <2>2, <2>4 DEF Keeps
  <2> QED BY <2>3, <2>4
<1>12. CASE ReceiveSigint \/ Shutdown
  <2>1. pc' = pc
    BY <1>12 DEF ReceiveSigint, Shutdown
  <2>2. StopAttempt(current, "force", "host") \/ UNCHANGED <<st, ask>>
    BY <1>12 DEF ReceiveSigint, Shutdown, StopAll
  <2> QED BY <2>1, <2>2, StopMoves DEF Modes, Keeps
<1>13. CASE ShutdownWait
  <2>1. pc' = pc /\ ask' = ask
    BY <1>13 DEF ShutdownWait
  <2>2. st' = st \/ (host.target # 0 /\ pc[host.target] # "exited" /\ st' = [st EXCEPT ![host.target] = "interrupted"])
    BY <1>13 DEF ShutdownWait
  <2>3. host.target <= current
    BY DEF LateInv, CallerInv
  <2> QED BY <2>1, <2>2, <2>3 DEF Keeps, IsInterrupted, LateInv, AgeInv
<1>14. CASE \/ StartAdmit \/ (\E mode \in Modes : ControlSnapshot(mode)) \/ StopMark \/ ControlRoute \/ ControlFinish
            \/ DeleteSubmit \/ DeleteCheck \/ DeleteCapture \/ DeleteWait \/ DeleteRemove \/ DeleteForget
            \/ UNCHANGED vars
  BY <1>1, <1>14 DEF StartAdmit, ControlSnapshot, StopMark, ControlRoute, ControlFinish, DeleteSubmit, DeleteCheck,
     DeleteCapture, DeleteWait, DeleteRemove, DeleteForget, vars, run
<1> QED BY <1>2, <1>3, <1>4, <1>5, <1>6, <1>7, <1>8, <1>9, <1>10, <1>11, <1>12, <1>13, <1>14 DEF Next

LEMMA CurrentMoves ==
  ASSUME TypeInv, LiveInv, LateInv, [Next]_vars
  PROVE  /\ current' = current \/ (current' = current + 1 /\ current + 1 \in Attempts /\ Begins(current + 1))
         /\ current <= current'
<1>1. CASE StartCommit
  <2>1. CASE st[current] \in Live
    BY <1>1, <2>1, FieldTypes DEF StartCommit
  <2>2. CASE st[current] \notin Live
    <3>1. /\ st' = [st EXCEPT ![current + 1] = "preparing"] /\ pc' = [pc EXCEPT ![current + 1] = "begin"]
          /\ ask' = ask /\ current' = current + 1 /\ starts > 0
      BY <1>1, <2>2 DEF StartCommit, Goto, agents
    <3>2. current + 1 \in Attempts
      BY <3>1, FieldTypes DEF TypeInv, CountInv, TypeOK
    <3> QED BY <3>1, <3>2, FieldTypes DEF Begins, LiveInv, AloneInv, LateInv, AgeInv
  <2> QED BY <2>1, <2>2
<1>2. CASE UNCHANGED current
  BY <1>2, FieldTypes
<1>3. CASE (\E t \in Threads : EnsureCheck(t) \/ Build(t) \/ RebuildRead(t) \/ RebuildAssign(t))
           \/ MaintCheck \/ MaintFails \/ UNCHANGED vars
  BY <1>2, <1>3 DEF EnsureCheck, Build, RebuildRead, RebuildAssign, MaintCheck, MaintFails, vars
<1>4. CASE \E n \in Attempts : \/ Prepare(n) \/ Attach(n) \/ PublishControl(n) \/ EnterRunning(n)
                               \/ RunSwarm(n) \/ RunEnds(n) \/ Raises(n) \/ Cleanup(n) \/ Decide(n) \/ Close(n)
  BY <1>2, <1>4 DEF Prepare, Attach, PublishControl, EnterRunning, RunSwarm, RunEnds, Raises, Cleanup, Decide, Close
<1>5. CASE \/ StartAdmit \/ (\E mode \in Modes : StopRequest(mode) \/ ControlSnapshot(mode))
           \/ StopMark \/ ControlRoute \/ ControlAct \/ ControlFinish
  BY <1>2, <1>5 DEF StartAdmit, StopRequest, ControlSnapshot, StopMark, ControlRoute, ControlAct, ControlFinish
<1>6. CASE \/ DeleteSubmit \/ DeleteCheck \/ DeleteStop \/ DeleteCapture \/ DeleteWait \/ DeleteRemove \/ DeleteForget
           \/ ReceiveSigint \/ Shutdown \/ ShutdownWait
  BY <1>2, <1>6 DEF DeleteSubmit, DeleteCheck, DeleteStop, DeleteCapture, DeleteWait, DeleteRemove, DeleteForget,
     ReceiveSigint, Shutdown, ShutdownWait
<1> QED BY <1>1, <1>3, <1>4, <1>5, <1>6 DEF Next

LEMMA AgeStep ==
  ASSUME TypeInv, LiveInv, LateInv, [Next]_vars
  PROVE  AgeInv'
<1> SUFFICES ASSUME NEW n \in Attempts
             PROVE  /\ n > current' <=> st'[n] = "none"
                    /\ pc'[n] \in {"close", "exited"} => st'[n] \in Terminal
  BY DEF AgeInv
<1>1. AttemptStep(n)
  BY AttemptMoves
<1>2. /\ n > current <=> st[n] = "none"
      /\ pc[n] \in {"close", "exited"} => st[n] \in Terminal
  BY DEF LateInv, AgeInv
<1>3. n \in Nat /\ current \in Nat
  BY FieldTypes
<1>4. CASE Begins(n)
  BY <1>2, <1>3, <1>4 DEF Begins
<1>5. CASE Keeps(n) \/ Publishes(n) \/ IsAsked(n) \/ Ends(n) \/ IsInterrupted(n) \/ Exits(n)
  <2>1. st'[n] = "none" <=> st[n] = "none"
    BY <1>2, <1>3, <1>5 DEF Keeps, Publishes, IsAsked, Ends, IsInterrupted, Exits, Outcome, Live
  <2>2. pc'[n] \in {"close", "exited"} => st'[n] \in Terminal
    BY <1>2, <1>5 DEF Keeps, Publishes, IsAsked, Ends, IsInterrupted, Exits, Outcome, Live, Terminal
  <2>3. n > current' <=> n > current
    <3>1. CASE current' = current
      BY <3>1
    <3>2. CASE current' = current + 1 /\ Begins(current + 1)
      <4>1. n # current + 1
        BY <2>1, <3>2 DEF Begins
      <4> QED BY <1>3, <3>2, <4>1
    <3> QED BY <3>1, <3>2, CurrentMoves
  <2> QED BY <1>2, <2>1, <2>2, <2>3
<1> QED BY <1>1, <1>4, <1>5 DEF AttemptStep

\* What a caller holds on to, step by step: it goes on, or is taken anew.
LEMMA CallerStep ==
  ASSUME TypeInv, TypeInv', LiveInv, LateInv, [Next]_vars
  PROVE  CallerInv'
<1>0. /\ current <= current' /\ current \in Nat /\ current' \in Nat
      /\ ctl.target \in Nat /\ host.target \in Nat
  BY CurrentMoves, FieldTypes DEF TypeInv, TypeOK
<1>1. CASE UNCHANGED <<ctl, host>>
  BY <1>0, <1>1 DEF LateInv, CallerInv
<1>2. ASSUME NEW mode \in Modes, ControlSnapshot(mode) PROVE CallerInv'
  BY <1>0, <1>2 DEF ControlSnapshot, LateInv, CallerInv, NoCall
<1>3. CASE ControlRoute \/ ControlAct \/ ControlFinish
  <2>1. host' = host /\ current' = current
    BY <1>3 DEF ControlRoute, ControlAct, ControlFinish
  <2>2. CASE ControlRoute
    <3>1. runControl # 0 => runControl \in Attempts /\ runControl = current
      BY DEF LiveInv, ControlInv, TypeInv, TypeOK
    <3> QED BY <1>0, <2>1, <2>2, <3>1 DEF ControlRoute, LateInv, CallerInv, NoCall, TypeInv, TypeOK
  <2>3. CASE ControlAct \/ ControlFinish
    BY <1>0, <2>1, <2>3 DEF ControlAct, ControlFinish, LateInv, CallerInv, NoCall, TypeInv, TypeOK
  <2> QED BY <1>3, <2>2, <2>3
<1>4. CASE ReceiveSigint \/ Shutdown \/ ShutdownWait
  BY <1>0, <1>4 DEF ReceiveSigint, Shutdown, ShutdownWait, StopAll, calls, LateInv, CallerInv, TypeInv, TypeOK
<1>5. CASE (\E t \in Threads : EnsureCheck(t) \/ Build(t) \/ RebuildRead(t) \/ RebuildAssign(t))
           \/ MaintCheck \/ MaintFails \/ StartAdmit \/ StartCommit \/ UNCHANGED vars
  BY <1>1, <1>5 DEF EnsureCheck, Build, RebuildRead, RebuildAssign, MaintCheck, MaintFails, StartAdmit, StartCommit,
     calls, vars
<1>6. CASE \E n \in Attempts : \/ Prepare(n) \/ Attach(n) \/ PublishControl(n) \/ EnterRunning(n)
                               \/ RunSwarm(n) \/ RunEnds(n) \/ Raises(n) \/ Cleanup(n) \/ Decide(n) \/ Close(n)
  BY <1>1, <1>6 DEF Prepare, Attach, PublishControl, EnterRunning, RunSwarm, RunEnds, Raises, Cleanup, Decide, Close,
     calls
<1>7. CASE \/ (\E mode \in Modes : StopRequest(mode)) \/ StopMark
           \/ DeleteSubmit \/ DeleteCheck \/ DeleteStop \/ DeleteCapture \/ DeleteWait \/ DeleteRemove \/ DeleteForget
  BY <1>1, <1>7 DEF StopRequest, StopMark, DeleteSubmit, DeleteCheck, DeleteStop, DeleteCapture, DeleteWait,
     DeleteRemove, DeleteForget, calls
<1> QED BY <1>2, <1>3, <1>4, <1>5, <1>6, <1>7 DEF Next

\* An exited worker stays so, and an outcome behind the end of the host too.
LEMMA EndsStay ==
  ASSUME TypeInv, LiveInv, LateInv, [Next]_vars, NEW n \in Attempts
  PROVE  /\ pc[n] = "exited" => pc'[n] = "exited"
         /\ st[n] \in Terminal => st'[n] \in Terminal
<1>1. AttemptStep(n)
  BY AttemptMoves
<1> QED BY <1>1 DEF AttemptStep, Keeps, Begins, Publishes, IsAsked, Ends, IsInterrupted, Exits, Outcome, Live, Terminal

LEMMA WaitStep ==
  ASSUME TypeInv, TypeInv', LiveInv, LateInv, [Next]_vars
  PROVE  WaitInv'
<1>0. /\ current <= current' /\ current \in Nat /\ current' \in Nat
      /\ del.target \in Threads /\ host.target \in Threads
  BY CurrentMoves, FieldTypes DEF TypeInv, TypeOK
<1>1. /\ del.target # 0 /\ pc[del.target] = "exited" => pc'[del.target] = "exited"
      /\ host.target # 0 /\ st[host.target] \in Terminal => st'[host.target] \in Terminal
  BY <1>0, EndsStay
<1>2. CASE UNCHANGED <<del, registered, host>>
  BY <1>0, <1>1, <1>2 DEF LateInv, WaitInv, DeletionWaitsForWorker, ShutdownLeavesNothingLive
<1>3. CASE DeleteSubmit \/ DeleteCheck \/ DeleteStop \/ DeleteCapture \/ DeleteWait \/ DeleteRemove \/ DeleteForget
  <2>1. host' = host /\ current' = current /\ pc' = pc
    BY <1>3 DEF DeleteSubmit, DeleteCheck, DeleteStop, DeleteCapture, DeleteWait, DeleteRemove, DeleteForget, run
  <2>2. del'.target <= current' /\ DeletionWaitsForWorker'
    BY <1>0, <1>3, <2>1 DEF DeleteSubmit, DeleteCheck, DeleteStop, DeleteCapture, DeleteWait, DeleteRemove,
       DeleteForget, Deleting, LateInv, WaitInv, DeletionWaitsForWorker, TypeInv, TypeOK
  <2> QED BY <1>1, <2>1, <2>2 DEF LateInv, WaitInv, ShutdownLeavesNothingLive
<1>4. CASE ReceiveSigint \/ Shutdown \/ ShutdownWait
  <2>1. UNCHANGED <<del, registered>>
    BY <1>4 DEF ReceiveSigint, Shutdown, ShutdownWait
  <2>2. ShutdownLeavesNothingLive'
    <3>1. CASE ReceiveSigint \/ Shutdown
      BY <3>1 DEF ReceiveSigint, Shutdown, StopAll, ShutdownLeavesNothingLive, TypeInv, TypeOK
    <3>2. CASE ShutdownWait
      <4>1. host'.target = host.target
        BY <3>2 DEF ShutdownWait, TypeInv, TypeOK
      <4>2. CASE UNCHANGED st /\ (host.target = 0 \/ pc[host.target] = "exited")
        BY <1>0, <4>1, <4>2 DEF ShutdownLeavesNothingLive, LateInv, AgeInv
      <4>3. CASE st' = [st EXCEPT ![host.target] = "interrupted"]
        BY <1>0, <4>1, <4>3, FieldTypes DEF ShutdownLeavesNothingLive, Terminal
      <4> QED BY <3>2, <4>2, <4>3 DEF ShutdownWait
    <3> QED BY <1>4, <3>1, <3>2
  <2> QED BY <1>0, <1>1, <2>1, <2>2 DEF LateInv, WaitInv, DeletionWaitsForWorker
<1>5. CASE (\E t \in Threads : EnsureCheck(t) \/ Build(t) \/ RebuildRead(t) \/ RebuildAssign(t))
           \/ MaintCheck \/ MaintFails \/ StartAdmit \/ StartCommit \/ UNCHANGED vars
  BY <1>2, <1>5 DEF EnsureCheck, Build, RebuildRead, RebuildAssign, MaintCheck, MaintFails, StartAdmit, StartCommit,
     vars
<1>6. CASE \E n \in Attempts : \/ Prepare(n) \/ Attach(n) \/ PublishControl(n) \/ EnterRunning(n)
                               \/ RunSwarm(n) \/ RunEnds(n) \/ Raises(n) \/ Cleanup(n) \/ Decide(n) \/ Close(n)
  BY <1>2, <1>6 DEF Prepare, Attach, PublishControl, EnterRunning, RunSwarm, RunEnds, Raises, Cleanup, Decide, Close
<1>7. CASE \/ (\E mode \in Modes : StopRequest(mode) \/ ControlSnapshot(mode))
           \/ StopMark \/ ControlRoute \/ ControlAct \/ ControlFinish
  BY <1>2, <1>7 DEF StopRequest, ControlSnapshot, StopMark, ControlRoute, ControlAct, ControlFinish
<1> QED BY <1>3, <1>4, <1>5, <1>6, <1>7 DEF Next

LEMMA LateInductive == Spec => []LateInv
<1>1. Init => LateInv
  <2> SUFFICES ASSUME Init PROVE LateInv
    OBVIOUS
  <2>1. \A n \in Attempts : pc[n] = "none" /\ st[n] = "none" /\ n > 0
    BY DEF Init, Attempts
  <2> QED BY <2>1 DEF Init, LateInv, AgeInv, CallerInv, WaitInv, NoCall, DeletionWaitsForWorker, ShutdownLeavesNothingLive
<1>2. TypeInv /\ TypeInv' /\ LiveInv /\ LateInv /\ [Next]_vars => LateInv'
  BY AgeStep, CallerStep, WaitStep DEF LateInv
<1> QED BY <1>1, <1>2, TypeInductive, LiveInductive, PTL DEF Spec

\* A deletion that had to stop a run removes nothing before the worker it waited
\* for has written its last file, and one that gives up unregisters nothing,
\* however many runs are started, stopped and deleted beside it.
THEOREM DeletionComesLast == Spec => []DeletionWaitsForWorker
<1>1. LateInv => DeletionWaitsForWorker
  BY DEF LateInv, WaitInv
<1> QED BY <1>1, LateInductive, PTL

\* When the shutdown hook returns, the attempt it found live is terminal and
\* stays so, whatever its worker does behind the deadline.
THEOREM ShutdownEndsRun == Spec => []ShutdownLeavesNothingLive
<1>1. LateInv => ShutdownLeavesNothingLive
  BY DEF LateInv, WaitInv
<1> QED BY <1>1, LateInductive, PTL

\* Each attempt of a Session goes through the lifecycle AttemptLifecycle promises,
\* with every thread of the Session beside its worker.
THEOREM SessionRefinesLifecycle == Spec => AttemptsKeepLifecycle
<1>1. Init => \A n \in Attempts : Lifecycle(n)!Init
  BY DEF Init, Lifecycle!Init, Live
<1>2. ASSUME TypeInv, LiveInv, LateInv, [Next]_vars, NEW n \in Attempts
      PROVE  [Lifecycle(n)!Next]_(Lifecycle(n)!lifecycle)
  <2>1. AttemptStep(n)
    BY <1>2, AttemptMoves
  <2>2. st[n] \in Live \cup Terminal \cup {"none"} /\ (pc[n] \in {"close", "exited"} => st[n] \in Terminal)
    BY <1>2, FieldTypes DEF LateInv, AgeInv
  <2> QED BY <2>1, <2>2 DEF AttemptStep, Keeps, Begins, Publishes, IsAsked, Ends, IsInterrupted, Exits, Outcome,
             Lifecycle!Next, Lifecycle!lifecycle, Lifecycle!Begin, Lifecycle!Ask, Lifecycle!End,
             Lifecycle!Interrupt, Lifecycle!Release, Lifecycle!Outcomes, Live, Terminal
<1>3. TypeInv /\ LiveInv /\ LateInv /\ [Next]_vars
        => [\A n \in Attempts : [Lifecycle(n)!Next]_(Lifecycle(n)!lifecycle)]_vars
  BY <1>2
<1> QED BY <1>1, <1>3, TypeInductive, LiveInductive, LateInductive, PTL DEF Spec, AttemptsKeepLifecycle
=============================================================================
