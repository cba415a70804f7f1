------------------------- MODULE ExecutionAttemptProofs -------------------------
(* Theorems about ExecutionAttempt, for every set of generations and every *)
(* bound.                                                                  *)
EXTENDS ExecutionAttemptProps, TLAPS

USE NoGenAssumption, BoundsAssumption

\* The journal is only ever extended, or cut behind its synced part.
LEMMA AppendFacts ==
  ASSUME NEW S, NEW s \in Seq(S), NEW e \in S
  PROVE  /\ Append(s, e) \in Seq(S)
         /\ Len(Append(s, e)) = Len(s) + 1
         /\ \A i \in 1..Len(s) : Append(s, e)[i] = s[i]
         /\ Append(s, e)[Len(s) + 1] = e
         /\ DOMAIN s = 1..Len(s) /\ DOMAIN Append(s, e) = 1..(Len(s) + 1)
  OBVIOUS

LEMMA PrefixFacts ==
  ASSUME NEW S, NEW s \in Seq(S), NEW n \in 0..Len(s)
  PROVE  /\ SubSeq(s, 1, n) \in Seq(S)
         /\ Len(SubSeq(s, 1, n)) = n
         /\ \A i \in 1..n : SubSeq(s, 1, n)[i] = s[i]
         /\ DOMAIN SubSeq(s, 1, n) = 1..n /\ DOMAIN s = 1..Len(s)
  OBVIOUS

LEMMA EventAtType ==
  ASSUME TypeOK
  PROVE  EventAt(lock) \in Events
  BY DEF TypeOK, EventAt, Event, Events, EventTypes, OutcomeEvents, OutcomeOf

LEMMA PhasesFacts == Len(Phases) = 6 /\ \A i \in 1..6 : Phases[i] \in LiveStates
  BY DEF Phases, LiveStates

\* Only a hook that projected a generation commits one.
CommitPoints == {"commit_graph", "commit_journal", "commit_ref"}
TypeInv == TypeOK /\ (lock \in CommitPoints => hook \in Generations)

\* A write of the lock holder moves the program points within their types.
PointsOK(l, w, s, h) ==
  /\ l \in Points \cup {"free"}
  /\ w \in {"none", "operation", "returned", "raised", "decided", "closed", "exited"}
  /\ s \in {"idle", "selected", "waiting", "late", "finished", "skipped", "raised"}
  /\ h \in Generations \cup {NoGen}
  /\ l \in CommitPoints => h \in Generations

LEMMA LeaveType ==
  ASSUME TypeInv, NEW ok \in BOOLEAN, Leave(ok)
  PROVE  PointsOK(lock', worker', sup', hook')
  BY DEF TypeInv, TypeOK, Leave, PointsOK, CommitPoints, WorkerAfter, SupAfter, HookAfter,
         Points, ManifestPoints, JournalPoints

LEMMA AdvanceType ==
  ASSUME TypeInv, Advance
  PROVE  PointsOK(lock', worker', sup', hook')
<1>1. CASE NextWrite(lock) = "free"
  BY <1>1, LeaveType DEF Advance
<1>2. CASE NextWrite(lock) # "free"
  BY <1>2 DEF Advance, NextWrite, TypeInv, TypeOK, PointsOK, CommitPoints, Points, ManifestPoints, JournalPoints
<1> QED BY <1>1, <1>2

\* What a write leaves on disk has the disk's types.
DiskOK(j, t, n, g, m) ==
  /\ j \in Seq(Events) /\ t \in BOOLEAN /\ n \in 0..Len(j)
  /\ g \in SUBSET Generations
  /\ m \in [state : States \cup {"none"}, ckpt : Generations \cup {NoGen}]

LEMMA AppendLineType ==
  ASSUME TypeOK, NEW e \in Events, AppendLine(e)
  PROVE  /\ journal' \in Seq(Events) /\ torn' \in BOOLEAN
         /\ Len(journal') \in Nat /\ Len(journal') >= Len(journal)
<1>1. Append(journal, e) \in Seq(Events) /\ Len(Append(journal, e)) = Len(journal) + 1
  BY DEF TypeOK
<1>2. journal' = journal \/ journal' = Append(journal, e)
  BY DEF TypeOK, AppendLine
<1>3. journal \in Seq(Events) /\ Len(journal) \in Nat
  BY DEF TypeOK
<1>4. torn' \in BOOLEAN
  BY DEF AppendLine
<1> QED BY <1>1, <1>2, <1>3, <1>4

LEMMA PutType ==
  ASSUME TypeInv
  PROVE  /\ PutManifest => DiskOK(journal', torn', synced', graphs', manifest')
         /\ PutGraph => DiskOK(journal', torn', synced', graphs', manifest')
         /\ PutRef => DiskOK(journal', torn', synced', graphs', manifest')
         /\ PutEvent /\ synced' \in {synced, Len(journal')}
              => DiskOK(journal', torn', synced', graphs', manifest')
<1> USE DEF TypeInv, TypeOK, DiskOK
<1>1. manifest.ckpt \in Generations \cup {NoGen} /\ manifest.state \in States \cup {"none"}
  OBVIOUS
<1>2. LifecycleManifest \in [state : States \cup {"none"}, ckpt : Generations \cup {NoGen}]
  BY <1>1 DEF LifecycleManifest
<1>3. CheckpointManifest \in [state : States \cup {"none"}, ckpt : Generations \cup {NoGen}]
  BY <1>1 DEF CheckpointManifest
<1>4. PutEvent /\ synced' \in {synced, Len(journal')}
        => DiskOK(journal', torn', synced', graphs', manifest')
  BY AppendLineType, EventAtType DEF PutEvent
<1> QED BY <1>2, <1>3, <1>4 DEF PutManifest, PutGraph, PutRef, CommitPoints

-----------------------------------------------------------------------------
\* Every variable keeps its type: in particular the lock is never left at a
\* write that no critical section makes.
LEMMA TypeInductive == Spec => []TypeInv
<1>1. Init => TypeInv
  <2>1. <<>> \in Seq(Events) /\ Len(<<>>) = 0
    OBVIOUS
  <2>2. NoManifest \in [state : States \cup {"none"}, ckpt : Generations \cup {NoGen}]
    BY DEF NoManifest
  <2>3. "idle" \in States /\ "free" \notin CommitPoints /\ 0 \in 0..Len(Phases)
    BY PhasesFacts DEF States, CommitPoints
  <2> SUFFICES ASSUME Init PROVE TypeInv
    OBVIOUS
  <2>4. DiskOK(journal, torn, synced, graphs, manifest)
    <3>1. journal \in Seq(Events) /\ synced \in 0..Len(journal) /\ graphs \in SUBSET Generations
      BY <2>1 DEF Init
    <3>2. torn \in BOOLEAN
      BY DEF Init
    <3> QED BY <2>2, <3>1, <3>2, Zenon DEF Init, DiskOK
  <2>5. PointsOK(lock, worker, sup, hook)
    BY <2>3 DEF Init, PointsOK
  <2>6. host \in {"up", "down", "reconciling", "reconciled"} /\ faults \in Nat /\ crashes \in Nat
    BY DEF Init
  <2>7. state \in States
    BY DEF Init, States
  <2>8. stop \in {"none", "graceful", "force"} /\ step \in 0..Len(Phases)
    BY <2>3 DEF Init
  <2>9. done \in BOOLEAN
    BY DEF Init
  <2> QED BY <2>4, <2>5, <2>6, <2>7, <2>8, <2>9 DEF TypeInv, TypeOK, DiskOK, PointsOK
<1>2. ASSUME TypeInv, [Next]_vars PROVE TypeInv'
  <2> USE <1>2 DEF TypeInv, TypeOK
  <2>1. CASE Start
    BY <2>1 DEF Start, Free, disk, CommitPoints, States, LiveStates, Points, ManifestPoints
  <2>2. CASE Transition
    BY <2>2, PhasesFacts DEF Transition, Free, disk, States, Points, JournalPoints, CommitPoints
  <2>3. CASE RequestStop
    BY <2>3 DEF RequestStop, AcceptStop, Stronger, Free, disk, CommitPoints, States, LiveStates, Points, JournalPoints
  <2>4. CASE ControllerStop
    BY <2>4 DEF ControllerStop, Stronger, disk
  <2>5. CASE OperationEnds
    BY <2>5 DEF OperationEnds, disk
  <2>6. CASE Decide
    BY <2>6 DEF Decide, Free, disk, CommitPoints, States, TerminalStates, Points, JournalPoints
  <2>7. CASE Close
    BY <2>7 DEF Close, Free, disk, CommitPoints, Points, ManifestPoints
  <2>8. CASE Release
    BY <2>8 DEF Release, disk
  <2>9. CASE \E g \in Generations : HookProject(g)
    BY <2>9 DEF HookProject, disk
  <2>10. CASE CommitCheckpoint
    BY <2>10 DEF CommitCheckpoint, Free, disk, CommitPoints, Points
  <2>11. CASE SupSelect \/ SupStop \/ SupWait \/ MarkInterrupted
    BY <2>11 DEF SupSelect, SupStop, SupWait, MarkInterrupted, AcceptStop, Stronger, Free, disk, CommitPoints,
                States, LiveStates, TerminalStates, Points, JournalPoints
  <2>12. CASE Write
    <3>1. DiskOK(journal', torn', synced', graphs', manifest')
      BY <2>12, PutType DEF Write, WriteManifest, WriteGraph, WriteRef, WriteJournal
    <3>2. PointsOK(lock', worker', sup', hook')
      BY <2>12, AdvanceType DEF Write, WriteManifest, WriteGraph, WriteRef, WriteJournal, Written
    <3> QED BY <2>12, <3>1, <3>2 DEF Write, WriteManifest, WriteGraph, WriteRef, WriteJournal, Written, DiskOK, PointsOK
  <2>13. CASE WriteFails
    <3>1. DiskOK(journal', torn', synced', graphs', manifest')
      BY <2>13, PutType DEF WriteFails, disk, DiskOK
    <3>2. PointsOK(lock', worker', sup', hook')
      BY <2>13, LeaveType DEF WriteFails
    <3> QED BY <2>13, <3>1, <3>2 DEF WriteFails, DiskOK, PointsOK
  <2>15. CASE Crash
    <3>1. PICK n \in synced..Len(journal) : journal' = SubSeq(journal, 1, n)
      BY <2>15 DEF Crash
    <3>2. journal' \in Seq(Events) /\ Len(journal') = n
      BY <3>1, PrefixFacts
    <3>3. torn' \in BOOLEAN
      BY <2>15 DEF Crash
    <3>4. synced' \in 0..Len(journal') /\ step' \in 0..Len(Phases)
      BY <2>15, <3>2, PhasesFacts DEF Crash
    <3>5. "idle" \in States /\ "free" \notin CommitPoints
      BY DEF States, CommitPoints
    <3>6. DiskOK(journal', torn', synced', graphs', manifest')
      BY <2>15, <3>2, <3>3, <3>4 DEF Crash, DiskOK
    <3>7. PointsOK(lock', worker', sup', hook')
      BY <2>15, <3>5 DEF Crash, PointsOK
    <3>8. state' \in States
      BY <2>15 DEF Crash, States
    <3>9. done' \in BOOLEAN
      BY <2>15, Zenon DEF Crash
    <3>10. /\ stop' \in {"none", "graceful", "force"}
          /\ host' \in {"up", "down", "reconciling", "reconciled"} /\ faults' \in Nat /\ crashes' \in Nat
      BY <2>15 DEF Crash
    <3> QED BY <3>4, <3>6, <3>7, <3>8, <3>9, <3>10 DEF DiskOK, PointsOK
  <2>16. CASE Reconcile
    <3>1. Event("execution_interrupted", NoGen) \in Events
      BY DEF Event, Events, EventTypes
    <3> QED BY <2>16, <3>1, AppendLineType DEF Reconcile, memory
  <2>17. CASE ReconcileManifest
    BY <2>17 DEF ReconcileManifest, memory, States, TerminalStates
  <2>18. CASE UNCHANGED vars
    BY <2>18 DEF vars, memory, disk
  <2> QED BY <2>1, <2>2, <2>3, <2>4, <2>5, <2>6, <2>7, <2>8, <2>9, <2>10, <2>11, <2>12, <2>13,
             <2>15, <2>16, <2>17, <2>18 DEF Next, Write
<1> QED BY <1>1, <1>2, PTL DEF Spec

THEOREM TypeCorrect == Spec => []TypeOK
<1>1. TypeInv => TypeOK
  BY DEF TypeInv
<1> QED BY <1>1, TypeInductive, PTL

-----------------------------------------------------------------------------
\* The lifecycle fields, the lock's holder and the threads' program points agree
\* in every state: what each writer may assume when it writes.

LEMMA WriteKeepsLife ==
  ASSUME TypeInv, LifeInv, Write
  PROVE  LifeInv'
<1>1. Advance /\ UNCHANGED <<state, stop, step, done, host>> /\ host = "up" /\ lock # "free"
  BY DEF Write, WriteManifest, WriteJournal, WriteGraph, WriteRef, Written,
         PutManifest, PutEvent, PutGraph, PutRef, ManifestPoints, JournalPoints
<1> QED BY <1>1 DEF TypeInv, TypeOK, LifeInv, FieldInv, HolderInv, Advance, Leave, NextWrite,
            WorkerAfter, SupAfter, HookAfter, Points, ManifestPoints, JournalPoints,
            LiveStates, TerminalStates

LEMMA FailKeepsLife ==
  ASSUME TypeInv, LifeInv, WriteFails
  PROVE  LifeInv'
<1>1. Leave(FALSE) /\ UNCHANGED <<state, stop, step, done, host>> /\ host = "up" /\ lock # "free"
  BY DEF WriteFails
<1> USE <1>1 DEF LifeInv
<1>2. /\ worker' \in {worker, "none", "raised", "decided", "closed"}
      /\ worker' = "none" => worker' = worker \/ lock \in {"start_manifest", "start_journal"}
      /\ worker' = "raised" => worker' = worker \/ lock = "transition_journal"
      /\ worker' = "decided" => worker' = worker \/ lock = "decide_journal"
      /\ worker' = "closed" => worker' = worker \/ lock = "close_manifest"
      /\ worker' = worker => lock # "decide_journal"
  BY DEF Leave, WorkerAfter, FieldInv, HolderInv
<1>3. sup' \in {sup, "raised"} /\ hook' \in {hook, NoGen} /\ lock' = "free"
  BY DEF Leave, SupAfter, HookAfter
<1>4. FieldInv'
  BY <1>2, <1>3 DEF FieldInv, HolderInv, LiveStates, TerminalStates
<1>5. HolderInv'
  BY <1>3 DEF HolderInv
<1> QED BY <1>4, <1>5

LEMMA LifeInductive == Spec => []LifeInv
<1>1. Init => LifeInv
  BY DEF Init, LifeInv, FieldInv, HolderInv
<1>2. ASSUME TypeInv, LifeInv, [Next]_vars PROVE LifeInv'
  <2> USE <1>2 DEF LifeInv, FieldInv, HolderInv, TypeInv, TypeOK
  <2>1. CASE Start
    BY <2>1 DEF Start, Free, LiveStates, TerminalStates
  <2>2. CASE Transition
    BY <2>2, PhasesFacts DEF Transition, Free, LiveStates, TerminalStates
  <2>3. CASE RequestStop
    BY <2>3 DEF RequestStop, AcceptStop, Stronger, Free, LiveStates, TerminalStates
  <2>4. CASE ControllerStop
    BY <2>4 DEF ControllerStop, Stronger
  <2>5. CASE OperationEnds
    BY <2>5 DEF OperationEnds
  <2>6. CASE Decide
    BY <2>6 DEF Decide, Free, LiveStates, TerminalStates
  <2>7. CASE Close
    BY <2>7 DEF Close, Free
  <2>8. CASE Release
    BY <2>8 DEF Release
  <2>9. CASE \E g \in Generations : HookProject(g)
    BY <2>9 DEF HookProject
  <2>10. CASE CommitCheckpoint
    BY <2>10 DEF CommitCheckpoint, Free
  <2>11. CASE SupSelect
    BY <2>11 DEF SupSelect, Free, LiveStates, TerminalStates
  <2>12. CASE SupStop
    BY <2>12 DEF SupStop, AcceptStop, Stronger, Free, LiveStates, TerminalStates
  <2>13. CASE SupWait
    BY <2>13 DEF SupWait
  <2>14. CASE MarkInterrupted
    BY <2>14 DEF MarkInterrupted, Free, LiveStates, TerminalStates
  <2>15. CASE Write
    BY <2>15, WriteKeepsLife
  <2>16. CASE WriteFails
    BY <2>16, FailKeepsLife
  <2>17. CASE Crash
    BY <2>17 DEF Crash
  <2>18. CASE Reconcile
    BY <2>18 DEF Reconcile, memory
  <2>19. CASE ReconcileManifest
    BY <2>19 DEF ReconcileManifest, memory
  <2>20. CASE UNCHANGED vars
    BY <2>20 DEF vars, memory
  <2> QED BY <2>1, <2>2, <2>3, <2>4, <2>5, <2>6, <2>7, <2>8, <2>9, <2>10, <2>11, <2>12, <2>13,
             <2>14, <2>15, <2>16, <2>17, <2>18, <2>19, <2>20 DEF Next, Write
<1> QED BY <1>1, <1>2, TypeInductive, PTL DEF Spec

-----------------------------------------------------------------------------
\* What the journal says binds the lifecycle.

\* A running host goes on in one life: a stop stays asked, and a state that is
\* neither idle nor a success or failure only moves to such states once it is.
LEMMA LifeStep ==
  ASSUME TypeInv, LifeInv, [Next]_vars, host' = "up"
  PROVE  /\ host = "up"
         /\ stop # "none" => stop' # "none"
         /\ stop # "none" /\ state \notin {"idle", "completed", "failed"}
              => state' \notin {"idle", "completed", "failed"}
         /\ state = "interrupted" => state' = "interrupted"
<1> USE DEF TypeInv, TypeOK, LifeInv, FieldInv
<1>1. CASE Start \/ Transition
  BY <1>1, PhasesFacts DEF Start, Transition, Free, LiveStates, TerminalStates
<1>2. CASE RequestStop \/ ControllerStop
  BY <1>2 DEF RequestStop, ControllerStop, AcceptStop, Stronger, Free, LiveStates
<1>3. CASE OperationEnds \/ Decide \/ Close \/ Release
  BY <1>3 DEF OperationEnds, Decide, Close, Release, Free
<1>4. CASE (\E g \in Generations : HookProject(g)) \/ CommitCheckpoint
  BY <1>4 DEF HookProject, CommitCheckpoint, Free
<1>5. CASE SupSelect \/ SupStop \/ SupWait \/ MarkInterrupted
  BY <1>5 DEF SupSelect, SupStop, SupWait, MarkInterrupted, AcceptStop, Stronger, Free, LiveStates
<1>6. CASE Write \/ WriteFails
  BY <1>6 DEF Write, WriteManifest, WriteJournal, WriteGraph, WriteRef, Written, WriteFails
<1>7. CASE Crash \/ Reconcile \/ ReconcileManifest
  BY <1>7 DEF Crash, Reconcile, ReconcileManifest
<1>8. CASE UNCHANGED vars
  BY <1>8 DEF vars, memory
<1> QED BY <1>1, <1>2, <1>3, <1>4, <1>5, <1>6, <1>7, <1>8 DEF Next, Write

\* How a step changes the journal.
LEMMA JournalStep ==
  ASSUME [Next]_vars
  PROVE  \/ journal' = journal
         \/ /\ lock \in JournalPoints /\ host = "up" /\ UNCHANGED <<state, stop, host>>
            /\ journal' = Append(journal, EventAt(lock))
         \/ /\ host = "down" /\ host' # "up"
            /\ journal' = Append(journal, Event("execution_interrupted", NoGen))
         \/ Crash
<1>1. CASE Write \/ WriteFails
  BY <1>1 DEF Write, WriteManifest, WriteJournal, WriteGraph, WriteRef, Written, WriteFails, disk,
              PutManifest, PutEvent, PutGraph, PutRef, AppendLine
<1>2. CASE Reconcile \/ ReconcileManifest
  BY <1>2 DEF Reconcile, ReconcileManifest, AppendLine
<1>3. CASE UNCHANGED vars
  BY <1>3 DEF vars, disk
<1>4. CASE ~(Write \/ WriteFails \/ Crash \/ Reconcile \/ ReconcileManifest \/ UNCHANGED vars)
  BY <1>4 DEF Next, Write, Start, Transition, RequestStop, ControllerStop, OperationEnds, Decide, Close,
              Release, HookProject, CommitCheckpoint, SupSelect, SupStop, SupWait, MarkInterrupted, disk
<1> QED BY <1>1, <1>2, <1>3, <1>4

\* What the holder of the lock may be about to journal.
LEMMA PendingEvent ==
  ASSUME TypeInv, LifeInv, lock \in JournalPoints
  PROVE  /\ EventAt(lock).type = "stop_requested"
              => stop # "none" /\ state \notin {"idle", "completed", "failed"}
         /\ EventAt(lock).type = "execution_interrupted" => state = "interrupted"
         /\ state = "interrupted"
              => EventAt(lock).type \in {"execution_interrupted", "checkpoint_committed"}
  BY DEF LifeInv, HolderInv, EventAt, Event, OutcomeOf, JournalPoints, LiveStates

LEMMA JournalInductive == Spec => []JournalInv
<1>1. Init => JournalInv
  BY DEF Init, JournalInv, HasEvent, InterruptionEndsLifecycle
<1>2. ASSUME TypeInv, LifeInv, JournalInv, [Next]_vars PROVE JournalInv'
  <2> USE DEF HasEvent, InterruptionEndsLifecycle
  <2>0. journal \in Seq(Events)
    BY <1>2 DEF TypeInv, TypeOK
  <2>1. CASE journal' = journal
    BY <1>2, <2>1, LifeStep DEF JournalInv
  <2>2. CASE /\ lock \in JournalPoints /\ host = "up" /\ UNCHANGED <<state, stop, host>>
             /\ journal' = Append(journal, EventAt(lock))
    <3>1. EventAt(lock) \in Events
      BY <1>2, EventAtType DEF TypeInv
    <3> DEFINE n == Len(journal)
    <3>2. /\ DOMAIN journal = 1..n /\ DOMAIN journal' = 1..(n + 1) /\ n \in Nat
          /\ \A i \in 1..n : journal'[i] = journal[i]
          /\ journal'[n + 1] = EventAt(lock)
      BY <2>0, <2>2, <3>1, AppendFacts
    <3> HIDE DEF n
    <3> QED BY <1>2, <2>2, <3>2, PendingEvent DEF JournalInv
  <2>3. CASE /\ host = "down" /\ host' # "up"
             /\ journal' = Append(journal, Event("execution_interrupted", NoGen))
    <3>1. Event("execution_interrupted", NoGen) \in Events
      BY DEF Event, Events, EventTypes
    <3> DEFINE n == Len(journal)
    <3>2. /\ DOMAIN journal = 1..n /\ DOMAIN journal' = 1..(n + 1) /\ n \in Nat
          /\ \A i \in 1..n : journal'[i] = journal[i]
          /\ journal'[n + 1] = Event("execution_interrupted", NoGen)
      BY <2>0, <2>3, <3>1, AppendFacts
    <3> HIDE DEF n
    <3> QED BY <1>2, <2>3, <3>2 DEF JournalInv, Event
  <2>4. CASE Crash
    <3>1. PICK n \in synced..Len(journal) : journal' = SubSeq(journal, 1, n)
      BY <2>4 DEF Crash
    <3>2. n \in 0..Len(journal)
      BY <1>2, <3>1 DEF TypeInv, TypeOK
    <3>3. /\ DOMAIN journal' = 1..n /\ DOMAIN journal = 1..Len(journal)
          /\ \A i \in 1..n : journal'[i] = journal[i]
      BY <2>0, <3>1, <3>2, PrefixFacts
    <3>4. \A i \in DOMAIN journal' : i \in DOMAIN journal /\ journal'[i] = journal[i]
      BY <3>2, <3>3
    <3> QED BY <1>2, <2>4, <3>4 DEF JournalInv, Crash
  <2> QED BY <1>2, <2>1, <2>2, <2>3, <2>4, JournalStep
<1> QED BY <1>1, <1>2, TypeInductive, LifeInductive, PTL DEF Spec

\* An accepted stop request decides the outcome, in every interleaving of the
\* phases the operation publishes, stops, checkpoints, shutdown and crashes.
THEOREM StopDecides == Spec => []AcceptedStopDecidesOutcome
<1>1. LifeInv /\ JournalInv => AcceptedStopDecidesOutcome
  BY DEF LifeInv, FieldInv, JournalInv, AcceptedStopDecidesOutcome
<1> QED BY <1>1, LifeInductive, JournalInductive, PTL

\* An interruption is the last lifecycle fact of a journal, across any number
\* of host restarts.
THEOREM InterruptionIsLast == Spec => []InterruptionEndsLifecycle
<1>1. JournalInv => InterruptionEndsLifecycle
  BY DEF JournalInv
<1> QED BY <1>1, JournalInductive, PTL

-----------------------------------------------------------------------------
\* The attempt implements the lifecycle it promises: each step of its threads
\* is one step of AttemptLifecycle or leaves it alone.

lifeOf == IF state \in LiveStates THEN "live" ELSE state

LEMMA LifecycleStep ==
  ASSUME TypeInv, LifeInv, [Next]_vars
  PROVE  \/ UNCHANGED <<lifeOf, stop # "none", done>>
         \/ lifeOf = "idle" /\ lifeOf' = "live" /\ UNCHANGED <<stop # "none", done>>
         \/ lifeOf # "idle" /\ (stop # "none")' /\ UNCHANGED <<lifeOf, done>>
         \/ /\ lifeOf = "live" /\ UNCHANGED <<stop # "none", done>>
            /\ lifeOf' \in IF stop # "none" THEN {"stopped"} ELSE {"completed", "failed"}
         \/ lifeOf # "idle" /\ ~done /\ lifeOf' = "interrupted" /\ UNCHANGED <<stop # "none", done>>
         \/ lifeOf \in TerminalStates /\ ~done /\ done' /\ UNCHANGED <<lifeOf, stop # "none">>
         \/ lifeOf' = "idle" /\ ~(stop # "none")' /\ ~done'
<1> USE DEF TypeInv, TypeOK, LifeInv, FieldInv, lifeOf
<1>1. CASE Start \/ Transition
  BY <1>1, PhasesFacts DEF Start, Transition, Free, LiveStates, TerminalStates
<1>2. CASE RequestStop \/ SupStop
  BY <1>2 DEF RequestStop, SupStop, AcceptStop, Stronger, Free, LiveStates
<1>3. CASE ControllerStop
  BY <1>3 DEF ControllerStop, Stronger, HolderInv, LiveStates, TerminalStates
<1>4. CASE OperationEnds \/ Close \/ SupSelect \/ SupWait \/ CommitCheckpoint
              \/ \E g \in Generations : HookProject(g)
  BY <1>4 DEF OperationEnds, Close, SupSelect, SupWait, CommitCheckpoint, HookProject, Free
<1>5. CASE Decide
  BY <1>5 DEF Decide, Free, LiveStates
<1>6. CASE Release
  BY <1>6 DEF Release, LiveStates, TerminalStates
<1>7. CASE MarkInterrupted
  BY <1>7 DEF MarkInterrupted, Free, LiveStates
<1>8. CASE Write \/ WriteFails
  BY <1>8 DEF Write, WriteManifest, WriteJournal, WriteGraph, WriteRef, Written, WriteFails
<1>9. CASE Crash
  BY <1>9 DEF Crash, LiveStates
<1>10. CASE Reconcile \/ ReconcileManifest \/ UNCHANGED vars
  BY <1>10 DEF Reconcile, ReconcileManifest, vars, memory
<1> QED BY <1>1, <1>2, <1>3, <1>4, <1>5, <1>6, <1>7, <1>8, <1>9, <1>10 DEF Next, Write

THEOREM LifecycleRefined == Spec => ImplementsLifecycle
<1>1. Init => Lifecycle!Init
  BY DEF Init, Lifecycle!Init, LiveStates
<1>2. ASSUME TypeInv, LifeInv, [Next]_vars PROVE [Lifecycle!Next]_(Lifecycle!lifecycle)
  <2>1. TerminalStates = Lifecycle!Outcomes
    BY DEF TerminalStates, Lifecycle!Outcomes
  <2> QED BY <1>2, <2>1, LifecycleStep DEF lifeOf, Lifecycle!Next, Lifecycle!lifecycle, Lifecycle!Begin,
             Lifecycle!Ask, Lifecycle!End, Lifecycle!Interrupt, Lifecycle!Release, Lifecycle!Forget
<1> QED BY <1>1, <1>2, TypeInductive, LifeInductive, PTL DEF Spec, ImplementsLifecycle, Lifecycle!Spec

-----------------------------------------------------------------------------
\* What is announced is durable: the order of the writes.

\* The durable part of a journal is never changed, and only grows.
LEMMA SyncedStep ==
  ASSUME TypeInv, [Next]_vars
  PROVE  synced \in Nat /\ (synced' = synced \/ synced' = Len(journal'))
<1>6. synced \in Nat
  BY DEF TypeInv, TypeOK
<1>1. CASE Write
  BY <1>1, <1>6 DEF Write, WriteManifest, WriteJournal, WriteGraph, WriteRef, PutManifest, PutGraph, PutRef
<1>2. CASE WriteFails
  BY <1>2, <1>6 DEF WriteFails, disk, PutManifest, PutGraph, PutRef
<1>3. CASE Crash \/ Reconcile \/ ReconcileManifest
  BY <1>3, <1>6 DEF Crash, Reconcile, ReconcileManifest
<1>4. CASE UNCHANGED vars
  BY <1>4, <1>6 DEF vars, disk
<1>5. CASE ~(Write \/ WriteFails \/ Crash \/ Reconcile \/ ReconcileManifest \/ UNCHANGED vars)
  BY <1>5, <1>6 DEF Next, Write, Start, Transition, RequestStop, ControllerStop, OperationEnds, Decide, Close,
              Release, HookProject, CommitCheckpoint, SupSelect, SupStop, SupWait, MarkInterrupted, disk
<1> QED BY <1>1, <1>2, <1>3, <1>4, <1>5

LEMMA DurableStays ==
  ASSUME TypeInv, TypeInv', [Next]_vars
  PROVE  /\ synced <= synced' /\ synced \in Nat /\ synced' \in Nat
         /\ \A i \in 1..synced : journal'[i] = journal[i]
<1> DEFINE n == Len(journal)
<1>1. /\ journal \in Seq(Events) /\ n \in Nat /\ synced \in 0..n
      /\ journal' \in Seq(Events) /\ synced' \in 0..Len(journal') /\ Len(journal') \in Nat
  BY DEF TypeInv, TypeOK
<1>2. ASSUME NEW e \in Events, journal' = Append(journal, e)
      PROVE  Len(journal') = n + 1 /\ \A i \in 1..n : journal'[i] = journal[i]
  BY <1>1, <1>2, AppendFacts
<1>3. EventAt(lock) \in Events /\ Event("execution_interrupted", NoGen) \in Events
  BY EventAtType DEF TypeInv, Event, Events, EventTypes
<1>4. CASE Crash
  <2>1. PICK m \in synced..n : journal' = SubSeq(journal, 1, m)
    BY <1>4 DEF Crash
  <2>2. \A i \in 1..m : journal'[i] = journal[i]
    BY <1>1, <2>1, PrefixFacts
  <2>3. synced' = synced
    BY <1>4 DEF Crash
  <2> HIDE DEF n
  <2> QED BY <1>1, <2>1, <2>2, <2>3
<1>5. CASE journal' = journal
  BY <1>1, <1>5, SyncedStep
<1>6. CASE \E e \in Events : journal' = Append(journal, e)
  <2>1. Len(journal') = n + 1 /\ \A i \in 1..n : journal'[i] = journal[i]
    BY <1>2, <1>6
  <2>2. synced' = synced \/ synced' = n + 1
    BY <2>1, SyncedStep
  <2> HIDE DEF n
  <2> QED BY <1>1, <2>1, <2>2
<1> QED BY <1>3, <1>4, <1>5, <1>6, JournalStep

\* What is durable after a step.
NextDurable(e) == \E i \in 1..synced' : journal'[i] = e

LEMMA FactsStay ==
  ASSUME TypeInv, TypeInv', [Next]_vars
  PROVE  /\ Started => Started'
         /\ \A e \in Events : Durable(e) => NextDurable(e)
<1>1. \A i \in 1..synced : i \in 1..synced' /\ journal'[i] = journal[i]
  BY DurableStays
<1> QED BY <1>1 DEF Started, Durable, NextDurable

\* An event that is journaled, behind no partial line, is durable.
LEMMA JournaledIsDurable ==
  ASSUME TypeInv, ~torn, WriteJournal, lock # "transition_journal"
  PROVE  NextDurable(EventAt(lock))
<1> DEFINE n == Len(journal)
<1>1. EventAt(lock) \in Events /\ journal \in Seq(Events) /\ n \in Nat
  BY EventAtType DEF TypeInv, TypeOK
<1>2. journal' = Append(journal, EventAt(lock)) /\ synced' = Len(journal')
  BY DEF WriteJournal, PutEvent, AppendLine
<1>3. Len(journal') = n + 1 /\ journal'[n + 1] = EventAt(lock)
  BY <1>1, <1>2, AppendFacts
<1> HIDE DEF n
<1>4. n + 1 \in 1..synced'
  BY <1>1, <1>2, <1>3
<1> QED BY <1>3, <1>4 DEF NextDurable

\* The parts of CheckpointRecoverable, as facts that stay.
LEMMA RecoverableParts ==
  CheckpointRecoverable <=>
    (manifest.ckpt # NoGen =>
       manifest.ckpt \in graphs /\ Started /\ (faults = 0 => Committed(manifest.ckpt)))
  BY DEF CheckpointRecoverable, Started, Committed, Durable

LEMMA CommittedStays ==
  ASSUME TypeInv, TypeInv', [Next]_vars, NEW g \in Generations \cup {NoGen}, Committed(g)
  PROVE  NextDurable(Event("checkpoint_committed", g))
<1>1. Event("checkpoint_committed", g) \in Events
  BY DEF Event, Events, EventTypes
<1> QED BY <1>1, FactsStay DEF Committed, Durable, NextDurable

\* A reference that stays valid: its manifest entry is kept, or was just written.
LEMMA RecoverableStays ==
  ASSUME TypeInv, TypeInv', LifeInv, OrderInv, [Next]_vars,
         graphs \subseteq graphs', faults' = 0 => faults = 0,
         manifest'.ckpt = manifest.ckpt \/ (lock = "commit_ref" /\ manifest'.ckpt = hook)
  PROVE  CheckpointRecoverable'
<1>1. manifest.ckpt \in Generations \cup {NoGen} /\ hook \in Generations \cup {NoGen}
  BY DEF TypeInv, TypeOK
<1>2. manifest'.ckpt # NoGen =>
        manifest'.ckpt \in graphs /\ Started /\ (faults = 0 => Committed(manifest'.ckpt))
  <2>1. CASE manifest'.ckpt = manifest.ckpt
    BY <2>1, RecoverableParts DEF OrderInv
  <2>2. CASE lock = "commit_ref" /\ manifest'.ckpt = hook
    BY <2>2 DEF OrderInv, LifeInv, FieldInv, HolderInv
  <2> QED BY <2>1, <2>2
<1>3. manifest'.ckpt # NoGen =>
        manifest'.ckpt \in graphs' /\ Started' /\ (faults' = 0 => NextDurable(Event("checkpoint_committed", manifest'.ckpt)))
  <2>1. manifest'.ckpt \in Generations \cup {NoGen}
    BY <1>1
  <2>2. Committed(manifest'.ckpt) => NextDurable(Event("checkpoint_committed", manifest'.ckpt))
    BY <2>1, CommittedStays
  <2> QED BY <1>2, <2>2, FactsStay
<1> QED BY <1>3 DEF CheckpointRecoverable, Started, NextDurable

LEMMA OrderInductive == Spec => []OrderInv
<1>1. Init => OrderInv
  BY DEF Init, OrderInv, CheckpointRecoverable, NoManifest
<1>2. ASSUME TypeInv, TypeInv', LifeInv, OrderInv, [Next]_vars PROVE OrderInv'
  <2> USE <1>2
  <2>0. hook \in Generations \cup {NoGen} /\ lock \in Points \cup {"free"} /\ faults \in Nat
    BY DEF TypeInv, TypeOK
  \* Steps that write nothing: they take the lock for a critical section, or go
  \* on beside its holder.
  <2>1. ASSUME UNCHANGED <<disk, host, faults>>, worker' # "none" => worker # "none",
               state' = "idle" => state = "idle",
               \/ lock' \notin {"start_manifest", "start_journal", "commit_journal", "commit_ref"}
               \/ lock' = "start_manifest" /\ state = "idle"
               \/ lock' = lock /\ (hook' = hook \/ hook = NoGen)
        PROVE  OrderInv'
    <3>1. CheckpointRecoverable' /\ (Started => Started')
      BY <2>1, RecoverableStays, FactsStay DEF disk
    <3>2. lock' \in {"commit_journal", "commit_ref"} => lock' = lock /\ hook' = hook
      BY <2>1 DEF LifeInv, HolderInv
    <3>3. Committed(hook) => NextDurable(Event("checkpoint_committed", hook))
      BY <2>0, CommittedStays
    <3> QED BY <2>1, <3>1, <3>2, <3>3 DEF OrderInv, disk, Committed, Durable, NextDurable
  <2>2. CASE Start \/ Transition
    <3>1. ASSUME Transition PROVE Phases[step + 1] # "idle"
      <4>1. step + 1 \in 1..6
        BY <3>1, PhasesFacts DEF TypeInv, TypeOK, Transition
      <4> QED BY <4>1, PhasesFacts DEF LiveStates
    <3> QED BY <2>1, <2>2, <3>1 DEF Start, Transition, Free
  <2>3. CASE RequestStop \/ ControllerStop
    BY <2>1, <2>3 DEF RequestStop, ControllerStop, AcceptStop, Free
  <2>4. CASE OperationEnds \/ Decide \/ Close \/ Release
    BY <2>1, <2>4 DEF OperationEnds, Decide, Close, Release, Free
  <2>5. CASE (\E g \in Generations : HookProject(g)) \/ CommitCheckpoint
    BY <2>1, <2>5 DEF HookProject, CommitCheckpoint, Free
  <2>6. CASE SupSelect \/ SupStop \/ SupWait \/ MarkInterrupted
    BY <2>1, <2>6 DEF SupSelect, SupStop, SupWait, MarkInterrupted, AcceptStop, Free
  \* The holder of the lock writes.
  <2>7. CASE WriteManifest
    <3>1. /\ lock \in ManifestPoints /\ UNCHANGED <<journal, torn, synced, graphs, faults, host, state>>
          /\ manifest'.ckpt = manifest.ckpt /\ host = "up" /\ Advance
      BY <2>7 DEF WriteManifest, PutManifest, LifecycleManifest, Written
    <3>2. worker' # "none" => worker # "none"
      BY <3>1 DEF Advance, Leave, NextWrite, WorkerAfter, ManifestPoints, LifeInv, HolderInv
    <3>3. lock' \notin {"commit_journal", "commit_ref"}
      BY <3>1 DEF Advance, Leave, NextWrite, ManifestPoints
    <3>4. state = "idle" \/ lock' \in {"start_manifest", "start_journal"} => lock = "start_manifest"
      BY <3>1 DEF Advance, Leave, NextWrite, ManifestPoints, LifeInv, FieldInv, HolderInv, LiveStates, TerminalStates
    <3>5. CheckpointRecoverable' /\ (Started => Started')
      BY <3>1, RecoverableStays, FactsStay
    <3> QED BY <3>1, <3>2, <3>3, <3>4, <3>5 DEF OrderInv
  <2>8. CASE WriteJournal
    <3>1. /\ lock \in JournalPoints /\ UNCHANGED <<graphs, manifest, faults, host, state>>
          /\ host = "up" /\ Advance /\ torn' = FALSE
      BY <2>8 DEF WriteJournal, PutEvent, AppendLine, Written
    <3>2. worker' # "none" => Started'
      <4>1. CASE lock = "start_journal"
        <5>1. NextDurable(EventAt(lock))
          BY <2>8, <3>1, <4>1, JournaledIsDurable DEF OrderInv
        <5>2. EventAt(lock).type = "execution_started"
          BY <4>1 DEF EventAt, Event
        <5> QED BY <5>1, <5>2 DEF Started, NextDurable
      <4>2. CASE lock # "start_journal"
        <5>1. worker' # "none" => worker # "none"
          BY <3>1, <4>2 DEF Advance, Leave, NextWrite, WorkerAfter, JournalPoints, LifeInv, HolderInv
        <5> QED BY <5>1, FactsStay DEF OrderInv
      <4> QED BY <4>1, <4>2
    <3>3. lock' \in {"commit_journal", "commit_ref"} => lock = "commit_journal" /\ lock' = "commit_ref" /\ hook' = hook
      BY <3>1 DEF Advance, Leave, NextWrite, JournalPoints
    <3>4. faults = 0 /\ lock = "commit_journal" => NextDurable(Event("checkpoint_committed", hook))
      BY <2>8, <3>1, JournaledIsDurable DEF OrderInv, EventAt
    <3>5. state # "idle" /\ lock' \notin {"start_manifest", "start_journal"}
      BY <3>1 DEF Advance, Leave, NextWrite, JournalPoints, LifeInv, FieldInv, HolderInv, LiveStates, TerminalStates
    <3>6. CheckpointRecoverable'
      BY <3>1, RecoverableStays
    <3> QED BY <3>1, <3>2, <3>3, <3>4, <3>5, <3>6 DEF OrderInv, Committed, Durable, NextDurable
  <2>9. CASE WriteGraph \/ WriteRef
    <3>1. /\ lock \in {"commit_graph", "commit_ref"} /\ UNCHANGED <<journal, torn, synced, faults, host, state>>
          /\ host = "up" /\ Advance /\ graphs \subseteq graphs' /\ (lock = "commit_graph" => hook \in graphs')
          /\ manifest'.ckpt = manifest.ckpt \/ (lock = "commit_ref" /\ manifest'.ckpt = hook)
      <4>1. manifest \in [state : States \cup {"none"}, ckpt : Generations \cup {NoGen}]
        BY DEF TypeInv, TypeOK
      <4>2. CASE WriteGraph
        <5>1. lock = "commit_graph" /\ graphs' = graphs \cup {hook} /\ UNCHANGED <<journal, torn, synced, manifest>>
          BY <4>2 DEF WriteGraph, PutGraph
        <5>2. host = "up" /\ Advance /\ UNCHANGED <<faults, host, state>>
          BY <4>2 DEF WriteGraph, Written
        <5>3. graphs \subseteq graphs' /\ hook \in graphs' /\ manifest'.ckpt = manifest.ckpt
          BY <5>1
        <5> QED BY <5>1, <5>2, <5>3
      <4>3. CASE WriteRef
        BY <4>1, <4>3 DEF WriteRef, PutRef, CheckpointManifest, Written
      <4> QED BY <2>9, <4>2, <4>3
    <3>2. /\ worker' = worker
          /\ lock' \in {"free", "commit_journal"} /\ (lock' = "commit_journal" => hook' = hook /\ lock = "commit_graph")
      BY <3>1 DEF Advance, Leave, NextWrite, WorkerAfter
    <3>3. state # "idle"
      BY <3>1 DEF LifeInv, FieldInv, HolderInv, LiveStates
    <3>4. CheckpointRecoverable' /\ (Started => Started')
      BY <3>1, RecoverableStays, FactsStay
    <3> QED BY <3>1, <3>2, <3>3, <3>4 DEF OrderInv
  <2>10. CASE WriteFails
    <3>1. /\ lock' = "free" /\ faults' # 0 /\ UNCHANGED <<host, state>> /\ lock # "free"
          /\ (worker' # "none" => worker # "none") /\ graphs \subseteq graphs'
          /\ manifest'.ckpt = manifest.ckpt \/ (lock = "commit_ref" /\ manifest'.ckpt = hook)
      <4>1. graphs \subseteq graphs'
            /\ (manifest'.ckpt = manifest.ckpt \/ (lock = "commit_ref" /\ manifest'.ckpt = hook))
        <5>1. manifest \in [state : States \cup {"none"}, ckpt : Generations \cup {NoGen}]
          BY DEF TypeInv, TypeOK
        <5>2. CASE PutManifest
          BY <5>2 DEF PutManifest, LifecycleManifest
        <5>3. CASE PutGraph
          <6>1. graphs' = graphs \cup {hook} /\ manifest' = manifest
            BY <5>3 DEF PutGraph
          <6> QED BY <6>1
        <5>4. CASE PutRef
          BY <5>1, <5>4 DEF PutRef, CheckpointManifest
        <5>5. CASE UNCHANGED <<graphs, manifest>>
          BY <5>5
        <5> QED BY <2>10, <5>2, <5>3, <5>4, <5>5 DEF WriteFails, disk, PutEvent
      <4>2. lock' = "free" /\ faults' = faults + 1 /\ UNCHANGED <<host, state>> /\ lock # "free"
        BY <2>10 DEF WriteFails, Leave
      <4>3. worker' # "none" => worker # "none"
        BY <2>10 DEF WriteFails, Leave, WorkerAfter, LifeInv, HolderInv
      <4> QED BY <2>0, <4>1, <4>2, <4>3
    <3>2. state # "idle"
      BY <2>0, <3>1 DEF LifeInv, FieldInv, HolderInv, LiveStates, TerminalStates, Points, ManifestPoints, JournalPoints
    <3>3. Started => Started'
      BY FactsStay
    <3>4. CheckpointRecoverable'
      <4>1. graphs \subseteq graphs' /\ (faults' = 0 => faults = 0)
        BY <3>1
      <4> QED BY <3>1, <4>1, RecoverableStays
    <3> QED BY <3>1, <3>2, <3>3, <3>4 DEF OrderInv
  \* Deaths and the next host.
  <2>11. CASE Crash
    <3>1. CheckpointRecoverable'
      BY <2>11, RecoverableStays DEF Crash
    <3> QED BY <2>11, <3>1 DEF Crash, OrderInv
  <2>12. CASE Reconcile \/ ReconcileManifest
    <3>1. /\ UNCHANGED <<graphs, faults, memory>> /\ manifest'.ckpt = manifest.ckpt /\ host # "up" /\ host' # "up"
      <4>1. manifest \in [state : States \cup {"none"}, ckpt : Generations \cup {NoGen}]
        BY DEF TypeInv, TypeOK
      <4> QED BY <2>12, <4>1 DEF Reconcile, ReconcileManifest
    <3>2. CheckpointRecoverable'
      BY <3>1, RecoverableStays
    <3>3. worker' = "none" /\ lock' = "free"
      BY <3>1 DEF memory, LifeInv, FieldInv
    <3> QED BY <3>1, <3>2, <3>3 DEF OrderInv
  <2>13. CASE UNCHANGED vars
    BY <2>1, <2>13 DEF vars, memory
  <2> QED BY <2>2, <2>3, <2>4, <2>5, <2>6, <2>7, <2>8, <2>9, <2>10, <2>11, <2>12, <2>13 DEF Next
<1> QED BY <1>1, <1>2, TypeInductive, LifeInductive, PTL DEF Spec

\* What a step must leave of the outcome: each part held before and is left
\* alone, or the step has just made it true.
LEMMA OutcomeStays ==
  ASSUME TypeInv, TypeInv', OutcomeInv, [Next]_vars,
         host' = host, faults' = 0 => faults = 0,
         state' = "interrupted" /\ lock' # "interrupt_journal"
           => \/ state = "interrupted" /\ lock # "interrupt_journal"
              \/ NextDurable(Event("execution_interrupted", NoGen)),
         state' # "interrupted" /\ worker' \in {"decided", "closed", "exited"}
           => \/ state' = state /\ worker \in {"decided", "closed", "exited"}
              \/ NextDurable(Event(OutcomeOf(state'), NoGen)),
         worker' \in {"closed", "exited"} /\ lock' \notin {"interrupt_journal", "interrupt_manifest"}
           => \/ /\ state' = state /\ manifest'.state = manifest.state /\ worker \in {"closed", "exited"}
                 /\ lock \notin {"interrupt_journal", "interrupt_manifest"}
              \/ manifest'.state = state'
  PROVE  OutcomeInv'
<1> SUFFICES ASSUME faults = 0, host = "up"
             PROVE  /\ state' = "interrupted" /\ lock' # "interrupt_journal"
                         => NextDurable(Event("execution_interrupted", NoGen))
                    /\ state' # "interrupted" /\ worker' \in {"decided", "closed", "exited"}
                         => NextDurable(Event(OutcomeOf(state'), NoGen))
                    /\ worker' \in {"closed", "exited"} /\ lock' \notin {"interrupt_journal", "interrupt_manifest"}
                         => manifest'.state = state'
  BY DEF OutcomeInv, Durable, NextDurable
<1>1. Event("execution_interrupted", NoGen) \in Events /\ Event(OutcomeOf(state), NoGen) \in Events
  BY DEF Event, Events, EventTypes, OutcomeEvents, OutcomeOf
<1>2. state = "interrupted" /\ lock # "interrupt_journal" => NextDurable(Event("execution_interrupted", NoGen))
  BY <1>1, FactsStay DEF OutcomeInv
<1>3. state # "interrupted" /\ worker \in {"decided", "closed", "exited"}
        => NextDurable(Event(OutcomeOf(state), NoGen))
  BY <1>1, FactsStay DEF OutcomeInv
<1> QED BY <1>2, <1>3 DEF OutcomeInv

LEMMA OutcomeInductive == Spec => []OutcomeInv
<1>1. Init => OutcomeInv
  BY DEF Init, OutcomeInv
<1>2. ASSUME TypeInv, TypeInv', LifeInv, OrderInv, OutcomeInv, [Next]_vars PROVE OutcomeInv'
  <2> USE <1>2
  <2>0. lock \in Points \cup {"free"} /\ faults \in Nat
    BY DEF TypeInv, TypeOK
  \* The fields alone.
  <2>1. CASE Start \/ Transition
    <3>1. ASSUME Transition PROVE Phases[step + 1] # "interrupted"
      <4>1. step + 1 \in 1..6
        BY <3>1, PhasesFacts DEF TypeInv, TypeOK, Transition
      <4> QED BY <4>1, PhasesFacts DEF LiveStates
    <3>2. CASE Start
      BY <3>2, OutcomeStays DEF Start, Free, disk, LifeInv, FieldInv, TerminalStates
    <3>3. CASE Transition
      BY <3>1, <3>3, OutcomeStays DEF Transition, Free, disk
    <3> QED BY <2>1, <3>2, <3>3
  <2>2. CASE RequestStop \/ SupStop
    BY <2>2, OutcomeStays DEF RequestStop, SupStop, AcceptStop, Free, disk, LifeInv, FieldInv, LiveStates, TerminalStates
  <2>3. CASE ControllerStop \/ SupSelect \/ SupWait \/ \E g \in Generations : HookProject(g)
    BY <2>3, OutcomeStays DEF ControllerStop, SupSelect, SupWait, HookProject, disk
  <2>4. CASE OperationEnds \/ Close \/ Release \/ CommitCheckpoint
    BY <2>4, OutcomeStays DEF OperationEnds, Close, Release, CommitCheckpoint, Free, disk
  <2>5. CASE Decide
    BY <2>5, OutcomeStays DEF Decide, Free, disk
  <2>6. CASE MarkInterrupted
    BY <2>6, OutcomeStays DEF MarkInterrupted, Free, disk
  \* The holder of the lock writes.
  <2>7. CASE WriteManifest
    <3>1. /\ lock \in ManifestPoints /\ UNCHANGED <<faults, host, state>>
          /\ manifest'.state = state /\ Advance
      BY <2>7 DEF WriteManifest, PutManifest, LifecycleManifest, Written
    <3>2. worker' # worker => lock = "close_manifest"
      BY <3>1 DEF Advance, Leave, NextWrite, WorkerAfter, ManifestPoints, LifeInv, HolderInv
    <3> QED BY <3>1, <3>2, OutcomeStays DEF ManifestPoints, LifeInv, HolderInv
  <2>8. CASE WriteJournal
    <3>1. /\ lock \in JournalPoints /\ UNCHANGED <<manifest, faults, host, state>> /\ Advance /\ host = "up"
      BY <2>8 DEF WriteJournal, PutEvent, Written
    <3>2. faults = 0 /\ lock # "transition_journal" => NextDurable(EventAt(lock))
      BY <2>8, <3>1, JournaledIsDurable DEF OrderInv
    <3>3. CASE lock = "interrupt_journal"
      <4>1. lock' = "interrupt_manifest" /\ worker' = worker /\ state = "interrupted"
        BY <3>1, <3>3 DEF Advance, NextWrite, LifeInv, HolderInv
      <4>2. faults = 0 => NextDurable(Event("execution_interrupted", NoGen))
        BY <3>2, <3>3 DEF EventAt
      <4> QED BY <3>1, <3>3, <4>1, <4>2, OutcomeStays DEF OutcomeInv
    <3>4. CASE lock = "decide_journal"
      <4>1. lock' = "free" /\ worker' = "decided" /\ state # "interrupted"
        BY <3>1, <3>4 DEF Advance, Leave, NextWrite, WorkerAfter, LifeInv, HolderInv
      <4>2. faults = 0 => NextDurable(Event(OutcomeOf(state), NoGen))
        BY <3>2, <3>4 DEF EventAt
      <4> QED BY <3>1, <3>4, <4>1, <4>2, OutcomeStays DEF OutcomeInv
    <3>5. CASE lock \notin {"interrupt_journal", "decide_journal"}
      <4>1. worker' # worker => worker' \in {"operation", "none", "raised"}
        BY <3>1, <3>5 DEF Advance, Leave, NextWrite, WorkerAfter, JournalPoints
      <4>2. lock # "interrupt_manifest"
        BY <3>1 DEF JournalPoints
      <4> QED BY <3>1, <3>5, <4>1, <4>2, OutcomeStays
    <3> QED BY <3>3, <3>4, <3>5
  <2>9. CASE WriteGraph \/ WriteRef
    <3>1. lock \in {"commit_graph", "commit_ref"} /\ UNCHANGED <<faults, host, state>> /\ Advance
      BY <2>9 DEF WriteGraph, PutGraph, WriteRef, PutRef, Written
    <3>2. worker' = worker
      BY <3>1 DEF Advance, Leave, NextWrite, WorkerAfter
    <3>3. manifest'.state = manifest.state
      BY <2>9 DEF WriteGraph, PutGraph, WriteRef, PutRef, CheckpointManifest, TypeInv, TypeOK
    <3> QED BY <3>1, <3>2, <3>3, OutcomeStays
  \* A failed write, deaths and the next host.
  <2>10. CASE WriteFails
    BY <2>0, <2>10 DEF WriteFails, OutcomeInv
  <2>11. CASE Crash \/ Reconcile \/ ReconcileManifest
    BY <2>11 DEF Crash, Reconcile, ReconcileManifest, OutcomeInv
  <2>12. CASE UNCHANGED vars
    BY <2>12, OutcomeStays DEF vars, memory, disk
  <2> QED BY <2>1, <2>2, <2>3, <2>4, <2>5, <2>6, <2>7, <2>8, <2>9, <2>10, <2>11, <2>12 DEF Next
<1> QED BY <1>1, <1>2, TypeInductive, LifeInductive, OrderInductive, PTL DEF Spec

\* What the manifest refers to and what a released waiter was told can be read
\* back at every instant, after every crash and failed write (CheckpointStore,
\* _run's epilogue, mark_interrupted).
THEOREM AnnouncedSurvives == Spec => []AnnouncedIsDurable
<1>1. FieldInv /\ OrderInv /\ OutcomeInv => AnnouncedIsDurable
  <2> SUFFICES ASSUME FieldInv, OutcomeInv, done, lock = "free", faults = 0
               PROVE  DoneMeansDurable
    BY DEF AnnouncedIsDurable, DoneMeansDurable, OrderInv
  <2>1. worker = "exited" /\ host = "up" /\ state \in TerminalStates
    BY DEF FieldInv
  <2>2. manifest.state = state
    BY <2>1 DEF OutcomeInv
  <2>3. Durable(Event(IF state = "interrupted" THEN "execution_interrupted" ELSE OutcomeOf(state), NoGen))
    BY <2>1 DEF OutcomeInv
  <2>4. PICK i \in 1..synced :
          journal[i] = Event(IF state = "interrupted" THEN "execution_interrupted" ELSE OutcomeOf(state), NoGen)
    BY <2>3 DEF Durable
  <2>5. journal[i].type = IF state = "interrupted" THEN "execution_interrupted" ELSE OutcomeOf(state)
    BY <2>4 DEF Event
  <2> QED BY <2>1, <2>2, <2>5 DEF DoneMeansDurable
<1> QED BY <1>1, LifeInductive, OrderInductive, OutcomeInductive, PTL DEF LifeInv
=============================================================================
