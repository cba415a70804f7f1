-------------------------- MODULE ExecutionAttemptProps --------------------------
(* What makes one ExecutionAttempt correct.                                *)
EXTENDS ExecutionAttempt

HasEvent(types) == \E i \in DOMAIN journal : journal[i].type \in types

\* A stop request that reached the journal decides the outcome: whatever
\* phases overwrite STOPPING afterwards, the worker never reports success or
\* failure (request_stop, transition and _run race for the lock).
AcceptedStopDecidesOutcome ==
  HasEvent({"stop_requested"}) => state \notin {"completed", "failed"}

\* Once an interruption is journaled the lifecycle is over: a late worker and a
\* late stop request add no lifecycle fact behind it, across host restarts too
\* (mark_interrupted, _run's check of INTERRUPTED, reconcile).  A hook that
\* passed live_view before may still commit a checkpoint.
InterruptionEndsLifecycle ==
  \A i, j \in DOMAIN journal :
    i < j /\ journal[i].type = "execution_interrupted"
      => journal[j].type \in {"execution_interrupted", "checkpoint_committed"}

\* A checkpoint the manifest names can be recovered from, at every instant and
\* after every crash and failed write: its run graph is on disk and the start
\* fact recovery reads is in the journal's durable part.  The commit that made
\* it valid is there as well unless a failed write tore the journal.
CheckpointRecoverable ==
  manifest.ckpt # NoGen =>
    /\ manifest.ckpt \in graphs
    /\ \E i \in 1..synced : journal[i].type = "execution_started"
    /\ faults = 0 => \E i \in 1..synced : journal[i] = Event("checkpoint_committed", manifest.ckpt)

\* Waiters are released only onto a durable outcome: with no failed write, once
\* wait() returns true the manifest shows the state the process shows and the
\* journal holds the event that says so, even when a deadline races the worker.
DoneMeansDurable ==
  done /\ lock = "free" /\ faults = 0 =>
    /\ state \in TerminalStates
    /\ manifest.state = state
    /\ \E i \in 1..synced :
         journal[i].type = IF state = "interrupted" THEN "execution_interrupted"
                                                    ELSE OutcomeOf(state)

\* What a checkpoint reference or a released waiter announces is on disk.
AnnouncedIsDurable == CheckpointRecoverable /\ DoneMeansDurable

\* _done is never lost: whatever the writes do, an operation that returned or
\* raised releases its waiters unless the host dies first.
WaitersReleased == worker \in {"returned", "raised"} ~> done \/ host # "up"

\* The shutdown supervisor's pass over an attempt ends, however the operation
\* behaves.
ShutdownEnds == sup = "selected" ~> sup \in {"finished", "raised"} \/ host # "up"

\* The attempt implements the lifecycle it promises.
Lifecycle == INSTANCE AttemptLifecycle WITH
  life <- IF state \in LiveStates THEN "live" ELSE state,
  asked <- stop # "none",
  released <- done
ImplementsLifecycle == Lifecycle!Spec

-----------------------------------------------------------------------------
\* The inductive invariant behind the theorems.

\* How the lifecycle fields agree with the program points of the threads.
FieldInv ==
  /\ host # "up" => /\ state = "idle" /\ lock = "free" /\ worker = "none"
                    /\ sup = "idle" /\ hook = NoGen /\ ~done
  /\ worker \in {"operation", "returned", "raised"} /\ lock # "decide_journal"
       => state \in LiveStates \cup {"interrupted"}
  /\ worker \in {"decided", "closed", "exited"} => state \in TerminalStates
  /\ done <=> worker = "exited"
  /\ sup \in {"selected", "waiting", "late"} => state # "idle"
  /\ hook # NoGen => worker = "operation" /\ step = Len(Phases) /\ lock # "transition_journal"

\* What the holder of the lock is writing about.
HolderInv ==
  /\ lock \in {"start_manifest", "start_journal"} => state = "queued" /\ worker = "none"
  /\ lock = "transition_journal" => state \in LiveStates /\ worker = "operation"
  /\ lock \in {"stop_journal", "stop_manifest", "sup_stop_journal", "sup_stop_manifest"}
       => state \in {"stopping", "force_stopping"} /\ stop # "none"
  /\ lock \in {"commit_graph", "commit_journal", "commit_ref"} => hook # NoGen
  /\ lock \in {"interrupt_journal", "interrupt_manifest"} => state = "interrupted"
  /\ lock = "decide_journal"
       => state \in {"completed", "failed", "stopped"} /\ worker \in {"returned", "raised"}
  /\ lock = "close_manifest" => worker = "decided"

\* How the journal bounds the lifecycle of the process that writes it.
JournalInv ==
  /\ host = "up" /\ HasEvent({"stop_requested"})
       => stop # "none" /\ state \notin {"idle", "completed", "failed"}
  /\ host = "up" /\ HasEvent({"execution_interrupted"}) => state = "interrupted"
  /\ InterruptionEndsLifecycle

LifeInv == FieldInv /\ HolderInv

\* What a reader of the journal's durable part finds, and goes on finding.
Durable(e) == \E i \in 1..synced : journal[i] = e
Started == \E i \in 1..synced : journal[i].type = "execution_started"
Committed(g) == Durable(Event("checkpoint_committed", g))

\* The order of writes behind a checkpoint reference: the start fact before any
\* worker, the payload before the event, the event before the reference.
OrderInv ==
  /\ host = "up" /\ (state = "idle" \/ lock \in {"start_manifest", "start_journal"})
       => journal = <<>> /\ ~torn
  /\ worker # "none" => Started
  /\ lock \in {"commit_journal", "commit_ref"} => hook \in graphs
  /\ faults = 0 /\ lock = "commit_ref" => Committed(hook)
  /\ faults = 0 /\ host = "up" => ~torn
  /\ CheckpointRecoverable

\* The outcome is durable before the worker says so, and the manifest agrees with
\* it but for the two writes of an interruption that comes later.
OutcomeInv ==
  faults = 0 /\ host = "up" =>
    /\ state = "interrupted" /\ lock # "interrupt_journal"
         => Durable(Event("execution_interrupted", NoGen))
    /\ state # "interrupted" /\ worker \in {"decided", "closed", "exited"}
         => Durable(Event(OutcomeOf(state), NoGen))
    /\ worker \in {"closed", "exited"} /\ lock \notin {"interrupt_journal", "interrupt_manifest"}
         => manifest.state = state

-----------------------------------------------------------------------------
\* What the repository says and the code does not do.

\* "Run operation and publish one mutually exclusive terminal outcome"
\* (_run's docstring): one process journals at most one terminal event.
OneTerminalOutcome ==
  crashes = 0 =>
    \A i, j \in DOMAIN journal :
      {journal[i].type, journal[j].type} \subseteq OutcomeEvents \cup {"execution_interrupted"} => i = j

\* "Mark every attempt the previous host left non-terminal as interrupted"
\* (reconcile_interrupted_attempts' docstring).
ReconcileLeavesNothingLive ==
  host = "reconciled" => manifest.state \notin LiveStates

\* "Appending one explicit execution_interrupted record and rewriting the
\* manifest makes the attempt terminal" (same docstring): the record can be read.
ReconciledFactIsReadable ==
  host = "reconciled" /\ manifest.state = "interrupted" =>
    HasEvent({"execution_interrupted"})
=============================================================================
