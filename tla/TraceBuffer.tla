------------------------------- MODULE TraceBuffer -------------------------------
(***************************************************************************)
(* The write-behind buffer of an attempt's stream deltas: Agents append    *)
(* under its lock, a background thread flushes on an interval, a full      *)
(* batch is flushed by the append that fills it, and the terminal paths    *)
(* flush or close synchronously.  A flush holds the lock from taking the   *)
(* batch to the fsync, so it is one step, but it can fail anywhere.        *)
(* A record is its stream_sequence.                                        *)
(***************************************************************************)
EXTENDS Naturals, Sequences

CONSTANTS
  FlushAt,     \* records that force a flush
  MaxRecords,  \* bound: records appended
  MaxFailures  \* bound: failing flushes

ASSUME FlushAtAssumption == FlushAt \in Nat \ {0}
ASSUME TraceBoundsAssumption == MaxRecords \in Nat /\ MaxFailures \in Nat

VARIABLES
  pending,    \* _pending
  sequence,   \* _sequence
  committed,  \* _last_committed_sequence
  closed,     \* _closed; the stop event is set right after it
  error,      \* a background flush has failed
  flusher,    \* the thread: "none", "running" or "ended"
  closer,     \* close(): "idle", "joining", "returned" or "raised"
  lines,      \* the readable lines of the file
  torn,       \* the file ends in a partial line
  failures,   \* failed flushes so far ...
  tears,      \* ... that left a partial line
  drops       \* ... that lost their batch

file == <<lines, torn>>
ghosts == <<failures, tears, drops>>
bufferVars == <<pending, sequence, committed, closed, error, flusher, closer, file, ghosts>>

-----------------------------------------------------------------------------
TypeOK ==
  /\ pending \in Seq(Nat)
  /\ sequence \in Nat
  /\ committed \in 0..sequence
  /\ closed \in BOOLEAN
  /\ error \in BOOLEAN
  /\ flusher \in {"none", "running", "ended"}
  /\ closer \in {"idle", "joining", "returned", "raised"}
  /\ lines \in Seq(Nat)
  /\ torn \in BOOLEAN
  /\ failures \in Nat /\ tears \in Nat /\ drops \in Nat

BufferInit ==
  /\ pending = <<>> /\ sequence = 0 /\ committed = 0 /\ closed = FALSE /\ error = FALSE
  /\ flusher = "none" /\ closer = "idle"
  /\ lines = <<>> /\ torn = FALSE
  /\ failures = 0 /\ tears = 0 /\ drops = 0

-----------------------------------------------------------------------------
\* _flush_locked.

\* The first line behind a partial one is unreadable together with it.
Written(batch) == IF torn /\ batch # <<>> THEN Tail(batch) ELSE batch

FlushDone(batch) ==
  /\ pending' = <<>>
  /\ lines' = lines \o Written(batch)
  /\ torn' = (torn /\ batch = <<>>)
  /\ committed' = IF batch = <<>> THEN committed ELSE batch[Len(batch)]
  /\ UNCHANGED ghosts

\* The directory cannot be made: the batch was taken and is not put back.
FlushDrops(batch) ==
  /\ pending' = <<>>
  /\ drops' = drops + 1
  /\ UNCHANGED <<file, committed, tears>>

\* Mutant: only the records behind the ones that were written are kept.
FlushKeepsRest(batch) ==
  /\ \E k \in 0..Len(batch) :
       /\ pending' = SubSeq(batch, k + 2, Len(batch))
       /\ lines' = lines \o Written(SubSeq(batch, 1, k))
       /\ torn' = (torn /\ k = 0)
  /\ UNCHANGED <<committed, tears, drops>>

\* open, write or fsync fails behind k records and perhaps a part of the next:
\* the whole batch is kept.
FlushKeeps(batch) ==
  /\ pending' = batch
  /\ \E k \in 0..Len(batch) :
       /\ lines' = lines \o Written(SubSeq(batch, 1, k))
       /\ \/ torn' = (torn /\ k = 0) /\ UNCHANGED tears
          \/ k < Len(batch) /\ torn' = TRUE /\ tears' = tears + 1
  /\ UNCHANGED <<committed, drops>>

FlushFails(batch) ==
  /\ batch # <<>> /\ failures < MaxFailures
  /\ failures' = failures + 1
  /\ FlushDrops(batch) \/ FlushKeeps(batch)

-----------------------------------------------------------------------------
\* append: numbers the record, starts the thread, flushes a full batch.
AppendRecord ==
  LET batch == Append(pending, sequence + 1) IN
  /\ ~closed /\ sequence < MaxRecords
  /\ sequence' = sequence + 1
  /\ flusher' = IF flusher = "none" THEN "running" ELSE flusher
  /\ \/ /\ Len(batch) < FlushAt
        /\ pending' = batch
        /\ UNCHANGED <<committed, file, ghosts>>
     \/ /\ Len(batch) >= FlushAt
        /\ FlushDone(batch) \/ FlushFails(batch)
  /\ UNCHANGED <<closed, error, closer>>

\* Mutant: the thread gives up at its first failure.
TickUntilError ==
  /\ flusher = "running" /\ ~closed /\ ~error
  /\ \/ FlushDone(pending) /\ UNCHANGED error
     \/ FlushFails(pending) /\ error' = TRUE
  /\ UNCHANGED <<sequence, closed, flusher, closer>>

\* _run: a flush every interval; the first failure and the last are the same.
Tick ==
  /\ flusher = "running" /\ ~closed
  /\ \/ FlushDone(pending) /\ UNCHANGED error
     \/ FlushFails(pending) /\ error' = TRUE
  /\ UNCHANGED <<sequence, closed, flusher, closer>>

\* flush, as mark_interrupted calls it.
Flush ==
  /\ FlushDone(pending) \/ FlushFails(pending)
  /\ UNCHANGED <<sequence, closed, error, flusher, closer>>

\* close: a failed flush raises and leaves the buffer open.
Close ==
  /\ closer = "idle"
  /\ \/ FlushDone(pending) /\ closed' = TRUE /\ closer' = "joining"
     \/ FlushFails(pending) /\ closer' = "raised" /\ UNCHANGED closed
  /\ UNCHANGED <<sequence, error, flusher>>

\* The thread sees the stop event.
FlusherEnds ==
  /\ flusher = "running" /\ closed
  /\ flusher' = "ended"
  /\ UNCHANGED <<pending, sequence, committed, closed, error, closer, file, ghosts>>

\* The bounded join is over, with the thread gone or not.
Joined ==
  /\ closer = "joining"
  /\ closer' = IF error THEN "raised" ELSE "returned"
  /\ UNCHANGED <<pending, sequence, committed, closed, error, flusher, file, ghosts>>

BufferNext == AppendRecord \/ Tick \/ Flush \/ Close \/ FlusherEnds \/ Joined

BufferSpec == BufferInit /\ [][BufferNext]_bufferVars

(* The interval timer keeps waking the thread; a failing disk recovers, so  *)
(* a flush that is tried again and again succeeds (failures are bounded).  *)
FairBufferSpec == BufferSpec /\ WF_bufferVars(Tick)
=============================================================================
