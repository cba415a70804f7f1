---------------------------- MODULE TraceBufferProps ----------------------------
(* What the stream buffer promises the reader of its file.                 *)
EXTENDS TraceBuffer

IsLine(n) == \E i \in DOMAIN lines : lines[i] = n

\* Whatever fails and is tried again, the buffer holds exactly the records behind
\* the last committed one, in order, unless a flush lost its batch.
PendingFollowsCommitted ==
  drops = 0 => /\ Len(pending) = sequence - committed
               /\ \A i \in DOMAIN pending : pending[i] = committed + i

\* A record reported as committed can be read, through any number of failed and
\* repeated flushes that left no partial line.
CommittedIsReadable ==
  drops = 0 /\ tears = 0 => ~torn /\ \A n \in 1..committed : IsLine(n)

\* The committed sequence splits the records: those up to it are in the file,
\* those behind it in the buffer (_flush_locked writes, then counts and clears).
TraceSplitsAtCommitted == PendingFollowsCommitted /\ CommittedIsReadable

\* "A hard kill therefore loses at most one flush window": as long as no flush
\* has failed less than one batch is only in memory.
LossIsOneWindow == failures = 0 => Len(pending) < FlushAt

\* Once the buffer is closed nothing is left in memory and nothing gets in.
ClosedIsFlushed == closed => pending = <<>>

\* A buffered record does not stay in memory: later flushes write what a failed
\* one kept, as long as the disk recovers.
RecordsLeaveMemory == pending # <<>> ~> pending = <<>>

-----------------------------------------------------------------------------
\* "Keep the records for the next attempt instead of dropping them"
\* (_flush_locked): a record that was appended is in the buffer or in the file.
NoRecordDropped ==
  tears = 0 =>
    \A n \in 1..sequence : IsLine(n) \/ \E i \in DOMAIN pending : pending[i] = n
=============================================================================
