------------------------------- MODULE JournalFile -------------------------------
(***************************************************************************)
(* The journals of a Session's attempts as their readers find them: whole  *)
(* records, the visible part of the one being written, and lines a dead    *)
(* host has torn.  Deltas are the live attempt's stream events.            *)
(***************************************************************************)
EXTENDS Naturals, Sequences

CONSTANTS
  Rounds,        \* rounds of the one Agent that writes
  MaxRecords,    \* records of one journal
  MaxDeltas

ASSUME JournalConstants == Rounds # {} /\ MaxRecords \in Nat \ {0} /\ MaxDeltas \in Nat

VARIABLES
  journal,   \* attempt -> its records
  partial,   \* the record whose first bytes are in the file, or None
  cur,       \* the newest attempt
  status,    \* its state, as far as the streams distinguish it; idle in a host that has run none
  deltas     \* its stream events: the round of each

Attempts == {1, 2}
CallFacts == {"request", "retry", "tools", "usage", "round", "internal"}
SteerFacts == {"steer", "applied"}
Types == CallFacts \cup SteerFacts \cup {"start", "end"}
Records == [type : Types \cup {"torn"}, round : Rounds]
None == [type |-> "torn", round |-> CHOOSE r \in Rounds : TRUE]
Record(type, r) == [type |-> type, round |-> r]
Active == {"running"}   \* stopping and force_stopping among it

file == <<journal, partial, cur, status, deltas>>

FileTypeOK ==
  /\ journal \in [Attempts -> Seq(Records)] /\ partial \in Records
  /\ cur \in Attempts \cup {0} /\ status \in {"idle", "preparing", "ended"} \cup Active
  /\ deltas \in Seq(Rounds)

FileInit ==
  /\ journal = [k \in Attempts |-> <<>>] /\ partial = None
  /\ cur = 0 /\ status = "idle" /\ deltas = <<>>

Room == cur # 0 /\ partial = None /\ Len(journal[cur]) < MaxRecords

\* The host dies; the next one finds what was whole, and the outcome it adds to
\* the journal makes one undecodable line of a record cut short.
HostDies ==
  /\ status \in Active /\ Len(journal[cur]) < MaxRecords
  /\ journal' = [journal EXCEPT ![cur] = Append(@, IF partial # None THEN None ELSE Record("end", None.round))]
  /\ partial' = None /\ status' = "idle" /\ deltas' = <<>>
  /\ UNCHANGED cur

\* A new attempt when no other is live: its first record is in the file before
\* a reader can find the attempt.
NextRun ==
  /\ cur < 2 /\ status \in {"idle", "ended"} /\ partial = None
  /\ cur' = cur + 1 /\ status' = "preparing" /\ deltas' = <<>>
  /\ journal' = [journal EXCEPT ![cur + 1] = <<Record("start", None.round)>>]
  /\ UNCHANGED partial

RunActive == status = "preparing" /\ status' = "running" /\ UNCHANGED <<journal, partial, cur, deltas>>

Publish(r) ==
  /\ status \in Active /\ Len(deltas) < MaxDeltas /\ deltas' = Append(deltas, r)
  /\ UNCHANGED <<journal, partial, cur, status>>

\* An append is one write; a reader may find its first bytes alone.
AppendSome(record) ==
  /\ status \in Active /\ Room /\ partial' = record
  /\ UNCHANGED <<journal, cur, status, deltas>>
AppendRest ==
  /\ partial # None /\ partial' = None /\ status \in Active
  /\ journal' = [journal EXCEPT ![cur] = Append(@, partial)]
  /\ UNCHANGED <<cur, status, deltas>>
AppendWhole(record) ==
  /\ status \in Active /\ Room
  /\ journal' = [journal EXCEPT ![cur] = Append(@, record)]
  /\ UNCHANGED <<partial, cur, status, deltas>>

\* The outcome: the record and the state change under the attempt's lock.
End ==
  /\ status \in Active /\ Room /\ status' = "ended"
  /\ journal' = [journal EXCEPT ![cur] = Append(@, Record("end", None.round))]
  /\ UNCHANGED <<partial, cur, deltas>>

Writer(types, rounds) ==
  \/ NextRun \/ RunActive \/ AppendRest \/ End
  \/ \E r \in rounds : Publish(r)
  \/ \E type \in types, r \in Rounds : AppendSome(Record(type, r)) \/ AppendWhole(Record(type, r))

\* The records that can be decoded: a line cut by a crash is passed over.
Decoded(records) ==
  LET d[n \in 0..Len(records)] ==
        IF n = 0 THEN <<>>
        ELSE IF records[n].type = "torn" THEN d[n - 1]
        ELSE Append(d[n - 1], records[n])
  IN d[Len(records)]
=============================================================================
