------------------------------- MODULE EventStream -------------------------------
(***************************************************************************)
(* The server-sent events of one browser: the endpoint's loop over the     *)
(* live deltas, one page of the journal and the run's state, and an        *)
(* EventSource that comes back with the last id it has seen.               *)
(***************************************************************************)
EXTENDS JournalFile

CONSTANTS PageLimit, MaxConnections
ASSUME StreamConstants == PageLimit \in Nat \ {0} /\ MaxConnections \in Nat

VARIABLES
  stream,    \* the endpoint's program point, its two cursors and the page it holds
  got,       \* what the browser has received, over all its connections
  connections

Delta(n) == [kind |-> "delta", attempt |-> cur, n |-> n, round |-> deltas[n]]
RecordItem(n) == [kind |-> "record", attempt |-> cur, n |-> n,
                  round |-> Decoded(journal[cur])[n].round]

StreamTypeOK ==
  /\ stream.pc \in {"closed", "deltas", "page", "status"}
  /\ stream.cursor \in 0..MaxRecords /\ stream.live \in 0..MaxDeltas
  /\ got \in Seq([kind : {"delta", "record"}, attempt : Attempts,
                  n : 1..(MaxRecords + MaxDeltas), round : Rounds])
  /\ connections \in 0..MaxConnections

StreamInit ==
  /\ stream = [pc |-> "closed", cursor |-> 0, live |-> 0] /\ got = <<>> /\ connections = 0

\* What is still in the endpoint's hands is lost with a connection, the browser
\* resumes at the last record it was given and with the deltas of now.  A
\* browser that starts the run itself begins again at the first record.
Connect(fresh) ==
  /\ connections < MaxConnections /\ connections' = connections + 1
  /\ stream' = [pc |-> "deltas", cursor |-> IF fresh THEN 0 ELSE stream.cursor, live |-> Len(deltas)]
  /\ got' = IF fresh THEN <<>> ELSE got
  /\ UNCHANGED file

\* ephemeral_events: none without an attempt of this process.
Drain ==
  /\ stream.pc = "deltas"
  /\ got' = got \o [i \in 1..(IF Len(deltas) > stream.live THEN Len(deltas) - stream.live ELSE 0) |->
                     Delta(stream.live + i)]
  /\ stream' = [stream EXCEPT !.pc = "page", !.live = IF Len(deltas) > @ THEN Len(deltas) ELSE @]
  /\ UNCHANGED <<file, connections>>

\* events: one page of the decoded records behind the cursor.
Page ==
  /\ stream.pc = "page"
  /\ LET behind == IF status = "idle" THEN 0 ELSE Len(Decoded(journal[cur]))
         count == IF behind <= stream.cursor THEN 0
                  ELSE IF behind - stream.cursor < PageLimit THEN behind - stream.cursor
                  ELSE PageLimit
     IN /\ got' = got \o [i \in 1..count |-> RecordItem(stream.cursor + i)]
        /\ stream' = [stream EXCEPT !.pc = "status", !.cursor = @ + count]
  /\ UNCHANGED <<file, connections>>

\* Mutant: the last record of the page is read once more.
StatusAgain ==
  /\ stream.pc = "status"
  /\ stream' = [stream EXCEPT !.pc = IF status \in Active THEN "deltas" ELSE "closed",
                              !.cursor = IF @ > 0 THEN @ - 1 ELSE @]
  /\ UNCHANGED <<file, got, connections>>

\* The stream ends with the run.
Status ==
  /\ stream.pc = "status"
  /\ stream' = [stream EXCEPT !.pc = IF status \in Active THEN "deltas" ELSE "closed"]
  /\ UNCHANGED <<file, got, connections>>

Streamer == Drain \/ Page \/ Status \/ \E fresh \in BOOLEAN : Connect(fresh)
=============================================================================
