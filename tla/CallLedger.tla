-------------------------------- MODULE CallLedger --------------------------------
(***************************************************************************)
(* The ledger of model calls and steering a browser asks for, reduced from *)
(* the journal and cached by its size: the cache reads only what is new.   *)
(* Requests take the size first and the cache's lock then.                 *)
(***************************************************************************)
EXTENDS JournalFile, FiniteSets

CONSTANTS Askers, MaxAsks, CacheLimit
ASSUME LedgerConstants == MaxAsks \in Nat /\ CacheLimit \in Nat \ {0}

VARIABLES
  ask,      \* asker -> the attempt, the size taken, and the ledger it answers with
  state,    \* ledgers by identity, with the bytes they cover; the last one goes on
  last,     \* the attempt and identity of that ledger, identity 0 before the first
  cache,    \* signatures and identities, the latest last
  asks

\* One byte count stands for half a record: a size may end inside one.
Size(k) == 2 * Len(journal[k]) + IF k = cur /\ partial # None THEN 1 ELSE 0

NoRow == [seq |-> 0, attempts |-> 0, retries |-> 0, usage |-> "none"]
NoLedger == [rows |-> [r \in Rounds |-> NoRow], sequence |-> 0, internal |-> 0,
             steered |-> FALSE, applied |-> FALSE]

\* The row of a round, made by the first fact that is entitled to.
Opened(l, r) == IF l.rows[r].seq > 0 THEN l
                ELSE [l EXCEPT !.rows[r].seq = l.sequence + 1, !.sequence = @ + 1]
Known(l, r) == l.rows[r].seq > 0

\* round_usage stands in for a missing usage fact.
RoundUsage(usage) == IF usage = "none" THEN "round" ELSE usage

\* _reduce_calls_event and _reduce_steering_event
Reduce(l, f) ==
  CASE f.type = "request" -> [Opened(l, f.round) EXCEPT !.rows[f.round].attempts = @ + 1]
    [] f.type = "tools" -> Opened(l, f.round)
    [] f.type = "retry" /\ Known(l, f.round) -> [l EXCEPT !.rows[f.round].retries = @ + 1]
    [] f.type = "usage" /\ Known(l, f.round) -> [l EXCEPT !.rows[f.round].usage = "primary"]
    [] f.type = "round" -> [Opened(l, f.round) EXCEPT !.rows[f.round].usage = RoundUsage(@)]
    [] f.type = "internal" -> [l EXCEPT !.internal = @ + 1, !.sequence = @ + 1]
    [] f.type = "steer" -> [l EXCEPT !.steered = TRUE, !.applied = FALSE]
    [] f.type = "applied" -> [l EXCEPT !.applied = l.steered]
    [] OTHER -> l

Ledger(l, records) ==
  LET f[n \in 0..Len(records)] == IF n = 0 THEN l ELSE Reduce(f[n - 1], records[n])
  IN f[Len(records)]

\* The decodable records of the bytes from..to: a half is no line.
Between(k, from, to) ==
  Decoded(SubSeq(journal[k], ((from + 1) \div 2) + 1, to \div 2))

NoAsk == [pc |-> "idle", attempt |-> 0, size |-> 0, id |-> 0]

LedgerTypeOK ==
  /\ \A a \in Askers : /\ ask[a].pc \in {"idle", "sized", "held"} /\ ask[a].attempt \in Attempts \cup {0}
                       /\ ask[a].size \in 0..(2 * MaxRecords + 1) /\ ask[a].id \in 0..Len(state)
  /\ \A i \in 1..Len(state) : state[i].cursor \in 0..(2 * MaxRecords + 1)
  /\ last.id \in 0..Len(state) /\ Len(cache) <= CacheLimit /\ asks \in 0..MaxAsks

LedgerInit ==
  /\ ask = [a \in Askers |-> NoAsk] /\ state = <<>> /\ last = [attempt |-> 0, id |-> 0]
  /\ cache = <<>> /\ asks = 0

\* _journal_signature, before the lock.
TakeSize(a) ==
  /\ status # "idle" /\ ask[a].pc # "sized" /\ asks < MaxAsks /\ asks' = asks + 1
  /\ ask' = [ask EXCEPT ![a] = [pc |-> "sized", attempt |-> cur, size |-> Size(cur), id |-> 0]]
  /\ UNCHANGED <<file, state, last, cache>>

Hits(a) == {i \in 1..Len(cache) : cache[i].attempt = ask[a].attempt /\ cache[i].size = ask[a].size}
\* move_to_end, and popitem of the oldest behind a store.
Touched(i) == Append(SubSeq(cache, 1, i - 1) \o SubSeq(cache, i + 1, Len(cache)), cache[i])
Stored(e) ==
  IF Len(cache) < CacheLimit THEN Append(cache, e) ELSE Tail(Append(cache, e))

\* Mutant: the reader goes on behind the cursor of another attempt.
GoesOnAnyhow(a) == last.id # 0

\* The prefix is reused for the same attempt only, and not when the size is
\* behind it.
GoesOn(a) == last.id # 0 /\ last.attempt = ask[a].attempt /\ ask[a].size >= state[last.id].cursor

\* _cached_calls under its lock.
Reduces(a) ==
  /\ ask[a].pc = "sized"
  /\ IF Hits(a) # {}
     THEN LET i == CHOOSE i \in Hits(a) : TRUE
          IN /\ ask' = [ask EXCEPT ![a].pc = "held", ![a].id = cache[i].id]
             /\ cache' = Touched(i) /\ UNCHANGED <<state, last>>
     ELSE LET id == IF GoesOn(a) THEN last.id ELSE Len(state) + 1
              old == IF GoesOn(a) THEN state[last.id]
                     ELSE [ledger |-> NoLedger, cursor |-> 0, torn |-> FALSE]
              new == [ledger |-> Ledger(old.ledger, Between(ask[a].attempt, old.cursor, ask[a].size)),
                      cursor |-> ask[a].size,
                      torn |-> old.torn \/ ask[a].size % 2 = 1]
          IN /\ state' = IF GoesOn(a) THEN [state EXCEPT ![id] = new] ELSE Append(state, new)
             /\ last' = [last EXCEPT !.attempt = ask[a].attempt, !.id = id]
             /\ cache' = Stored([attempt |-> ask[a].attempt, size |-> ask[a].size, id |-> id])
             /\ ask' = [ask EXCEPT ![a].pc = "held", ![a].id = id]
  /\ UNCHANGED <<file, asks>>

Asker == \E a \in Askers : TakeSize(a) \/ Reduces(a)
=============================================================================
