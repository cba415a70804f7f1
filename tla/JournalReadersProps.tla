--------------------------- MODULE JournalReadersProps ---------------------------
(* What the readers of a growing journal get.                              *)
EXTENDS JournalReaders, TLC

Alike(x, y) == x.kind = y.kind /\ x.attempt = y.attempt

\* However the stream's three reads fall between appends, new attempts and lost
\* connections, a browser gets the records of an attempt without a gap or a
\* repetition, and no delta twice within a connection's life (events_stream,
\* events, ephemeral_events).
StreamInOrder ==
  \A i, j \in 1..Len(got) :
    i < j /\ Alike(got[i], got[j]) =>
      /\ got[i].kind = "delta" => got[i].n < got[j].n
      /\ /\ got[i].kind = "record"
         /\ \A m \in (i + 1)..(j - 1) : ~Alike(got[i], got[m])
         => got[j].n = got[i].n + 1

\* Pages of any size, read while the journal grows, together hold every record
\* that was whole when the first was read, newest first, and nothing else; lines
\* cut by a block are put together again and torn ones are passed over
\* (read_journal_before).
PagesCoverJournal ==
  LET whole == {n \in 1..pager.known : journal[pager.attempt][n].type # "torn"}
      seen == {pager.got[i] : i \in 1..Len(pager.got)}
  IN pager.attempt # 0 =>
       /\ \A i \in 1..(Len(pager.got) - 1) : pager.got[i] > pager.got[i + 1]
       /\ seen \subseteq whole /\ (~pager.more => seen = whole)
       /\ \A n \in whole \ seen : \A m \in seen : n < m

\* What a request for the ledger answers is the reduction of a prefix of its
\* attempt's journal that holds every record the request's size covers, whatever
\* other requests, sizes and attempts went through the cache, unless a size was
\* taken inside a record (_cached_calls, _reduce_calls_event).
LedgerIsReplay ==
  \A a \in Askers : ask[a].pc = "held" =>
    LET s == state[ask[a].id]
        records == journal[ask[a].attempt]
    IN s.torn \/ \E n \in (ask[a].size \div 2)..Len(records) :
                   s.ledger = Ledger(NoLedger, Decoded(SubSeq(records, 1, n)))

\* The same with every size.
LedgerLosesNothing ==
  \A a \in Askers : ask[a].pc = "held" =>
    LET records == journal[ask[a].attempt]
    IN \E n \in (ask[a].size \div 2)..Len(records) :
         state[ask[a].id].ledger = Ledger(NoLedger, Decoded(SubSeq(records, 1, n)))

\* The graph seeded from a checkpoint against a replay of the whole journal
\* (GraphReplayProps, where both are stated for the graph alone).
SeededIsReplay == Graph!SeededKeepsTree /\ Graph!FinishedIsShown

\* A browser that pages the graph's events misses and repeats none, whichever
\* checkpoints are committed between and inside its requests (events).
EventsInOrder == Graph!EventsInOrder

\* No delta of a round reaches the browser behind the round's own record.
SettledCardsStay ==
  \A i, j \in 1..Len(got) :
    i < j /\ got[i].kind = "record" /\ got[j].kind = "delta" /\ got[i].attempt = got[j].attempt
      => \/ journal[got[i].attempt][got[i].n].type # "round"
         \/ got[i].round # got[j].round

-----------------------------------------------------------------------------
\* The instance TLC checks.
CONSTANTS main, helper
\* A blueprint Agent and the worker it dispatches.
MCParents == (main :> NoOne) @@ (helper :> main)
AskerSymmetry == Permutations(Askers)
=============================================================================
