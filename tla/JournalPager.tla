------------------------------- MODULE JournalPager -------------------------------
(***************************************************************************)
(* read_journal_before: the journal read backwards in blocks of bytes, one *)
(* page at a time, while it grows.  A record is as many bytes as Width     *)
(* says, the last of them its newline.                                     *)
(***************************************************************************)
EXTENDS JournalFile

CONSTANTS Block, Limit, MaxPages
ASSUME PagerConstants == {Block, Limit} \subseteq Nat \ {0} /\ MaxPages \in Nat

VARIABLES
  pager,   \* where the next page ends, the offset the first one ended at, and the records
  pages    \* pages read

Newline == 0
Width(n) == 2 + (n % 2)
Offset(n) == 2 * (n - 1) + (n \div 2)         \* where record n begins
Body(n, k) == 10 * n + k
\* The bytes of a file: whole records, then the first byte of a partial one.
Bytes(k) ==
  [b \in 1..(Offset(Len(journal[k]) + 1) + IF k = cur /\ partial # None THEN 1 ELSE 0) |->
     LET n == CHOOSE m \in 1..(Len(journal[k]) + 1) : Offset(m) < b /\ b <= Offset(m + 1)
     IN IF b = Offset(n + 1) THEN Newline ELSE Body(n, b - Offset(n))]

\* The records a line holds: all the bytes of one that is not torn.
RecordsAt(k, line) ==
  {n \in 1..Len(journal[k]) : /\ journal[k][n].type # "torn"
                              /\ line = [i \in 1..(Width(n) - 1) |-> Body(n, i)]}

\* data.split(b"\n"), with the offset each line has in the file.
Lines(data, at) ==
  LET split[i \in 0..Len(data)] ==
        IF i = 0 THEN <<[at |-> at, text |-> <<>>]>>
        ELSE LET lines == split[i - 1]
             IN IF data[i] = Newline THEN Append(lines, [at |-> at + i, text |-> <<>>])
                ELSE [lines EXCEPT ![Len(lines)].text = Append(@, data[i])]
  IN split[Len(data)]

\* The records of complete lines, from the last line to the first, until one
\* more than the page is found.
Collect(k, lines, found) ==
  LET collect[i \in 0..Len(lines)] ==
        IF i = 0 THEN found
        ELSE LET sofar == collect[i - 1]
                 line == lines[Len(lines) + 1 - i]
                 records == RecordsAt(k, line.text)
             IN IF Len(sofar) > Limit \/ records = {} THEN sofar
                ELSE Append(sofar, [at |-> line.at, n |-> CHOOSE n \in records : TRUE])
  IN collect[Len(lines)]

\* Mutant: the line a block begins in is dropped.
CarryNone(lines) == <<>>

\* The line a block begins in goes on in the block before.
Carry(lines) == lines[1].text

\* One block: what is in front of it, the line it begins in, the records so far.
ReadBlock(k, bytes, walk) ==
  LET start == IF walk.position > Block THEN walk.position - Block ELSE 0
      lines == Lines(SubSeq(bytes, start + 1, walk.position) \o walk.carry, start)
  IN IF start > 0
     THEN [position |-> start, carry |-> Carry(lines), found |-> Collect(k, Tail(lines), walk.found)]
     ELSE [position |-> 0, carry |-> <<>>, found |-> Collect(k, lines, walk.found)]

Walk(k, bytes, end) ==
  LET walk[b \in 0..end] ==
        IF b = 0 THEN [position |-> end, carry |-> <<>>, found |-> <<>>]
        ELSE LET w == walk[b - 1]
             IN IF w.position = 0 \/ Len(w.found) > Limit THEN w ELSE ReadBlock(k, bytes, w)
  IN walk[end].found

ReadBefore(k, before) ==
  LET bytes == Bytes(k)
      end == IF before < Len(bytes) THEN before ELSE Len(bytes)
      found == Walk(k, bytes, end)
      more == Len(found) > Limit
  IN [page |-> SubSeq(found, 1, IF more THEN Limit ELSE Len(found)), more |-> more,
      before |-> IF more THEN found[Limit].at ELSE 0]

\* No "before": no file ends behind it.
Whole == Offset(MaxRecords + 2)
PagerTypeOK ==
  /\ pager.more \in BOOLEAN /\ pager.before \in Nat /\ pager.attempt \in Attempts \cup {0}
  /\ pager.known \in 0..MaxRecords /\ pager.got \in Seq(1..MaxRecords)
  /\ pages \in 0..MaxPages

PagerInit ==
  pager = [more |-> FALSE, before |-> Whole, attempt |-> 0, known |-> 0, got |-> <<>>] /\ pages = 0

\* event_page of the newest attempt directory: the first page, or the one that
\* continues the last.
FirstPage ==
  /\ pages < MaxPages /\ pages' = pages + 1 /\ cur # 0
  /\ LET r == ReadBefore(cur, Whole)
     IN pager' = [more |-> r.more, before |-> r.before, attempt |-> cur, known |-> Len(journal[cur]),
                  got |-> [i \in 1..Len(r.page) |-> r.page[i].n]]
  /\ UNCHANGED file
OlderPage ==
  /\ pages < MaxPages /\ pages' = pages + 1 /\ pager.more
  /\ LET r == ReadBefore(pager.attempt, pager.before)
     IN pager' = [pager EXCEPT !.more = r.more, !.before = r.before,
                               !.got = @ \o [i \in 1..Len(r.page) |-> r.page[i].n]]
  /\ UNCHANGED file

Pager == FirstPage \/ OlderPage
=============================================================================
