------------------------------ MODULE JournalReaders ------------------------------
(***************************************************************************)
(* The journals with one of their readers: the event stream, the backward  *)
(* pager, the call ledger or the run graph.  Readers never write, so that  *)
(* each may be looked at alone; the run graph sees other facts of a        *)
(* journal than the others (GraphReplay).                                  *)
(***************************************************************************)
EXTENDS EventStream, JournalPager, CallLedger

CONSTANTS Agents, NoOne, Parents, MaxFacts

VARIABLES
  reader,
  facts, shown, live, ckpt, hook, browser, ended, taken  \* of GraphReplay

graphing == <<facts, shown, live, ckpt, hook, browser, ended, taken>>
Graph == INSTANCE GraphReplayProps WITH journal <- facts, status <- shown, reader <- browser

ASSUME GraphAssumption == Graph!ReplayConstants

streaming == <<stream, got, connections>>
paging == <<pager, pages>>
asking == <<ask, state, last, cache, asks>>
vars == <<file, streaming, paging, asking, reader, graphing>>

Init ==
  /\ FileInit /\ StreamInit /\ PagerInit /\ LedgerInit /\ Graph!Init
  /\ reader \in {"stream", "pager", "calls", "steering", "graph"}

\* What the process held goes with it; pages are read by the browser anew.
Crash ==
  /\ reader # "graph" /\ HostDies
  /\ stream' = [stream EXCEPT !.pc = "closed"]
  /\ ask' = [a \in Askers |-> NoAsk] /\ state' = <<>>
  /\ last' = [attempt |-> 0, id |-> 0] /\ cache' = <<>>
  /\ UNCHANGED <<got, connections, paging, asks, reader, graphing>>

\* What the reader at hand tells apart.
Written == CASE reader = "calls" -> CallFacts [] reader = "steering" -> SteerFacts [] OTHER -> {"round"}
Streamed == IF reader = "stream" THEN Rounds ELSE {}

Next ==
  \/ Crash
  \/ reader # "graph" /\ Writer(Written, Streamed) /\ UNCHANGED <<streaming, paging, asking, reader, graphing>>
  \/ reader = "stream" /\ Streamer /\ UNCHANGED <<paging, asking, reader, graphing>>
  \/ reader = "pager" /\ Pager /\ UNCHANGED <<streaming, asking, reader, graphing>>
  \/ reader \in {"calls", "steering"} /\ Asker /\ UNCHANGED <<streaming, paging, reader, graphing>>
  \/ reader = "graph" /\ Graph!Next /\ UNCHANGED <<file, streaming, paging, asking, reader>>

Spec == Init /\ [][Next]_vars

TypeOK == FileTypeOK /\ StreamTypeOK /\ PagerTypeOK /\ LedgerTypeOK
=============================================================================
