----------------------------- MODULE GraphReplayProps -----------------------------
(* What a browser and a later host can rely on in the run graph.           *)
EXTENDS GraphReplay

\* A browser that pages the graph's events receives every fact of the journal
\* once and in order, whichever checkpoints are committed between and inside its
\* requests (RunGraphProjector.events, _replay_prefix).
EventsInOrder == reader.got = [n \in 1..reader.cursor |-> Event(n)]

Whole == Replay(EmptyGraph(status), journal)
Shown == Seeded(status, ckpt, journal)

\* The graph seeded from a checkpoint stands at the same fact as a replay of the
\* whole journal, shows every node it shows, and under the same delegating
\* Agent, however many snapshots lie between (_replay, apply_run_graph_snapshot,
\* apply_journal_event).
SeededKeepsTree ==
  /\ Shown.cursor = Whole.cursor /\ Known(Whole) \subseteq Known(Shown)
  /\ \A n \in 1..Len(journal) :
       journal[n].parent # NoOne => Shown.node[journal[n].agent].parent = journal[n].parent

LastOf(a) ==
  LET at == {n \in 1..Len(journal) : journal[n].agent = a}
  IN IF at = {} THEN 0 ELSE CHOOSE n \in at : \A m \in at : m <= n

\* An Agent that has finished is shown finished, and a run that has its outcome
\* shows it, unless the fact came between the checkpoint's look at the live
\* swarm and its read of the journal (project overlays what it saw first).
FinishedIsShown ==
  /\ \A a \in Agents : LastOf(a) > 0 /\ LastOf(a) \notin taken.view + 1 .. taken.read =>
       Shown.node[a].state = Whole.node[a].state
  /\ \A n \in 1..Len(journal) :
       journal[n].type \in RunFinished /\ n \notin taken.status + 1 .. taken.read =>
         Shown.run = journal[n].type

\* A finished Agent is shown finished.
NodesFollowJournal ==
  \A a \in Agents : Whole.node[a].state \in Finished => Shown.node[a].state = Whole.node[a].state
=============================================================================
