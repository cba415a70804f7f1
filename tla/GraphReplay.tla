------------------------------- MODULE GraphReplay -------------------------------
(***************************************************************************)
(* The run graph of a live attempt: the swarm journals its facts, the      *)
(* hooks of its Agents' threads fold them into checkpoints over a view of  *)
(* the live swarm, and a browser pages the graph's events.                 *)
(***************************************************************************)
EXTENDS RunGraph, FiniteSets

CONSTANTS
  Parents,     \* the Agent that dispatches each Agent, NoOne for a blueprint node
  MaxFacts,    \* records of the journal
  PageLimit    \* events of one page

ReplayConstants ==
  /\ NoOneAssumption
  /\ Parents \in [Agents -> Agents \cup {NoOne}]
  /\ \A a \in Agents : Parents[a] # a
  /\ MaxFacts \in Nat /\ PageLimit \in Nat \ {0}

VARIABLES
  journal,   \* the attempt's facts
  status,    \* the attempt's state, as far as the graph shows it
  live,      \* the nodes of the live swarm
  ckpt,      \* the snapshot of the manifest's checkpoint
  hook,      \* a hook's program point, what it has read, and the journal then
  reader,    \* the browser's cursor, the checkpoint its request has read, its events
  ended,     \* the attempt has its outcome
  taken      \* the journal's length when the checkpoint's view, status and facts were read

vars == <<journal, status, live, ckpt, hook, reader, ended, taken>>

Idle == [pc |-> "idle", view |-> [a \in Agents |-> Unknown], status |-> "idle", at |-> 0, asked |-> 0, read |-> 0, snap |-> NoSnap]
Event(n) == [sequence |-> n, type |-> journal[n].type, agent |-> journal[n].agent]
TypeOK ==
  /\ journal \in Seq(Facts) /\ Len(journal) <= MaxFacts /\ status \in RunStates
  /\ live \in Views
  /\ ckpt.run \in RunStates /\ ckpt.cursor \in -1..MaxFacts /\ ckpt.node \in [Agents -> Nodes]
  /\ \A a \in Agents : /\ hook[a].pc \in {"idle", "view", "status", "project", "commit"}
                       /\ hook[a].at \in 0..MaxFacts /\ hook[a].status \in RunStates
                       /\ hook[a].view \in Views
  /\ reader.pc \in {"idle", "replay"} /\ reader.cursor \in 0..MaxFacts
  /\ reader.got \in Seq([sequence : 1..MaxFacts, type : AgentFacts \cup RunFacts,
                         agent : Agents \cup {NoOne}])
  /\ ended \in BOOLEAN /\ taken \in [view : 0..MaxFacts, status : 0..MaxFacts, read : 0..MaxFacts]

Init ==
  /\ journal = <<RunFact("execution_started")>> /\ status = "running"
  /\ live = [a \in Agents |-> IF Parents[a] = NoOne THEN [Unknown EXCEPT !.origin = "blueprint"]
                              ELSE Unknown]
  /\ ckpt = NoSnap /\ ended = FALSE
  /\ taken = [view |-> 0, status |-> 0, read |-> 0]
  /\ hook = [a \in Agents |-> Idle]
  /\ reader = [pc |-> "idle", cursor |-> 0, seen |-> NoSnap, got |-> <<>>]

Write(fact) == Len(journal) < MaxFacts /\ journal' = Append(journal, fact)

-----------------------------------------------------------------------------
\* The live swarm and its Agents.

\* An Agent moves on and the run's hook journals the fact on its thread.
Moves(a, type, from) ==
  /\ hook[a] = Idle /\ live[a].state \in from
  /\ Write(Fact(type, a, NoOne, FALSE))
  /\ live' = [live EXCEPT ![a].state = NodeAfter(@, type)]
  /\ UNCHANGED <<status, ckpt, hook, reader, ended, taken>>

Dispatch(a) ==
  /\ Parents[a] # NoOne /\ live[a].origin = "none" /\ live[Parents[a]].state = "running"
  /\ Write(Fact("task:dispatched", a, Parents[a], TRUE))
  /\ live' = [live EXCEPT ![a] = [state |-> "queued", parent |-> Parents[a], origin |-> "runtime"]]
  /\ UNCHANGED <<status, ckpt, hook, reader, ended, taken>>

Runs(a) == live[a].origin # "none" /\ Moves(a, "agent:running", {"pending", "queued"})
Finishes(a) == \E type \in {"agent:completed", "agent:failed", "agent:stopped"} :
                 Moves(a, type, {"running"})

\* A context checkpoint of a running Agent; the steps that follow are its hook's.
Checkpoints(a) ==
  /\ hook[a] = Idle /\ live[a].state = "running"
  /\ Write(Fact("agent:context_checkpoint", a, NoOne, FALSE))
  /\ hook' = [hook EXCEPT ![a].pc = "view"]
  /\ UNCHANGED <<status, live, ckpt, reader, ended, taken>>

\* live_view: nothing is committed when the attempt is no longer live.
HookView(a) ==
  /\ hook[a].pc = "view"
  /\ hook' = [hook EXCEPT ![a] = IF ended THEN Idle
                                 ELSE [@ EXCEPT !.pc = "status", !.view = live, !.at = Len(journal)]]
  /\ UNCHANGED <<journal, status, live, ckpt, reader, ended, taken>>

HookStatus(a) ==
  /\ hook[a].pc = "status"
  /\ hook' = [hook EXCEPT ![a].pc = "project", ![a].status = status, ![a].asked = Len(journal)]
  /\ UNCHANGED <<journal, status, live, ckpt, reader, ended, taken>>


\* project: the checkpoint and the journal as they are now, overlaid with the
\* view and the status taken before.
Project(h) == [ApplyLive(Seeded(status, ckpt, journal), h.view) EXCEPT !.run = h.status]

HookProject(a) ==
  /\ hook[a].pc = "project"
  /\ hook' = [hook EXCEPT ![a].pc = "commit", ![a].snap = Project(hook[a]), ![a].read = Len(journal)]
  /\ UNCHANGED <<journal, status, live, ckpt, reader, ended, taken>>

\* Mutant: the snapshot counts as taken at the commit.
CommitAtOffset(a) ==
  /\ hook[a].pc = "commit" /\ Write(RunFact("checkpoint_committed"))
  /\ ckpt' = [hook[a].snap EXCEPT !.cursor = Len(journal)] /\ hook' = [hook EXCEPT ![a] = Idle]
  /\ taken' = [view |-> hook[a].at, status |-> hook[a].asked, read |-> hook[a].read]
  /\ UNCHANGED <<status, live, reader, ended>>

\* commit_checkpoint
HookCommit(a) ==
  /\ hook[a].pc = "commit" /\ Write(RunFact("checkpoint_committed"))
  /\ ckpt' = hook[a].snap /\ hook' = [hook EXCEPT ![a] = Idle]
  /\ taken' = [view |-> hook[a].at, status |-> hook[a].asked, read |-> hook[a].read]
  /\ UNCHANGED <<status, live, reader, ended>>

-----------------------------------------------------------------------------
\* The attempt.

Stop(type) ==
  /\ ~ended /\ status \in {"running", "stopping"} /\ RunAfter(status, type) # status
  /\ Write(RunFact(type)) /\ status' = RunAfter(status, type)
  /\ UNCHANGED <<live, ckpt, hook, reader, ended, taken>>

\* The run returns when its Agents have; a shutdown does not wait for them.
End(outcome) ==
  /\ ~ended
  /\ outcome # "interrupted" => \A a \in Agents : hook[a] = Idle /\ live[a].state # "running"
  /\ Write(RunFact(outcome)) /\ status' = outcome /\ ended' = TRUE
  /\ UNCHANGED <<live, ckpt, hook, reader, taken>>

-----------------------------------------------------------------------------
\* A browser pages the events of the graph: the manifest, then the journal.

ReaderAsks ==
  /\ reader.pc = "idle" /\ reader' = [reader EXCEPT !.pc = "replay", !.seen = ckpt]
  /\ UNCHANGED <<journal, status, live, ckpt, hook, ended, taken>>

Least(m, n) == IF m < n THEN m ELSE n

\* Mutant: the events before the checkpoint are skipped for every reader.
FromCheckpoint(cursor, snap) == IF snap.cursor > 0 THEN snap.cursor ELSE 0

\* Where the replay resumes: at the checkpoint, unless the reader is behind it.
From(cursor, snap) == IF snap.cursor > 0 /\ cursor >= snap.cursor THEN snap.cursor ELSE 0

\* One page of the facts behind a cursor, out of those the replay reads.
PageBehind(cursor, snap) ==
  LET from == From(cursor, snap)
      rest == Rest(journal, from)
      new == {n \in (from + 1)..Len(journal) : n > cursor}
      first == Len(journal) - Cardinality(new)
  IN [i \in 1..Least(PageLimit, Cardinality(new)) |->
        [sequence |-> first + i, type |-> rest[first + i - from].type, agent |-> rest[first + i - from].agent]]

ReaderPages ==
  /\ reader.pc = "replay"
  /\ LET page == PageBehind(reader.cursor, reader.seen)
     IN reader' = [reader EXCEPT !.pc = "idle", !.cursor = @ + Len(page), !.got = @ \o page]
  /\ UNCHANGED <<journal, status, live, ckpt, hook, ended, taken>>

Next ==
  \/ \E a \in Agents : \/ Dispatch(a) \/ Runs(a) \/ Finishes(a) \/ Checkpoints(a)
                       \/ HookView(a) \/ HookStatus(a) \/ HookProject(a) \/ HookCommit(a)
  \/ \E type \in {"stop_requested", "force_requested"} : Stop(type)
  \/ \E outcome \in RunFinished : End(outcome)
  \/ ReaderAsks \/ ReaderPages

Spec == Init /\ [][Next]_vars
=============================================================================
