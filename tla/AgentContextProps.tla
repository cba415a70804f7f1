----------------------------- MODULE AgentContextProps -----------------------------
(***************************************************************************)
(* What the versions of an Agent's context promise.                        *)
(***************************************************************************)
EXTENDS AgentContext, TLC

\* The file of the current revision and of every ancestor is on disk at every
\* point where the process may die (store.py:273, :285: files come first).
HistoryIsOnDisk ==
  /\ disk.revision \in DOMAIN revisions \cup {NoRevision}
  /\ \A r \in DOMAIN revisions : revisions[r].parent \in 0..(r - 1)

Covers(r) == Says(revisions[r].messages) \subseteq AllTexts(disk)

\* Whatever write the process died at, the checkpoint holds the messages of
\* the current revision or of one made from it, never a part of one
\* (store.py:331-358: one transaction, then the pointer).
EditIsAllOrNothing ==
  disk.revision # NoRevision
    => Covers(disk.revision) \/ \E r \in DOMAIN revisions : revisions[r].parent = disk.revision /\ Covers(r)

\* A crash at any write of an edit leaves a history whose every revision is on
\* disk and a checkpoint that is one of them.
EditSurvivesCrash == HistoryIsOnDisk /\ EditIsAllOrNothing

\* The revision that an edit makes current was made from the one it replaces,
\* or from the baseline of an unversioned context: no edit in between is lost
\* (store.py:267, :271 check under the lock).
EditsFollowEachOther ==
  [][disk'.revision # disk.revision =>
       LET p == revisions'[disk'.revision].parent IN
       p = disk.revision \/ (disk.revision = NoRevision /\ revisions'[p].parent = NoRevision)]_disk

\* An edit takes away or rewrites only messages that its Agent has inspected
\* (store.py:275: an identity is made of place, timeline, role and content).
EditsTouchWhatWasSeen ==
  [][\A e \in Tools : (tool[e].pc = "idle" /\ tool'[e].pc \in {"baseline", "snapshot"}
                        /\ \A r \in DOMAIN revisions : revisions[r].messages # tool'[e].work.messages)
       => \A m \in ToSet(live.messages) \ ToSet(tool'[e].work.messages) :
            m \in {s.message : s \in ToSet(tool[e].seen.records)}]_tool

\* What was saved stays in the checkpoint unless an edit takes it away: an
\* import or a compaction, also of a memory that a restart emptied, and a
\* save never forget it (context_exchange.py:131, session_service.py:341).
SavedMessagesSurvive ==
  [][~raced' /\ (\A e \in Tools : tool[e].pc \notin {"commit", "activate"})
       => AllTexts(disk) \subseteq AllTexts(disk')]_disk

\* Does not hold: the import looks at the state once, and a run that begins
\* behind the look loses what it has said (context_exchange.py:117).
ImportKeepsConversation ==
  [][intake = "load" /\ intake' = "append" => AllTexts(live) \subseteq AllTexts(live')]_live

-----------------------------------------------------------------------------
\* The inductive invariant behind it: the files, the memory, the calls at work.

IsSequence(s) == s \in Seq(ToSet(s))
DiskFields == {"exists", "messages", "archive", "revision"}
LiveFields == {"messages", "archive", "round", "revision"}
Archived == {m.text : m \in disk.archive}

\* Revision r was made from d, or from the baseline of an unversioned context.
Follows(r, d) ==
  /\ r \in DOMAIN revisions
  /\ LET p == revisions[r].parent IN
     p = d \/ (d = NoRevision /\ p \in DOMAIN revisions /\ revisions[p].parent = NoRevision)

\* The texts hold the messages of revision r or of one made from it.
CoveredBy(r, said) ==
  r # NoRevision =>
    \E x \in DOMAIN revisions : (x = r \/ revisions[x].parent = r) /\ Says(revisions[x].messages) \subseteq said

DiskInv ==
  /\ IsSequence(revisions)
  /\ \A r \in DOMAIN revisions : IsSequence(revisions[r].messages) /\ revisions[r].parent \in 0..(r - 1)
  /\ DOMAIN disk = DiskFields /\ IsSequence(disk.messages) /\ disk.revision \in 0..Len(revisions)
  /\ ~disk.exists => disk.revision = NoRevision /\ disk.messages = <<>>
  /\ CoveredBy(disk.revision, AllTexts(disk))

\* A context that may be saved, and one whose save forgets nothing.
Fits(c) ==
  /\ DOMAIN c = LiveFields /\ IsSequence(c.messages) /\ c.revision \in 0..Len(revisions)
  /\ ~disk.exists => c.revision = NoRevision
  /\ c.revision = disk.revision \/ Follows(c.revision, disk.revision)
  /\ CoveredBy(c.revision, AllTexts(c) \cup Archived)
Kept(c) == Says(disk.messages) \subseteq AllTexts(c) \cup Archived

\* The memory is empty and will be loaded before anything is added or saved.
Loose == live.messages = <<>> /\ disk.exists /\ run # "running" /\ intake # "append"
LiveInv ==
  \/ Loose
  \/ Fits(live) /\ (Kept(live) \/ raced \/ \E e \in Tools : tool[e].pc = "activate")

\* A call at work holds the lock inside a run, its context is on disk, and its
\* revision, when its file is written, is the next one and says what it says.
Working == {"baseline", "baseline_only", "snapshot", "commit", "activate"}
Grounded(e) ==
  LET w == tool[e].work IN
  /\ lock = e /\ run = "running" /\ disk.exists /\ live.revision = disk.revision
  /\ tool[e].pc \in {"baseline", "baseline_only"} => disk.revision = NoRevision
  /\ tool[e].pc = "snapshot" =>
       \/ w.parent = disk.revision
       \/ disk.revision = NoRevision /\ w.parent \in DOMAIN revisions /\ revisions[w.parent].parent = NoRevision
  /\ tool[e].pc \in {"commit", "activate"} =>
       Follows(w.parent, disk.revision) /\ Says(w.messages) = Says(revisions[w.parent].messages)
  /\ tool[e].pc = "activate" /\ ~raced => Says(disk.messages) \subseteq Says(w.messages)
ToolShape(x) ==
  /\ DOMAIN x = {"pc", "seen", "work"} /\ x.pc \in Working \cup {"idle"}
  /\ DOMAIN x.work = {"parent", "before", "messages"} /\ IsSequence(x.work.before) /\ IsSequence(x.work.messages)
ToolInv ==
  /\ DOMAIN tool = Tools /\ \A e \in Tools : ToolShape(tool[e])
  /\ \A e \in Tools : tool[e].pc \in Working => Grounded(e)

-----------------------------------------------------------------------------
\* The instance TLC checks.
MCBatches == {<<"delete">>, <<"insert_tool">>, <<"replace", "insert">>}
ToolSymmetry == Permutations(Tools)
=============================================================================
