------------------------------- MODULE AgentContext -------------------------------
(***************************************************************************)
(* The linear context of one Agent: the records in memory, the checkpoint  *)
(* on disk and the files of its revisions. The conversation appends to it, *)
(* the Agent's own tools inspect, edit and restore it, the host imports    *)
(* packages into it and compacts it, and the process may die at any write. *)
(* The handler that holds the records is a library: Loaded, Stored, Say    *)
(* and Shrink model what the code relies on.                               *)
(***************************************************************************)
EXTENDS Integers, Sequences, FiniteSets, SequencesExt, FiniteSetsExt

CONSTANTS
  Tools,           \* tool calls that may be in flight at once
  Batches,         \* the edits that are tried: sequences of kinds
  MaxTexts,        \* messages said, imported, inserted or rewritten
  MaxRevisions, MaxCompactions, MaxImports, MaxCrashes, MaxFaults

VARIABLES
  live,        \* handler.linear: the records in memory
  disk,        \* the checkpoint: pointer and database
  revisions,   \* context-revisions: id -> parent and messages
  run,         \* the execution: "idle", "preparing" or "running"
  lock,        \* the holder of _CONTEXT_LOCK
  tool,        \* tool call -> what it has seen and is doing
  intake,      \* the import: where it stands
  shrink,      \* the compaction: where it stands
  texts,       \* texts used so far
  raced,       \* an import or a compaction went on after a run had begun
  compactions, imports, crashes, faults

bounded == <<compactions, imports, crashes, faults>>
files == <<disk, revisions>>
vars == <<live, files, run, lock, tool, intake, shrink, texts, raced, bounded>>

NoRevision == 0
Nobody == "nobody"
Kinds == {"replace", "delete", "insert", "insert_tool"}
ASSUME ContextConstants == Batches \subseteq Seq(Kinds) /\ Nobody \notin Tools
Unseen == [revision |-> NoRevision, records |-> <<>>]
NoWork == [parent |-> NoRevision, before |-> <<>>, messages |-> <<>>]
Quiet == [pc |-> "idle", seen |-> Unseen, work |-> NoWork]
Blank == [messages |-> <<>>, archive |-> {}, round |-> 0, revision |-> NoRevision]
Absent == [exists |-> FALSE, messages |-> <<>>, archive |-> {}, revision |-> NoRevision]

Says(messages) == {m.text : m \in ToSet(messages)}
AllTexts(context) == Says(context.messages) \cup {m.text : m \in context.archive}
Timelines(context) == {m.timeline : m \in ToSet(context.messages) \cup context.archive}

Init ==
  /\ live = Blank /\ disk = Absent /\ revisions = <<>> /\ run = "idle" /\ lock = Nobody
  /\ tool = [e \in Tools |-> Quiet] /\ intake = "idle" /\ shrink = "idle" /\ texts = 0 /\ raced = FALSE
  /\ compactions = 0 /\ imports = 0 /\ crashes = 0 /\ faults = 0

-----------------------------------------------------------------------------
\* The handler.

Loaded(checkpoint) ==
  [messages |-> checkpoint.messages, archive |-> checkpoint.archive,
   round |-> Max(Timelines(checkpoint) \cup {0}), revision |-> checkpoint.revision]

Stored(context) ==
  [exists |-> TRUE, messages |-> context.messages,
   archive |-> disk.archive \cup context.archive, revision |-> context.revision]

\* save answers FALSE and nothing is written.
SaveFails == faults < MaxFaults /\ faults' = faults + 1 /\ UNCHANGED disk
Saves(context) == disk' = Stored(context) /\ UNCHANGED faults

Message(n, role, text) == [timeline |-> n, role |-> role, text |-> text]

Append1(context, role) ==
  [context EXCEPT !.round = @ + 1, !.messages = Append(@, Message(context.round + 1, role, texts + 1))]

-----------------------------------------------------------------------------
\* The run: it loads the checkpoint when the memory is empty, and its turn
\* waits for the tools it called.

Waiting == \E e \in Tools : tool[e].pc # "idle"

Admit ==
  /\ run = "idle" /\ run' = "preparing"
  /\ UNCHANGED <<live, files, lock, tool, intake, shrink, texts, raced, bounded>>

Begin ==
  /\ run = "preparing" /\ run' = "running"
  /\ live' = IF live.messages = <<>> /\ disk.exists THEN Loaded(disk) ELSE live
  /\ UNCHANGED <<files, lock, tool, intake, shrink, texts, raced, bounded>>

Say ==
  /\ run = "running" /\ ~Waiting /\ texts < MaxTexts /\ texts' = texts + 1
  /\ live' = Append1(live, "assistant")
  /\ UNCHANGED <<files, run, lock, tool, intake, shrink, raced, bounded>>

\* The round is saved, and may be the last one; a run that fails ends without.
SaveRound ==
  /\ run = "running" /\ ~Waiting
  /\ \/ run' \in {"running", "idle"} /\ disk' = Stored(live)
     \/ run' = "idle" /\ UNCHANGED disk
  /\ UNCHANGED <<live, revisions, lock, tool, intake, shrink, texts, raced, bounded>>

-----------------------------------------------------------------------------
\* The tools, each under _CONTEXT_LOCK.

\* The records of inspect, each with the ordinal its identity is made of.
Records(messages) == [i \in DOMAIN messages |-> [ordinal |-> i, message |-> messages[i]]]

Inspect(e) ==
  /\ run = "running" /\ tool[e].pc = "idle" /\ lock = Nobody
  /\ \/ SaveFails /\ UNCHANGED tool
     \/ /\ Saves(live)
        /\ tool' = [tool EXCEPT ![e].seen = [revision |-> live.revision, records |-> Records(live.messages)]]
  /\ UNCHANGED <<live, revisions, run, lock, intake, shrink, texts, raced, compactions, imports, crashes>>

\* Mutant: a target is found by its place alone.
TargetByOrdinal(record, messages) == record.ordinal \in DOMAIN messages

\* The target is active: the message at that place is the one inspected.
IsActive(record, messages) ==
  record.ordinal \in DOMAIN messages /\ messages[record.ordinal] = record.message

\* One operation of the batch; the identities are those of the list so far.
Edited(messages, kind, record, text) ==
  LET i == record.ordinal IN
  CASE kind = "replace" -> [messages EXCEPT ![i].text = text]
    [] kind = "delete" -> RemoveAt(messages, i)
    [] kind = "insert" -> InsertAt(messages, i + 1, Message(0, "user", text))
    [] kind = "insert_tool" -> InsertAt(messages, i + 1, Message(0, "tool", text))

Edit1(state, step) ==
  IF state.refused \/ ~IsActive(step.record, state.messages) THEN [state EXCEPT !.refused = TRUE]
  ELSE [state EXCEPT !.messages = Edited(@, step.kind, step.record, step.text)]

\* A batch either applies as a whole or is refused.
EditAll(messages, steps) ==
  LET after[i \in 0..Len(steps)] ==
        IF i = 0 THEN [refused |-> FALSE, messages |-> messages] ELSE Edit1(after[i - 1], steps[i])
  IN after[Len(steps)]

Steps(batch, targets) ==
  [i \in DOMAIN batch |-> [kind |-> batch[i], record |-> targets[i], text |-> texts + i]]

Take(e) == run = "running" /\ tool[e].pc = "idle" /\ lock = Nobody

\* Mutant: the lock is not taken.
ApplyUnlocked(e) ==
  /\ run = "running" /\ tool[e].pc = "idle" /\ tool[e].seen.revision = live.revision
  /\ \E batch \in Batches : \E targets \in [DOMAIN batch -> ToSet(tool[e].seen.records)] :
       /\ texts + Len(batch) <= MaxTexts /\ Saves(live)
       /\ LET done == EditAll(live.messages, Steps(batch, targets)) IN
          ~done.refused /\ texts' = texts + Len(batch)
          /\ tool' = [tool EXCEPT ![e].pc = IF live.revision = NoRevision THEN "baseline" ELSE "snapshot",
                                  ![e].work = [parent |-> live.revision, before |-> live.messages, messages |-> done.messages]]
  /\ UNCHANGED <<live, revisions, run, lock, intake, shrink, raced, compactions, imports, crashes>>

\* apply up to its first file: the live context is persisted, a revision that
\* is not the current one is refused. The targets are looked up behind the
\* baseline, so a refused batch may leave one.
Apply(e) ==
  /\ Take(e)
  /\ \/ SaveFails /\ UNCHANGED <<lock, tool, texts>>
     \/ Saves(live) /\ tool[e].seen.revision # live.revision /\ UNCHANGED <<lock, tool, texts>>
     \/ /\ Saves(live) /\ tool[e].seen.revision = live.revision
        /\ \E batch \in Batches : \E targets \in [DOMAIN batch -> ToSet(tool[e].seen.records)] :
             /\ texts + Len(batch) <= MaxTexts
             /\ LET done == EditAll(live.messages, Steps(batch, targets)) IN
                IF done.refused /\ live.revision # NoRevision
                THEN UNCHANGED <<lock, tool, texts>>
                ELSE /\ lock' = e /\ texts' = texts + (IF done.refused THEN 0 ELSE Len(batch))
                     /\ tool' = [tool EXCEPT
                          ![e].pc = IF live.revision # NoRevision THEN "snapshot"
                                    ELSE IF done.refused THEN "baseline_only" ELSE "baseline",
                          ![e].work = [parent |-> live.revision, before |-> live.messages, messages |-> done.messages]]
  /\ UNCHANGED <<live, revisions, run, intake, shrink, raced, compactions, imports, crashes>>

\* restore: the messages of an earlier revision, behind the current one.
Restore(e) ==
  /\ Take(e) /\ tool[e].seen.revision = live.revision /\ Saves(live)
  /\ \E r \in DOMAIN revisions :
       /\ lock' = e
       /\ tool' = [tool EXCEPT ![e].pc = "snapshot",
                               ![e].work = [parent |-> live.revision, before |-> <<>>, messages |-> revisions[r].messages]]
  /\ UNCHANGED <<live, revisions, run, intake, shrink, texts, raced, compactions, imports, crashes>>

NewRevision == Len(revisions) + 1
Writes(parent, messages) ==
  Len(revisions) < MaxRevisions /\ revisions' = Append(revisions, [parent |-> parent, messages |-> messages])

\* The first edit keeps what was there as a revision without a parent.
Baseline(e) ==
  /\ tool[e].pc \in {"baseline", "baseline_only"} /\ Writes(NoRevision, tool[e].work.before)
  /\ IF tool[e].pc = "baseline"
     THEN tool' = [tool EXCEPT ![e].pc = "snapshot", ![e].work.parent = NewRevision] /\ UNCHANGED lock
     ELSE tool' = [tool EXCEPT ![e].pc = "idle", ![e].work = NoWork] /\ lock' = Nobody
  /\ UNCHANGED <<live, disk, run, intake, shrink, texts, raced, bounded>>

\* The file is written, then every message is turned into an item of the
\* handler, which has none for the role "tool": the file stays, the edit fails.
Snapshot(e) ==
  /\ tool[e].pc = "snapshot" /\ Writes(tool[e].work.parent, tool[e].work.messages)
  /\ IF \E m \in ToSet(tool[e].work.messages) : m.role = "tool"
     THEN tool' = [tool EXCEPT ![e].pc = "idle", ![e].work = NoWork] /\ lock' = Nobody
     ELSE tool' = [tool EXCEPT ![e].pc = "commit", ![e].work.parent = NewRevision] /\ UNCHANGED lock
  /\ UNCHANGED <<live, disk, run, intake, shrink, texts, raced, bounded>>

\* The messages get new timelines, above all that are known.
Renumbered(messages) ==
  LET start == Max(Timelines(disk) \cup {live.round}) + 1 IN
  [i \in DOMAIN messages |-> Message(start + i - 1, messages[i].role, messages[i].text)]

\* Mutant: the rows are deleted in a transaction of their own.
CommitInTwo(e) ==
  /\ tool[e].pc = "commit" /\ UNCHANGED <<live, revisions, run, lock, intake, shrink, texts, raced, bounded>>
  /\ \/ disk.messages # <<>> /\ disk' = [disk EXCEPT !.messages = <<>>] /\ UNCHANGED tool
     \/ /\ disk.messages = <<>> /\ disk' = [disk EXCEPT !.messages = Renumbered(tool[e].work.messages)]
        /\ tool' = [tool EXCEPT ![e].pc = "activate", ![e].work.messages = Renumbered(@)]

\* One transaction replaces the rows of the database.
Commit(e) ==
  /\ tool[e].pc = "commit"
  /\ disk' = [disk EXCEPT !.messages = Renumbered(tool[e].work.messages)]
  /\ tool' = [tool EXCEPT ![e].pc = "activate", ![e].work.messages = Renumbered(@)]
  /\ UNCHANGED <<live, revisions, run, lock, intake, shrink, texts, raced, bounded>>

\* The memory follows, and the pointer is saved: the revision is the current one.
Activate(e) ==
  /\ tool[e].pc = "activate" /\ lock' = Nobody
  /\ LET w == tool[e].work
         start == Max(Timelines(disk) \cup {live.round}) + 1
         new == [live EXCEPT !.messages = w.messages, !.revision = w.parent,
                             !.round = IF w.messages = <<>> THEN start ELSE Last(w.messages).timeline] IN
     /\ live' = new
     /\ \/ Saves(new) /\ tool' = [tool EXCEPT ![e] = [pc |-> "idle", work |-> NoWork,
                                    seen |-> [revision |-> w.parent, records |-> Records(w.messages)]]]
        \/ SaveFails /\ tool' = [tool EXCEPT ![e].pc = "idle", ![e].work = NoWork]
  /\ UNCHANGED <<revisions, run, intake, shrink, texts, raced, compactions, imports, crashes>>

Tool == \E e \in Tools :
  Inspect(e) \/ Apply(e) \/ Restore(e) \/ Baseline(e) \/ Snapshot(e) \/ Commit(e) \/ Activate(e)

-----------------------------------------------------------------------------
\* An import: the state is looked at once, the checkpoint is loaded over the
\* memory, the records are appended and saved.

Busy == run = "running"
Races == raced' = (raced \/ Busy)

CheckIdle ==
  /\ intake = "idle" /\ imports < MaxImports /\ imports' = imports + 1 /\ ~Busy /\ intake' = "load"
  /\ UNCHANGED <<live, files, run, lock, tool, shrink, texts, raced, compactions, crashes, faults>>

\* Mutant: the records are appended to whatever is in memory.
ImportUnloaded ==
  /\ intake = "load" /\ intake' = "append" /\ Races
  /\ UNCHANGED <<live, files, run, lock, tool, shrink, texts, bounded>>

ImportLoad ==
  /\ intake = "load" /\ intake' = "append" /\ live' = (IF disk.exists THEN Loaded(disk) ELSE live) /\ Races
  /\ UNCHANGED <<files, run, lock, tool, shrink, texts, bounded>>

\* Records of the roles "system", "user" and "assistant" are taken, "tool" is
\* counted as rejected. A save that fails leaves them in memory.
ImportAppend ==
  /\ intake = "append" /\ intake' = "idle" /\ Races
  /\ \/ UNCHANGED <<live, texts>>
     \/ texts < MaxTexts /\ live' = Append1(live, "user") /\ texts' = texts + 1
  /\ Saves(live') \/ SaveFails
  /\ UNCHANGED <<revisions, run, lock, tool, shrink, compactions, imports, crashes>>

-----------------------------------------------------------------------------
\* A compaction on request.

CheckCompact ==
  /\ shrink = "idle" /\ compactions < MaxCompactions /\ compactions' = compactions + 1 /\ ~Busy /\ shrink' = "work"
  /\ UNCHANGED <<live, files, run, lock, tool, intake, texts, raced, imports, crashes, faults>>

\* An empty memory is loaded first; the model call fails and nothing changes,
\* or the active records become the archive's.
Shrink ==
  /\ shrink = "work" /\ shrink' = "idle" /\ Races
  /\ LET before == IF live.messages = <<>> /\ disk.exists THEN Loaded(disk) ELSE live IN
     \/ live' = before
     \/ live' = [before EXCEPT !.messages = <<>>, !.archive = @ \cup ToSet(before.messages)]
  /\ UNCHANGED <<files, run, lock, tool, intake, texts, bounded>>

-----------------------------------------------------------------------------
\* The process dies: the memory, the locks and the calls are gone; the Agent
\* remembers what it saw.
Crash ==
  /\ crashes < MaxCrashes /\ crashes' = crashes + 1 /\ live' = Blank
  /\ run' = "idle" /\ lock' = Nobody /\ intake' = "idle" /\ shrink' = "idle"
  /\ tool' = [e \in Tools |-> [tool[e] EXCEPT !.pc = "idle", !.work = NoWork]]
  /\ UNCHANGED <<files, texts, raced, compactions, imports, faults>>

Host == CheckIdle \/ ImportLoad \/ ImportAppend \/ CheckCompact \/ Shrink
Next == Admit \/ Begin \/ Say \/ SaveRound \/ Tool \/ Host \/ Crash

Spec == Init /\ [][Next]_vars
====================================================================================
