------------------------------ MODULE SessionCatalog ------------------------------
(***************************************************************************)
(* Which Sessions exist: the registry in memory, the catalog on disk, the  *)
(* index and the archives of the former backend, and the directory of each *)
(* Session.  API threads create, delete, rename and configure Sessions and *)
(* admit runs; two deletions may overlap (the deletion pool has two        *)
(* workers beside the API).  The host dies anywhere and starts again.      *)
(*                                                                         *)
(* A Session is told from an earlier one of the same id by its generation. *)
(* Sessions are not bound to a project of the user; stopping the execution *)
(* of a Session that is deleted is SessionExecution's.                     *)
(***************************************************************************)
EXTENDS Naturals

CONSTANTS
  Ids,         \* Session ids
  Odd,         \* ids of the old index that validate_session_id refuses
  Jobs,        \* threads that serve requests about Sessions
  MaxCalls,    \* bound: requests
  MaxCrashes,  \* bound: deaths of the host
  MaxFaults    \* bound: writes and removals that fail

VARIABLES
  up,        \* "down", "import", "rehydrate" or "serving"
  registry,  \* SessionHandler: generation of each registered id, 0 if none
  catalog,   \* workspaces.json
  imported,  \* its legacy_workspace_imported
  index,     \* ids of the old sessions.json
  archive,   \* ids with an archived conversation
  files,     \* generations whose files are in each Session's directory
  home,      \* the Sessions whose workspace directory exists
  job,       \* the request of each thread
  clock,     \* generations so far
  calls, crashes, faults,
  gone,      \* ids whose Session was taken from the catalog and not made again
  stray      \* ids whose directory was written to while it was being made or removed

catalogued == <<up, registry, catalog, imported, index, archive, files, home, job, clock,
                crashes, faults, gone, stray>>
sessions == <<catalogued, calls>>

Unlisted == [gen |-> 0, name |-> 0]
NoId == "none"
Idle == [pc |-> "idle", op |-> "none", id |-> NoId, gen |-> 0, seen |-> Unlisted,
         rest |-> {}, late |-> FALSE]
Listed == {id \in Ids : catalog[id] # Unlisted}

TypeOK ==
  /\ up \in {"down", "import", "rehydrate", "serving"} /\ imported \in BOOLEAN
  /\ registry \in [Ids -> 0..clock] /\ catalog \in [Ids -> [gen : 0..clock, name : 0..clock]]
  /\ index \subseteq Ids /\ archive \subseteq Ids /\ home \subseteq Ids /\ gone \subseteq Ids /\ stray \subseteq Ids
  /\ files \in [Ids -> SUBSET (1..clock)]
  /\ calls \in 0..MaxCalls /\ crashes \in 0..MaxCrashes /\ faults \in 0..MaxFaults

\* A host that has served nobody yet, over what the former backend left.
Init ==
  /\ up = "import" /\ registry = [id \in Ids |-> 0] /\ catalog = [id \in Ids |-> Unlisted]
  /\ imported = FALSE /\ index \in SUBSET Ids /\ archive = index
  /\ files = [id \in Ids |-> {}] /\ home = {}
  /\ job = [j \in Jobs |-> Idle] /\ clock = 1 /\ gone = {} /\ stray = {}
  /\ calls = 0 /\ crashes = 0 /\ faults = 0

Fault == faults < MaxFaults /\ faults' = faults + 1

\* Every write of the catalog keeps the marker it finds.
Save(records) == catalog' = records /\ UNCHANGED imported

-----------------------------------------------------------------------------
\* The host starts: the old index once, then the registry from the catalog.

Import ==
  /\ up = "import" /\ up' = "rehydrate"
  /\ IF imported THEN UNCHANGED <<catalog, imported, clock, gone>>
     ELSE /\ catalog' = [id \in Ids |-> IF id \in index \ Listed THEN [gen |-> clock + 1, name |-> 0]
                                                                 ELSE catalog[id]]
          /\ imported' = TRUE /\ clock' = clock + 1 /\ UNCHANGED gone
  /\ UNCHANGED <<registry, index, archive, files, home, job, calls, crashes, faults, stray>>

\* A listed id that create refuses ends the constructor of the host.
Rehydrate ==
  /\ up = "rehydrate"
  /\ \/ /\ Listed \cap Odd = {} /\ up' = "serving"
        /\ registry' = [id \in Ids |-> catalog[id].gen]
     \/ /\ Listed \cap Odd # {} /\ up' = "down" /\ UNCHANGED registry
  /\ UNCHANGED <<catalog, imported, index, archive, files, home, job, clock, calls, crashes, faults, gone, stray>>

Restart ==
  /\ up = "down" /\ up' = "import"
  /\ UNCHANGED <<registry, catalog, imported, index, archive, files, home, job, clock, calls, crashes,
                 faults, gone, stray>>

\* What was in memory goes with the process.
Crash ==
  /\ up # "down" /\ crashes < MaxCrashes
  /\ up' = "down" /\ crashes' = crashes + 1
  /\ registry' = [id \in Ids |-> 0] /\ job' = [j \in Jobs |-> Idle]
  /\ UNCHANGED <<catalog, imported, index, archive, files, home, clock, calls, faults, gone, stray>>

-----------------------------------------------------------------------------
\* Requests.

Count == up = "serving" /\ calls < MaxCalls /\ calls' = calls + 1

First(op) == CASE op = "create" -> "mkdir" [] op = "delete" -> "check" [] op = "rename" -> "rename"
               [] op = "start" -> "touch" [] op = "profile" -> "exists"

\* An odd id is refused or unknown.  A new name is a number of its own.
Ask(j, op, id) ==
  /\ Count /\ job[j] = Idle /\ id \notin Odd
  /\ clock' = IF op = "rename" THEN clock + 1 ELSE clock
  /\ job' = [job EXCEPT ![j] = [Idle EXCEPT !.pc = First(op), !.op = op, !.id = id, !.gen = clock']]
  /\ UNCHANGED <<up, registry, catalog, imported, index, archive, files, home, crashes, faults, gone, stray>>

At(j, point) == up = "serving" /\ job[j].pc = point
To(j, point) == job' = [job EXCEPT ![j].pc = point]
End(j) == job' = [job EXCEPT ![j] = Idle]

\* create makes the project directory before it knows that the id is free.
CreateDir(j) ==
  /\ At(j, "mkdir") /\ To(j, "register") /\ home' = home \cup {job[j].id}
  /\ UNCHANGED <<up, registry, catalog, imported, index, archive, files, clock, calls, crashes, faults, gone, stray>>

\* The Session that takes the id is a generation of its own; its first name is that number.
Register(j) ==
  LET id == job[j].id IN
  /\ At(j, "register")
  /\ IF registry[id] # 0 THEN End(j) /\ UNCHANGED <<registry, clock>>
     ELSE /\ clock' = clock + 1 /\ registry' = [registry EXCEPT ![id] = clock']
          /\ job' = [job EXCEPT ![j] = [@ EXCEPT !.pc = "add", !.gen = clock']]
  /\ UNCHANGED <<up, catalog, imported, index, archive, files, home, calls, crashes, faults, gone, stray>>

Add(j) ==
  LET id == job[j].id IN
  /\ At(j, "add") /\ id \notin Listed /\ End(j)
  /\ Save([catalog EXCEPT ![id] = [gen |-> job[j].gen, name |-> job[j].gen]]) /\ gone' = gone \ {id}
  /\ UNCHANGED <<up, registry, index, archive, files, home, clock, calls, crashes, faults, stray>>

\* Mutant: a Session that could not be listed stays registered.
AddFailsKept(j) ==
  /\ At(j, "add") /\ Fault /\ End(j)
  /\ UNCHANGED <<up, registry, catalog, imported, index, archive, files, home, clock, calls, crashes, gone, stray>>

\* Requests that have looked at the Session before it went come late.
Late(j, id, record) ==
  job' = [i \in Jobs |-> IF i = j THEN record
                         ELSE [job[i] EXCEPT !.late = @ \/ (job[i].id = id /\ job[i].pc = "write")]]

\* The registration is undone; files written meanwhile stay.
AddFails(j) ==
  LET id == job[j].id IN
  /\ At(j, "add") /\ Late(j, id, Idle) /\ registry' = [registry EXCEPT ![id] = 0]
  /\ IF id \in Listed THEN UNCHANGED faults ELSE Fault
  /\ UNCHANGED <<up, catalog, imported, index, archive, files, home, clock, calls, crashes, gone, stray>>

-----------------------------------------------------------------------------
\* delete, after the execution has stopped.

\* Mutant: the Session is taken from the catalog and the registry first.
AfterListFirst(point) == CASE point = "check" -> "unlist" [] point = "unlist" -> "forget" [] point = "forget" -> "tree"
                           [] point = "tree" -> "archive" [] point = "archive" -> "index" [] OTHER -> "idle"

After(point) == CASE point = "check" -> "tree" [] point = "tree" -> "archive" [] point = "archive" -> "index"
                  [] point = "index" -> "unlist" [] point = "unlist" -> "forget" [] OTHER -> "idle"

Goes(j) == IF After(job[j].pc) = "idle" THEN End(j) ELSE To(j, After(job[j].pc))

DeleteCheck(j) ==
  /\ At(j, "check")
  /\ IF job[j].id \in Listed /\ registry[job[j].id] # 0 THEN Goes(j) ELSE End(j)
  /\ UNCHANGED <<up, registry, catalog, imported, index, archive, files, home, clock, calls, crashes, faults, gone, stray>>

RemoveTree(j) ==
  LET id == job[j].id IN
  /\ At(j, "tree")
  /\ Late(j, id, [job[j] EXCEPT !.pc = After("tree")])
  /\ files' = [files EXCEPT ![id] = {}] /\ home' = home \ {id} /\ stray' = stray \ {id}
  /\ UNCHANGED <<up, registry, catalog, imported, index, archive, clock, calls, crashes, faults, gone>>

\* rmtree stops half way and the deletion is reported as failed.
RemoveTreeFails(j) ==
  LET id == job[j].id IN
  /\ At(j, "tree") /\ Fault /\ End(j)
  /\ \E left \in SUBSET files[id] : files' = [files EXCEPT ![id] = left]
  /\ home' \in {home, home \ {id}}
  /\ UNCHANGED <<up, registry, catalog, imported, index, archive, clock, calls, crashes, gone, stray>>

RemoveArchive(j) ==
  /\ At(j, "archive") /\ Goes(j) /\ archive' = archive \ {job[j].id}
  /\ UNCHANGED <<up, registry, catalog, imported, index, files, home, clock, calls, crashes, faults, gone, stray>>

\* The index is read and written without a lock.
ReadIndex(j) ==
  /\ At(j, "index")
  /\ IF job[j].id \in index
     THEN job' = [job EXCEPT ![j].pc = "reindex", ![j].rest = index \ {job[j].id}]
     ELSE Goes(j)
  /\ UNCHANGED <<up, registry, catalog, imported, index, archive, files, home, clock, calls, crashes, faults, gone, stray>>

WriteIndex(j) ==
  /\ At(j, "reindex")
  /\ job' = [job EXCEPT ![j] = IF After("index") = "idle" THEN Idle ELSE [@ EXCEPT !.pc = After("index"), !.rest = {}]]
  /\ index' = job[j].rest
  /\ UNCHANGED <<up, registry, catalog, imported, archive, files, home, clock, calls, crashes, faults, gone, stray>>

\* The other deletion was first: KeyError.
Unlist(j) ==
  LET id == job[j].id IN
  /\ At(j, "unlist")
  /\ IF id \notin Listed THEN End(j) /\ UNCHANGED <<catalog, imported, gone>>
     ELSE Goes(j) /\ Save([catalog EXCEPT ![id] = Unlisted]) /\ gone' = gone \cup {id}
  /\ UNCHANGED <<up, registry, index, archive, files, home, clock, calls, crashes, faults, stray>>

Forget(j) ==
  /\ At(j, "forget") /\ Goes(j) /\ registry' = [registry EXCEPT ![job[j].id] = 0]
  /\ UNCHANGED <<up, catalog, imported, index, archive, files, home, clock, calls, crashes, faults, gone, stray>>

\* The index or the catalog cannot be written.
DeleteFails(j) ==
  /\ job[j].pc \in {"reindex", "unlist"} /\ up = "serving" /\ Fault /\ End(j)
  /\ UNCHANGED <<up, registry, catalog, imported, index, archive, files, home, clock, calls, crashes, gone, stray>>

-----------------------------------------------------------------------------
\* Requests of a Session that exists.

Rename(j) ==
  LET id == job[j].id IN
  /\ At(j, "rename") /\ End(j)
  /\ IF id \in Listed THEN Save([catalog EXCEPT ![id].name = job[j].gen]) ELSE UNCHANGED <<catalog, imported>>
  /\ UNCHANGED <<up, registry, index, archive, files, home, clock, calls, crashes, faults, gone, stray>>

\* touch_activity of a start call: the record is read, then written back.
TouchRead(j) ==
  LET id == job[j].id IN
  /\ At(j, "touch")
  /\ IF registry[id] # 0 /\ id \in Listed
     THEN job' = [job EXCEPT ![j].pc = "replace", ![j].seen = catalog[id]]
     ELSE End(j)
  /\ UNCHANGED <<up, registry, catalog, imported, index, archive, files, home, clock, calls, crashes, faults, gone, stray>>

TouchReplace(j) ==
  LET id == job[j].id IN
  /\ At(j, "replace") /\ End(j)
  /\ IF id \in Listed THEN Save([catalog EXCEPT ![id] = job[j].seen]) ELSE UNCHANGED <<catalog, imported>>
  /\ UNCHANGED <<up, registry, index, archive, files, home, clock, calls, crashes, faults, gone, stray>>

\* The Session is registered and not listed yet, or its tree has gone already.
Passing(id) ==
  id \notin Listed \/ \E j \in Jobs : /\ job[j].op = "delete" /\ job[j].id = id
                                     /\ job[j].pc \in {"archive", "index", "reindex", "unlist", "forget"}

\* The profile of a Session: the id is looked up, then its file is written.
ProfileCheck(j) ==
  /\ At(j, "exists")
  /\ IF registry[job[j].id] = 0 THEN End(j)
     ELSE job' = [job EXCEPT ![j].pc = "write", ![j].gen = registry[job[j].id], ![j].late = Passing(job[j].id)]
  /\ UNCHANGED <<up, registry, catalog, imported, index, archive, files, home, clock, calls, crashes, faults, gone, stray>>

ProfileWrite(j) ==
  LET id == job[j].id IN
  /\ At(j, "write") /\ End(j)
  /\ files' = [files EXCEPT ![id] = @ \cup {job[j].gen}]
  /\ stray' = IF job[j].late \/ Passing(id) THEN stray \cup {id} ELSE stray
  /\ UNCHANGED <<up, registry, catalog, imported, index, archive, home, clock, calls, crashes, faults, gone>>

Create(j) == CreateDir(j) \/ Register(j) \/ Add(j) \/ AddFails(j)
Delete(j) == \/ DeleteCheck(j) \/ RemoveTree(j) \/ RemoveTreeFails(j) \/ RemoveArchive(j) \/ ReadIndex(j)
             \/ WriteIndex(j) \/ Unlist(j) \/ Forget(j) \/ DeleteFails(j)
Ops == {"create", "delete", "rename", "start", "profile"}
=====================================================================================
