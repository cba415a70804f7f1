------------------------------ MODULE PluginManager ------------------------------
(***************************************************************************)
(* PluginManager with its registry document, the process-wide ToolRegistry *)
(* it publishes to, and the Session's Agent that is rebuilt when the       *)
(* registry's revision changes. load and unload run under the manager's    *)
(* lock; register and replace_settings do not.                             *)
(***************************************************************************)
EXTENDS Integers, Sequences, FiniteSets

CONSTANTS
  Names,       \* manifest names; the durable id of a plugin is its name
  Roots,       \* the discovery roots, in the order they are scanned
  Versions,    \* what a package can hold: its manifest and its code
  Shipped,     \* the versions a package directory may hold at first
  Module,      \* name -> the module its entry is imported as
  Threads,     \* threads that serve the workbench's requests
  Values,      \* what the settings of a plugin can be
  MaxEdits, MaxRequests, MaxRestarts   \* bounds of the model

\* A version: its kind and permissions, whether it shows settings, the category
\* of each tool contribution, whether it contributes context, how setup ends.
\* A theme pack runs no code, so it contributes none.
ASSUME VersionsAssumption ==
  /\ Shipped \subseteq Versions
  /\ \A v \in Versions :
    /\ v.kind \in {"tool", "theme_pack"} /\ v.settings \in BOOLEAN /\ v.context \in BOOLEAN
    /\ v.setup \in {"returns", "raises"} /\ v.contributions \in Seq(STRING)
    /\ v.kind = "theme_pack" => v.contributions = <<>>

VARIABLES
  disk,        \* name -> place of a root -> what the package directory holds
  edits,
  registry,    \* name -> its record in registry.json
  loaded,      \* name -> the LoadedPlugin
  tools,       \* the ToolRegistry's plugin providers
  revision,    \* of the ToolRegistry
  modules,     \* sys.modules: module -> the plugin it was imported for
  job,         \* thread -> the request it serves
  lock,        \* the thread inside the manager's lock
  restoring,   \* names restore_enabled has still to load; requests wait for it
  up,          \* the host has started
  agent,       \* the cached Agent: its fingerprint, its tools and its context
  build,       \* the Agent that is being built
  confirmed,   \* history: name -> the permissions the user confirmed
  requests, restarts

process == <<loaded, tools, revision, modules, lock>>
agents == <<agent, build>>
bounds == <<edits, requests, restarts>>
vars == <<disk, registry, process, job, restoring, up, agents, confirmed, bounds>>

Missing == [kind |-> "missing"]    \* no package directory
Broken == [kind |-> "broken"]      \* a directory whose manifest is not valid
NoRecord == [path |-> 0]
NotLoaded == [version |-> Missing]
NoPlugin == "none"
Free == "free"
Host == "host"          \* the main thread, before it serves requests
Workers == Threads \cup {Host}
Places == 1..Len(Roots)
Permissions == UNION {v.permissions : v \in Versions}
ASSUME NamesAssumption == Free \notin Workers /\ NoPlugin \notin Names
ModuleNames == {Module[n] : n \in Names}
Record == [path : Places, enabled : BOOLEAN, granted : SUBSET Permissions, settings : Values]
Loaded == [version : Versions, settings : Values]
Idle == [pc |-> "idle", op |-> "load", name |-> CHOOSE n \in Names : TRUE, record |-> NoRecord,
         version |-> CHOOSE v \in Versions : TRUE, count |-> 0, value |-> "default"]
NoAgent == [revision |-> -1, tools |-> {}, context |-> {}]
NoBuild == [pc |-> "idle", agent |-> NoAgent]

Provider(n, i, v) == [name |-> n, index |-> i, category |-> v.contributions[i]]
Providers(n, v) == {Provider(n, i, v) : i \in 1..Len(v.contributions)}

\* What register stores of a package it meets for the first time.
NewRecord(p) == [path |-> p, enabled |-> FALSE, granted |-> {}, settings |-> "default"]

TypeOK ==
  /\ disk \in [Names -> [Places -> Versions \cup {Missing, Broken}]]
  /\ \A n \in Names : registry[n] = NoRecord \/ registry[n] \in Record
  /\ \A n \in Names : loaded[n] = NotLoaded \/ loaded[n] \in Loaded
  /\ \A t \in tools : t.name \in Names
  /\ modules \in [ModuleNames -> Names \cup {NoPlugin}]
  /\ \A w \in Workers :
       /\ job[w].pc \in {"idle", "lock", "read", "refresh", "check", "setup", "publish",
                         "keep", "withdraw", "teardown", "disable", "put"}
       /\ job[w].record = NoRecord \/ job[w].record \in Record
  /\ lock \in Workers \cup {Free} /\ restoring \subseteq Names /\ up \in BOOLEAN
  /\ confirmed \in [Names -> SUBSET Permissions]
  /\ build.pc \in {"idle", "tools", "context"}

Init ==
  /\ disk \in [Names -> [Places -> Shipped \cup {Missing}]]
  /\ registry \in [Names -> {NoRecord, NewRecord(1)}] /\ loaded = [n \in Names |-> NotLoaded]
  /\ tools = {} /\ revision = 0 /\ modules = [m \in ModuleNames |-> NoPlugin]
  /\ job = [w \in Workers |-> Idle] /\ lock = Free /\ restoring = {} /\ up = TRUE
  /\ agent = NoAgent /\ build = NoBuild /\ confirmed = [n \in Names |-> {}]
  /\ edits = 0 /\ requests = 0 /\ restarts = 0

-----------------------------------------------------------------------------
\* The registry document and discovery.

\* _scalar calls is_finite on a float, which has no such method: a stored
\* float makes every later read of the document raise.
Readable == \A n \in Names : registry[n] # NoRecord => registry[n].settings # "float"

\* rescan: the first root that holds a valid manifest of the name.
Valid(n) == {p \in Places : disk[n][p] \in Versions}
Discovered(n) == CHOOSE p \in Valid(n) : \A q \in Valid(n) : p <= q

\* The user installs, replaces, damages or removes a package directory.
EditPackage ==
  /\ edits < MaxEdits /\ edits' = edits + 1
  /\ \E n \in Names, p \in Places, what \in Versions \cup {Missing, Broken} :
       disk' = [disk EXCEPT ![n][p] = what]
  /\ UNCHANGED <<registry, process, job, restoring, up, agents, confirmed, requests, restarts>>

-----------------------------------------------------------------------------
\* A request: load with or without confirmation, unload, settings, register.

Locked == {"load", "confirm", "unload"}

Ask(t) ==
  /\ up /\ restoring = {} /\ job[Host] = Idle /\ job[t] = Idle
  /\ requests < MaxRequests /\ requests' = requests + 1
  /\ \E n \in Names, op \in Locked \cup {"settings", "register"}, x \in Values :
       /\ op # "settings" => x = "default"
       /\ job' = [job EXCEPT ![t] = [Idle EXCEPT !.pc = IF op \in Locked THEN "lock" ELSE "read",
                                                 !.op = op, !.name = n, !.value = x]]
  /\ UNCHANGED <<disk, registry, process, restoring, up, agents, confirmed, edits, restarts>>

\* restore_enabled loads one enabled record after another, without confirming.
RestoreNext ==
  /\ up /\ job[Host] = Idle
  /\ \E n \in restoring :
       /\ restoring' = restoring \ {n}
       /\ job' = [job EXCEPT ![Host] = [Idle EXCEPT !.pc = "lock", !.name = n]]
  /\ UNCHANGED <<disk, registry, process, up, agents, confirmed, bounds>>

Enter(t) ==
  /\ job[t].pc = "lock" /\ lock = Free /\ lock' = t /\ job' = [job EXCEPT ![t].pc = "read"]
  /\ UNCHANGED <<disk, registry, loaded, tools, revision, modules, restoring, up, agents, confirmed, bounds>>

\* A request returns or raises, and leaves the lock if it is inside.
Ends(t) == job' = [job EXCEPT ![t] = Idle] /\ lock' = (IF lock = t THEN Free ELSE lock)
Goes(t, new) == job' = [job EXCEPT ![t] = new] /\ UNCHANGED lock

\* The record is read once, here, and written back at the end of the request.
Read(t) ==
  LET j == job[t]
      old == registry[j.name]
  IN /\ j.pc = "read"
     /\ \/ /\ ~Readable \/ (old = NoRecord /\ j.op # "register") \/ (j.op = "register" /\ Valid(j.name) = {})
           /\ Ends(t)
        \/ /\ Readable /\ old # NoRecord /\ j.op # "register"
           /\ Goes(t, [j EXCEPT !.pc = "refresh", !.record = old])
        \/ /\ Readable /\ j.op = "register" /\ Valid(j.name) # {}
           /\ LET moved == IF old = NoRecord THEN NewRecord(Discovered(j.name)) ELSE [old EXCEPT !.path = Discovered(j.name)]
              IN Goes(t, [j EXCEPT !.pc = "put", !.record = moved])
     /\ UNCHANGED <<disk, registry, loaded, tools, revision, modules, restoring, up, agents, confirmed, bounds>>

\* _refresh_record_path: a directory that is gone is looked for in the roots.
Refresh(t) ==
  LET j == job[t]
      stays == disk[j.name][j.record.path] # Missing \/ Valid(j.name) = {}
      moved == [j.record EXCEPT !.path = Discovered(j.name)]
  IN /\ j.pc = "refresh"
     /\ IF stays THEN Goes(t, [j EXCEPT !.pc = "check"]) /\ UNCHANGED registry
        ELSE IF Readable THEN /\ Goes(t, [j EXCEPT !.pc = "check", !.record = moved])
                              /\ registry' = [registry EXCEPT ![j.name] = moved]
        ELSE Ends(t) /\ UNCHANGED registry
     /\ UNCHANGED <<disk, loaded, tools, revision, modules, restoring, up, agents, confirmed, bounds>>

\* register puts the record it has read, or a new one.
PutRegistered(t) ==
  LET j == job[t]
  IN /\ j.pc = "put" /\ Ends(t)
     /\ registry' = IF Readable THEN [registry EXCEPT ![j.name] = j.record] ELSE registry
     /\ UNCHANGED <<disk, loaded, tools, revision, modules, restoring, up, agents, confirmed, bounds>>

\* _manifest_for_record: the package's manifest as it is now.
Manifest(j) == disk[j.name][j.record.path]

\* KeyError for a package that is gone or broken: nothing is changed, an
\* unload leaves the plugin's tools where they are.
NoManifest(t) ==
  /\ job[t].pc = "check" /\ Manifest(job[t]) \notin Versions /\ Ends(t)
  /\ UNCHANGED <<disk, registry, loaded, tools, revision, modules, restoring, up, agents, confirmed, bounds>>

ReplaceSettings(t) ==
  LET j == job[t]
  IN /\ j.pc = "check" /\ j.op = "settings" /\ Manifest(j) \in Versions /\ Ends(t)
     /\ registry' = IF Manifest(j).settings /\ Readable
                    THEN [registry EXCEPT ![j.name] = [j.record EXCEPT !.settings = j.value]] ELSE registry
     /\ UNCHANGED <<disk, loaded, tools, revision, modules, restoring, up, agents, confirmed, bounds>>

-----------------------------------------------------------------------------
\* load

Lacking(j) == Manifest(j).permissions \ j.record.granted

\* Mutant: permissions the manifest has gained are granted without asking.
ApproveAll(t) ==
  LET j == job[t]
      granted == [j.record EXCEPT !.enabled = TRUE, !.granted = @ \cup Lacking(j)]
      next == IF Manifest(j).kind = "tool" THEN "setup" ELSE "keep"
  IN /\ j.pc = "check" /\ j.op \in {"load", "confirm"} /\ Manifest(j) \in Versions
     /\ IF ~Readable \/ (Lacking(j) # {} /\ j.op # "confirm" /\ j.record.granted = {})
        THEN Ends(t) /\ UNCHANGED <<registry, confirmed>>
        ELSE /\ registry' = [registry EXCEPT ![j.name] = granted]
             /\ confirmed' = [confirmed EXCEPT ![j.name] = IF j.op = "confirm" THEN @ \cup Lacking(j) ELSE @]
             /\ IF loaded[j.name] # NotLoaded THEN Ends(t)
                ELSE Goes(t, [j EXCEPT !.pc = next, !.record = granted, !.version = Manifest(j)])
     /\ UNCHANGED <<disk, loaded, tools, revision, modules, restoring, up, agents, bounds>>

\* The record is enabled and granted before the package has been executed.
Approve(t) ==
  LET j == job[t]
      granted == [j.record EXCEPT !.enabled = TRUE, !.granted = @ \cup Lacking(j)]
      next == IF Manifest(j).kind = "tool" THEN "setup" ELSE "keep"
  IN /\ j.pc = "check" /\ j.op \in {"load", "confirm"} /\ Manifest(j) \in Versions
     /\ IF ~Readable \/ (Lacking(j) # {} /\ j.op # "confirm")
        THEN Ends(t) /\ UNCHANGED <<registry, confirmed>>
        ELSE /\ registry' = [registry EXCEPT ![j.name] = granted]
             /\ confirmed' = [confirmed EXCEPT ![j.name] = IF j.op = "confirm" THEN @ \cup Lacking(j) ELSE @]
             /\ IF loaded[j.name] # NotLoaded THEN Ends(t)
                ELSE Goes(t, [j EXCEPT !.pc = next, !.record = granted, !.version = Manifest(j)])
     /\ UNCHANGED <<disk, loaded, tools, revision, modules, restoring, up, agents, bounds>>

\* _load: the module is put in sys.modules, executed, and its setup called.
SetUp(t) ==
  LET j == job[t]
      m == Module[j.name]
  IN /\ j.pc = "setup"
     /\ IF j.version.setup = "returns"
        THEN Goes(t, [j EXCEPT !.pc = "publish"]) /\ modules' = [modules EXCEPT ![m] = j.name]
        ELSE Ends(t) /\ modules' = [modules EXCEPT ![m] = NoPlugin]
     /\ UNCHANGED <<disk, registry, loaded, tools, revision, restoring, up, agents, confirmed, bounds>>

Clashes(j) == \E t \in tools : t.name = j.name /\ t.category = j.version.contributions[j.count + 1]

\* _publish registers one contribution after the other.
Publish(t) ==
  LET j == job[t]
  IN /\ j.pc = "publish" /\ j.count < Len(j.version.contributions) /\ ~Clashes(j)
     /\ Goes(t, [j EXCEPT !.count = @ + 1]) /\ revision' = revision + 1
     /\ tools' = tools \cup {Provider(j.name, j.count + 1, j.version)}
     /\ UNCHANGED <<disk, registry, loaded, modules, restoring, up, agents, confirmed, bounds>>

\* A refused contribution takes the published ones back.
Rollback(t) ==
  LET j == job[t]
  IN /\ j.pc = "publish" /\ j.count < Len(j.version.contributions) /\ Clashes(j) /\ Ends(t)
     /\ tools' = {x \in tools : x.name # j.name} /\ revision' = revision + j.count
     /\ modules' = [modules EXCEPT ![Module[j.name]] = NoPlugin]
     /\ UNCHANGED <<disk, registry, loaded, restoring, up, agents, confirmed, bounds>>

Keep(t) ==
  LET j == job[t]
  IN /\ \/ j.pc = "keep"
        \/ j.pc = "publish" /\ j.count = Len(j.version.contributions)
     /\ Ends(t)
     /\ loaded' = [loaded EXCEPT ![j.name] = [version |-> j.version, settings |-> j.record.settings]]
     /\ UNCHANGED <<disk, registry, tools, revision, modules, restoring, up, agents, confirmed, bounds>>

-----------------------------------------------------------------------------
\* unload

Pop(t) ==
  LET j == job[t]
      old == loaded[j.name]
  IN /\ j.pc = "check" /\ j.op = "unload" /\ Manifest(j) \in Versions
     /\ IF old = NotLoaded THEN Goes(t, [j EXCEPT !.pc = "disable"])
        ELSE Goes(t, [j EXCEPT !.pc = "withdraw", !.version = old.version])
     /\ loaded' = [loaded EXCEPT ![j.name] = NotLoaded]
     /\ UNCHANGED <<disk, registry, tools, revision, modules, restoring, up, agents, confirmed, bounds>>

Unregister(t) ==
  LET j == job[t]
  IN /\ j.pc = "withdraw" /\ j.count < Len(j.version.contributions)
     /\ Goes(t, [j EXCEPT !.count = @ + 1]) /\ revision' = revision + 1
     /\ tools' = tools \ {Provider(j.name, j.count + 1, j.version)}
     /\ UNCHANGED <<disk, registry, loaded, modules, restoring, up, agents, confirmed, bounds>>

\* teardown may raise, which is ignored, and may take its time.
TearDown(t) ==
  LET j == job[t]
  IN /\ j.pc = "withdraw" /\ j.count = Len(j.version.contributions)
     /\ Goes(t, [j EXCEPT !.pc = "disable"])
     /\ modules' = IF j.version.kind = "tool" THEN [modules EXCEPT ![Module[j.name]] = NoPlugin] ELSE modules
     /\ UNCHANGED <<disk, registry, loaded, tools, revision, restoring, up, agents, confirmed, bounds>>

Disable(t) ==
  LET j == job[t]
  IN /\ j.pc = "disable" /\ Ends(t)
     /\ registry' = IF Readable THEN [registry EXCEPT ![j.name] = [j.record EXCEPT !.enabled = FALSE]] ELSE registry
     /\ UNCHANGED <<disk, loaded, tools, revision, modules, restoring, up, agents, confirmed, bounds>>

-----------------------------------------------------------------------------
\* ensure_coordinator: an Agent is kept while its fingerprint is current.

Fingerprint ==
  /\ up /\ build = NoBuild /\ agent.revision # revision
  /\ build' = [pc |-> "tools", agent |-> [NoAgent EXCEPT !.revision = revision]]
  /\ UNCHANGED <<disk, registry, process, job, restoring, up, agent, confirmed, bounds>>

\* ToolRegistry.materialize.
Materialize ==
  /\ build.pc = "tools" /\ build' = [build EXCEPT !.pc = "context", !.agent.tools = tools]
  /\ UNCHANGED <<disk, registry, process, job, restoring, up, agent, confirmed, bounds>>


\* The registry changed while it was iterated: the build raises.
MaterializeRaises ==
  /\ build.pc = "tools" /\ lock # Free /\ job[lock].pc \in {"publish", "withdraw"} /\ build' = NoBuild
  /\ UNCHANGED <<disk, registry, process, job, restoring, up, agent, confirmed, bounds>>

\* Mutant: the fingerprint is taken when the Agent is kept.
MaterializeContextLate ==
  /\ build.pc = "context" /\ lock = Free /\ build' = NoBuild
  /\ agent' = [build.agent EXCEPT !.revision = revision, !.context = {}]
  /\ UNCHANGED <<disk, registry, process, job, restoring, up, confirmed, bounds>>

\* materialize_context_providers takes the manager's lock; the Agent is kept.
MaterializeContext ==
  /\ build.pc = "context" /\ lock = Free /\ build' = NoBuild
  /\ agent' = [build.agent EXCEPT !.context = {n \in Names : loaded[n] # NotLoaded /\ loaded[n].version.context}]
  /\ UNCHANGED <<disk, registry, process, job, restoring, up, confirmed, bounds>>

-----------------------------------------------------------------------------
\* The host stops and starts again; a registry it cannot read ends the start.
Restart ==
  /\ up /\ restarts < MaxRestarts /\ restarts' = restarts + 1
  /\ loaded' = [n \in Names |-> NotLoaded] /\ tools' = {} /\ revision' = 0
  /\ modules' = [m \in ModuleNames |-> NoPlugin] /\ lock' = Free
  /\ job' = [w \in Workers |-> Idle] /\ agent' = NoAgent /\ build' = NoBuild
  /\ up' = Readable
  /\ restoring' = IF Readable THEN {n \in Names : registry[n] # NoRecord /\ registry[n].enabled} ELSE {}
  /\ UNCHANGED <<disk, registry, confirmed, edits, requests>>

Step(t) ==
  \/ Ask(t) \/ Enter(t) \/ Read(t) \/ Refresh(t) \/ PutRegistered(t) \/ NoManifest(t)
  \/ ReplaceSettings(t) \/ Approve(t) \/ SetUp(t) \/ Publish(t) \/ Rollback(t) \/ Keep(t)
  \/ Pop(t) \/ Unregister(t) \/ TearDown(t) \/ Disable(t)

Next ==
  \/ EditPackage \/ RestoreNext \/ Restart
  \/ \E t \in Workers : (t # Host \/ job[t] # Idle) /\ Step(t)
  \/ Fingerprint \/ Materialize \/ MaterializeRaises \/ MaterializeContext

Spec == Init /\ [][Next]_vars
===================================================================================
