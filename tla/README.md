# Angelus in TLA+

Angelus is a local host for LLM agent swarms: a Python server (`angelus/`), its
browser frontend (`frontend/`), plugins and a desktop shell. A *Session* owns a
swarm of Agents, its durable state directory and at most one running *execution
attempt*. This directory models the parts of the host where threads, files,
processes and deadlines meet, checks them with TLC and proves the most important
properties with TLAPS. The code is the reference; paths below are relative to
`angelus/modules/` unless they say otherwise.

## The system

| Part | State | Operations | What is hard |
|---|---|---|---|
| `execution_module/execution_attempt.py`, `journal.py`, `checkpoint_store.py` | lifecycle fields under an RLock, `_done`; journal, run-graph files, manifest on disk | start, transition, request_stop, commit_checkpoint, mark_interrupted, `_run` | worker, API, hook and supervisor race; every disk write can fail or be the last before a crash |
| `execution_module/reconcile.py` | none of its own | marks what a dead host left | it only sees manifests, and it can be killed too |
| `execution_module/trace_buffer.py` | pending records, sequence numbers, flush thread | append, flush, close, background flush | failed flushes are repeated, partial lines, close racing the thread |
| `execution_module/sigint_supervisor.py`, `angelus/core.py` | attempts captured at Ctrl+C | force-stop all, bounded wait, interrupt | the deadline races workers that return late |
| `swarm_module/session_executor.py`, `session_module/session_handler.py` | latest attempt, coordinator, swarm, dirty flag, run control | start, stop, wait | fields shared by threads without a lock around a whole operation |
| `application_module/execution_service.py`, `agent_control.py` | run control of the current run | start with `run_swarm`, stop, control | values read before and used after another call changed them |
| `application_module/session_service.py`, `workspace_module/workspace_catalog.py` | catalog, registry, old index, archive, files; deletion operations | create, rename, touch, delete, rehydrate, ensure_coordinator, rebuild_swarm, compact | five stores written one after the other; deletions overlap runs and each other |
| `application_module/swarm_graph_service.py`, `console_module/console_state.py` | topology in memory, in `console/state.json` and in the live swarm | edits with validation, save, live application, rollback | an edit or its undo fails half way, a rebuild runs beside it |
| `console_module/console_tools.py` and the plans of `ConsoleState` | task forests, statuses, bindings | set_plan, upsert, update, dispatch, revive, report | workers report from their own threads, before or after the binding is written |
| `run_graph_module/` | graph folded from the journal; checkpoints | reduce, project, seed, page events | a checkpoint overlays a live view on a journal that grows |
| `execution_module/journal_tail.py`, `angelus/api/session_console.py`, `console_module/projection_service/` | cursors, cache of call ledgers | event stream, backward pages, ledger | several reads of files that grow and attempts that change in between |
| `mcp_module/` | server records, credentials, bindings; bridges with an event loop | edit, materialise, call, reconnect, close | calls, owner task, edits and close race |
| `plugin_module/`, `tool_module/tool_registry.py` | registry document, loaded plugins, published tools, imported modules | register, load, confirm, settings, unload, restore | publication fails half way; packages change between the user's answer and the load |
| `external_agent_hub_module/` | definitions; one App Server child per inspection | create, replace, remove, inspect; import | answers that come late, half or never; children that exit |
| `context_version_module/` | an Agent's records in memory, checkpoint, revision files | inspect, apply, restore; compaction | tool calls of one turn run at once; three files per edit |
| `settings_module/`, `connector_module/` | connectors, keys, default connectors, profiles | create, replace, remove, prefer | endpoint and key are two files, read one after the other by a run |
| notes, files, attachments, knowledge, memory, computer use | a JSON file or a directory each | load, replace | little beyond atomic replacement |
| `angelus/api`, `angelus/cli.py`, frontend | open requests | calls of the services above | none of its own |

How they interact: an API call finds the Session in the registry, `ExecutionService.start`
asks the `SessionExecutor` for a new attempt, the attempt starts a worker thread that
runs `run_swarm`. `run_swarm` builds the coordinator if it must (connector, key, endpoint,
plugin and MCP tools, the topology of `ConsoleState`), hooks the journal into the swarm,
publishes a run control and runs the swarm. Swarm events call back into the attempt's
journal, stream buffer and checkpoints; Agents call tools that edit plans, topology and
their own context. Browsers read journals, run graph and ledgers while they grow. Stop
calls, the deletion pool and the shutdown supervisor reach the same attempt through its
lock or through its controller.

What makes each part correct is stated in the `*Props` modules; `PROJECT.json` lists the
hazards each property is aimed at, with the line where it bites.

## Modules

| Module | About |
|---|---|
| `AttemptLifecycle` | abstract: what an attempt promises its callers |
| `ExecutionAttempt` | one attempt, its threads, its files, crashes, the next host |
| `SessionExecution` | one Session: attempts, workers, clients, swarm, deletion, shutdown |
| `TraceBuffer` | the write-behind stream buffer |
| `Blueprint` | the durable topology and its validated edits, as operators |
| `AtomicGraph` | abstract: other threads and hosts see whole accepted edits |
| `SwarmGraph` | the three copies of the topology under edits, rebuilds, failures, crashes |
| `TaskPlan` | plans, dispatches, revivals and reports of workers |
| `RunGraph`, `GraphReplay` | the reducer; checkpoints beside a run and a browser that pages |
| `JournalFile`, `EventStream`, `JournalPager`, `CallLedger`, `JournalReaders` | growing journals and each of their readers, composed with `GraphReplay` |
| `McpBridge`, `McpCatalog`, `McpService`, `McpSystem` | one bridge under its calls; the documents; the runtime cache; both composed |
| `PluginManager` | plugins, registry, published tools, the cached Agent, restarts |
| `CodexTransport`, `ExternalAgentHub` | JSON lines over a child's pipes; definitions and inspections over them |
| `AgentContext` | the context of one Agent in memory and on disk, its edits, import, compaction |
| `SessionCatalog`, `HostSettings` | which Sessions exist, over five stores; connectors and defaults over them |

A module `X` has its properties in `XProps` and its theorems in `XProofs`. Some proof modules
serve more than one: `ConsoleStateProofs` is about the two halves of a Session's console state,
`SwarmGraph` and `TaskPlan`, which share no variable, `JournalReadersProofs` about the readers it
composes with `GraphReplay`, `ExtensionProofs` is about `PluginManager` and `ExternalAgentHub`,
`AgentFilesProofs` about `TraceBuffer` and `AgentContext`, `HostSettingsProofs` about
`SessionCatalog` too. The constants of the instance TLC checks are at the end of `XProps`, in
`MCPluginManager` for the plugins, or need no definition.

Compositions: `JournalReaders` puts each reader beside the same writers and includes
`GraphReplay` by `INSTANCE`; `McpSystem` joins bridge and service; `ExternalAgentHub` extends
`CodexTransport`; `HostSettings` extends `SessionCatalog`, whose deletions free the ids that
settings refer to. `SessionExecution` composes with `ExecutionAttempt` by abstraction: it
sees an attempt through its lifecycle, one step per critical section, and
`ExecutionAttempt` is the module where a section is taken apart write by write.
`AttemptLifecycle` is what both keep: `ExecutionAttempt` is checked and proved to implement it
(`ImplementsLifecycle`, `LifecycleRefined`), and so is `SessionExecution` for each attempt of the
Session (`AttemptsKeepLifecycle`, `SessionRefinesLifecycle`). `SwarmGraph` is checked and proved to
implement `AtomicGraph` (`ImplementsAtomicGraph`, `TopologyEditsAreAtomic`).

Operators that only the mutation checks use (a plausible bug of the definition that
follows them) are marked `Mutant:`.

### ExecutionAttempt

`state`, `stop`, `done` are `_state`, the controller's request and `_done`. A critical
section of `_lock` is one action that changes the fields and sets `lock` to the first disk
write of the section; `WriteManifest`, `WriteJournal`, `WriteGraph`, `WriteRef` carry the
writes out one at a time (`NextWrite` is their order) and `WriteFails` makes the current
one raise: with nothing, a part or all of it in the file. `Crash` can come between any two;
it loses what was not fsynced (`synced`) and may cut the line being written (`torn`).
`Reconcile` and `ReconcileManifest` are the next host.

Abstracted: timestamps, error texts, payloads. A generation is a model value. Swarm
events other than checkpoints are not in `journal`; that an Agent may be appending
one is why a crash may tear the file whenever the worker is in its operation. The stream
buffer has its own module; its failures are caught by the attempt.

The refinement to `AttemptLifecycle` maps the nine live states to `live`, `stop # "none"`
to `asked` and `done` to `released`.

### SessionExecution

`pc` is the program point of each worker, and of the API thread (number 0) that
edits the topology or compacts. The points are the places where `run_swarm`,
`ensure_coordinator` and `rebuild_swarm` read or write a field of the Session, so that a
read and the use of what was read are two steps with everything else in between.
A client is the provider connection set `create_agent` builds; a swarm is a number and the
client of its coordinator. `closed` remembers which caller's forced stop closed which
client in which attempt: a controller calls its force cancellers at most while the provider
call runs.

Modelled from its use and not from code in this repository: the swarm scheduler of
`llmfetcher`. It starts no Agent once a stop is requested, and Agents in flight return
after a stop.
The HTTP server answers its open requests before it runs the shutdown hook, as
uvicorn does without a graceful-shutdown timeout; `Shutdown` waits for the open calls.

Not in it: steering, images, `recover` (a start call with other data), the blueprint's
workers (their clients live and die with the coordinator's), which of two API threads edits
(one at a time is modelled).

### TraceBuffer

A record is its sequence number; `lines` is what a reader can parse. A flush holds the lock
from taking the batch to fsync, so it is one step with three ends: done, dropped
(the directory cannot be made) and kept (anything after it fails, behind `k` whole
lines and perhaps a partial one). A line written behind a partial one is lost with it. `failures`,
`tears` and `drops` count what happened and guard the properties that a lost batch or
a partial line makes false.

### Blueprint, SwarmGraph

`Accepts` is the validation of every edit (`add_worker`, `remove_worker`, `add_connection`
with its search for a cycle, mapper and router), `Effect` what it does to the blueprint.
`SwarmGraph` runs an edit through `_mutate`: under the console lock it changes the blueprint in
memory, saves the file, and, when a run is active, applies it to the live swarm; each of
these can fail, and `_rollback_failures` undoes them one at a time and can fail in turn.
`bp`, `file` and `swarm` are the three copies; `build` is a `rebuild_swarm` that another
caller runs without the gateway's lock. Prompts and roles are left out; a router is a set of pairs.

### TaskPlan

`plan` holds each Agent's forest: the parent of a task, its status, and the assignment bound
to it. `_derive_status` is `Combine` over the children, from the leaves up (`Derived`).
A dispatch holds the console lock over launch and binding and restores the
plans it saw first when either fails; a revival takes no lock, and its assignments
are in `revived`. `plan_upsert` reads and writes in two steps. Workers report on threads
of their own. `writer` is history: who wrote a status last.

### RunGraph, GraphReplay and the readers

`RunGraph` folds facts, committed snapshots and live views into a graph (`Replay`, `Seeded`).
In `GraphReplay` the hooks of several Agents read the live view, the status and the journal
one after the other and commit what they made; `taken` remembers how long the journal was at
each read. `JournalFile` writes records, a partial one, and deltas of the live attempt;
`EventStream` is the endpoint's loop over deltas, page and status with an EventSource that comes
back; `JournalPager` reads bytes backwards in blocks, a record being two or three
bytes with its newline, and cuts them as `data.split` does; `CallLedger` is the reduction with
its cache keyed by attempt and size, a size being counted in half records. Readers never
write, so that `JournalReaders` lets one of them run at a time beside the writers.

### MCP

`McpBridge` has the calling threads, their coroutines on the loop, the futures between
them, the task that owns the transports with its reconnection requests, and `close`. A client
is its number. `McpCatalog` has the three documents, each replaced whole, edited by requests that
read, check and write without a lock. `McpService` builds a bridge outside the lock from
records and credentials read before, keyed by a fingerprint without the secrets, and every
edit takes the bridges out and closes them. What the SDK's client does is external.

### PluginManager

`disk` holds what a package directory contains now, `registry` the document, `loaded` the
plugins that run. A request is a thread with the record it has read (`job`), which it writes
back at its end whatever happened in between; load and unload hold the manager's lock.
`Publish` and `Unregister` register one contribution at a time, so that a refused one is met
half way. `Module` maps a name to the module it is imported as: the code replaces `-` by `_`,
so `a-b` and `a_b` would share one. `confirmed` is history. The Agent is built in three
steps: fingerprint, tools, context.

### CodexTransport, ExternalAgentHub

`child.pipe` is what the descriptor holds and `select` sees, `buffer` what `readline` has taken
already and `select` does not see. The server answers, writes notifications of its own, stops
in the middle of a line, or exits. An inspection opens a transport of its own, makes its calls in
order and closes the child on every way out. The other adapters are one step each.

### AgentContext

`live` is what the handler holds (a library, modelled from how it is used: `Loaded`,
`Stored`, `Say`, `Shrink`), `disk` the checkpoint with its pointer and rows, `revisions` the files
of the context's history. An edit checks the revision and what its Agent inspected under
`_CONTEXT_LOCK`, writes the baseline's file if there is none, its own file, the rows in one
transaction, and the pointer; each write may fail or be the last. Two tool calls may be
between inspect and apply at once. An import and a compaction look at the run state once and
go on: `raced` says that a run began meanwhile. Texts are numbers; summaries are new texts.

### SessionCatalog, HostSettings

A Session is told from an earlier one of its id by a generation, which it gets when its id is
registered, the step under the registry's lock that decides between two requests. `catalog`, `registry`, `index`,
`archive`, `files` and `home` are written one after the other by the requests in `job`; a
write that fails takes the handler's own way back, and `Crash` leaves all but the registry as it
is. A starting host imports the old index once and then registers what is listed. In
`HostSettings` an endpoint and a key are the number of the edit that gave them; clerks write
them in the order of the code, runs read default connector, connector, key and endpoint one
after the other.

## What is checked

Every property names the behaviour it is about above its definition.

| Run | Instance | Shows |
|---|---|---|
| `attempt` | one attempt, two checkpoints, a stop and the supervisor's, one failing write, one crash anywhere | a journaled stop decides the outcome, nothing follows an interruption, what is announced is on disk, `ImplementsLifecycle`; waiters are released and the shutdown's pass ends |
| `session` | two starts, a stop, an Agent control, an edit or compaction | one run at a time, run control of the right run, each attempt keeps its lifecycle |
| `session_ends` | two starts, a deletion, a shutdown | deletion waits for the worker, shutdown leaves nothing live, stops end runs, deletion ends |
| `trace` | five records, batches of two, two failing flushes | the committed sequence splits the records between file and buffer; records leave memory |
| `graph` | two workers, two edits, a rebuild, a fault, a crash | the three copies are well-formed and agree; `ImplementsAtomicGraph` |
| `plan` | a task and its sub-task, two Agents' plans, two workers, one tool call, a failing save | parents follow their sub-tasks, no binding of an undone dispatch, reports reach the plan |
| `readers` | two attempts with torn lines, read by a stream, a pager or two ledger requests; a graph of six facts | no gap or repetition in a stream, pages cover the journal, a cached ledger is a reduction of a prefix, a seeded graph is a replay, graph events in order |
| `mcp` | three calls of two Agents on one bridge; two builders beside an edit of two servers | one client at a time, bridges are owned, tracked calls return |
| `plugins` | one name in two roots, five packages, two request threads, an edit of the disk, a restart | only confirmed plugins run, what is published is what is loaded, a kept Agent has the current tools |
| `hub` | two inspections, six adapter kinds, chatter, an exit, an edit | no child left, what is reported was served, inspections end |
| `context` | three texts, two tool calls, an import, a compaction, a failing save, a crash | an edit survives a crash, edits follow each other and touch what was seen, saved messages survive |
| `settings` | three Sessions (one only of the old index), two requests at once of four, two edits of a connector beside a run, a fault, a crash | the catalog is the authority, files belong to their Session, a new key never goes to an old endpoint |

### What the repository says and the code does not do

These definitions stand in the `*Props` modules, are in no run, and are violated when TLC
is given them as an invariant or property of that module. Most are violated under the
constants of the module's run; five need other constants: `CatalogStaysReadable` two
editors, `NodesFollowJournal` eight facts, `KeptAgentHasContext` a package that contributes
context, `DefaultsExist` two clerks and three edits, and `SettingsStay` a second readable
value of the settings (the run's second one, `"float"`, makes the document unreadable):

| Definition | What happens |
|---|---|
| `OneTerminalOutcome` | `_run` promises one mutually exclusive terminal outcome; a shutdown deadline that expires after the outcome is journaled and before `_done` is set journals a second one |
| `ReconcileLeavesNothingLive` | `transition` never writes the manifest: a run that nobody stopped is `queued` on disk, which reconciliation does not look for |
| `ReconciledFactIsReadable` | the interruption record appended behind a partial line cannot be read |
| `RunIsTraced` | an edit between `add_hook` and `swarm.run` replaces the swarm, and the run is not journaled |
| `NoAgentInRemovedSession` | a start admitted before a deletion runs its Agents in the removed directories |
| `RunUsesOpenClients` | a deletion that gives up has closed the clients and has not marked them |
| `NoRecordDropped` | a flush that cannot make its directory drops the batch |
| `NodesFollowJournal` | a checkpoint shows an Agent running whose end came between its two reads |
| `LedgerLosesNothing` | a size taken inside a record loses that record for the cache |
| `SettledCardsStay` | a delta reaches the browser behind the record that settles its round |
| `RotatedTokenIsUsed` | a bridge built between the stamp and the secret keeps the old token |
| `OwnerLivesUntilClose` | the owner of the connections ends when a reconnection fails |
| `CatalogStaysReadable` | two edits at once store one name twice, and every later read raises |
| `KeptAgentHasContext` | a plugin that only contributes context changes no revision |
| `SettingsStay`, `UnloadStays` | a request writes the record back that it read before another changed it |
| `HandshakeComesFirst` | a replaced child is asked before it was initialised |
| `ReceivedIsRead` | an answer behind a notification waits in a buffer `select` does not see until the deadline |
| `ImportKeepsConversation` | a run that begins behind the import's look loses what it has said |
| `KeyAndEndpointAgree` | a run can take the old key to the new endpoint |
| `RenameStays` | `touch_activity` writes the name back that it has read |
| `DefaultsExist`, `DefaultsAreOwned` | a default is stored behind the removal of its connector; the next Session of an id inherits one |
| `DeletionIsOfItsSession`, `WorkspaceExists` | the slower of two deletions removes the next Session of the id, or its workspace |
| `HostComesUp` | an id of the old index that `create` refuses ends every later start |

### Bounds

Two of a kind wherever the hazard is between two: checkpoint generations, attempts of a
Session, edits of a topology, plans, request threads, inspections, tool calls, builders. One
of each disturbance (fault, crash, restart, deletion, exit): a second only repeats a
state that one has reached, and `trace`, where a batch may fail twice, has two. Where a
sequence matters the bound is longer: four requests in `settings` let a Session be made, deleted
twice and made again; three requests in `plugins` confirm, replace and unload a plugin; three
revisions in `context` are a baseline and two edits that race for it; six facts in `readers`
let two Agents dispatch, checkpoint and end. Blocks of two bytes cut every record of
`JournalPager` at every place.

Products that are too large are split: `session` leaves deletion and shutdown out and
`session_ends` leaves stop, control and edits out; a deletion and the host each bring a forced
stop, so stopping is part of both. Readers are run one at a time because they do not
write. `part` in `McpSystem` chooses bridge or service because a bridge in use meets the
service only through its close.

Symmetry is used for tasks' workers, tool calls, threads and ids that are
interchangeable, only in runs without liveness. Counters are bounded by the named
constants `Max...` in the guards and nothing else bounds a run.

Deadlock checking is off because every instance may stop: an attempt ends, a Session
need not be called again, a buffer is closed, the bounds are used up.

### Fairness

`ExecutionAttempt`: a thread in a critical section finishes its write or raises (weak fairness);
the worker's epilogue and the supervisor get the lock although others may take it in between
(strong fairness: an RLock does not starve a waiter forever). Nothing makes the
operation return. `SessionExecution`: worker threads, the deletion pool and the shutdown's
bounded wait go on; Agents return only once a stop was requested. `TraceBuffer`:
the interval timer keeps waking the flush thread. `McpSystem`: the loop runs what is
ready, a remote server answers or fails, a thread whose future is settled returns.
`ExternalAgentHub`: threads run and deadlines pass; an App Server that has begun a line finishes it
or exits (without that, `readline` waits beyond every deadline). The other runs
check safety and assume nothing.

## What is proved

All theorems hold for every value of the constants: any number of generations, calls, stops,
faults, crashes, records, tasks, workers, batches, packages, servers, Sessions, connectors,
requests and restarts. The assumptions are the named ones of the modules: bounds are natural numbers, distinguished
values differ, a package's manifest has the fields the code validates, a batch is a sequence of
the four kinds of operation. `PROJECT.json` lists every theorem with the property it states.

`ExecutionAttemptProofs`
: `TypeCorrect`; `StopDecides` (a journaled stop excludes success and failure); `InterruptionIsLast`;
  `LifecycleRefined`. None is inductive alone. `LifeInv` says how the lifecycle fields agree with the
  program points of the threads and what the holder of the lock is writing about;
  `JournalInv` says what the journal tells about the state of the process that writes it. A
  step appends only the event its lock point names (`EventAt`), and `HolderInv` gives the state
  in which that event is right. `AnnouncedSurvives` is about the order of the writes: `OrderInv`
  says at each point of the critical sections which files have to be written and fsynced already
  (the graph before its record, the record before the reference that names it), `FieldInv` keeps
  the threads apart that could write in between, and `OutcomeInv` adds that an outcome is durable
  from the moment it is decided, so before a waiter is released.

`SessionExecutionProofs`
: `SessionTypeCorrect` needs `CountInv` (attempts, admitted start calls and calls left never exceed
  the bound) for the number of a new attempt. `AtMostOneRun` and `RunControlIsCurrent` follow
  from `LiveInv`: a worker in its operation belongs to the latest attempt, which is live unless the
  shutdown has interrupted it; behind that interruption no start call is left (`HostInv`), so a start
  always finds the previous worker behind its outcome. `DeletionComesLast` and `ShutdownEndsRun`
  follow from `LateInv`: an exited worker's attempt is terminal, and each caller that waits holds an
  attempt that exists. `SessionRefinesLifecycle` uses `AttemptMoves`, which names all that a step of
  any thread may do to the state of one attempt.

`ConsoleStateProofs`
: Of the topology: `GraphTypeCorrect`. The validation of an edge searches the graph; `Reach`, the set the search
  computes, is shown to be the least closed set (`ReachLeast`, `ReachClosed`), and so an accepted
  edit leaves a blueprint without cycles and with known workers only (`AcceptedEdit`).
  `TopologyCopiesAgree` from `TopologyInv`: memory is what is durable unless a save is on its way,
  the live swarm differs from memory only by the edit under way, and a rollback takes back only an
  edit that had been accepted; `RemoveUndoesAdd` is why the undo restores the copy exactly.
  `TopologyEditsAreAtomic` maps each step to a step of `AtomicGraph` or to none.
  Of the plans: `RollbackTakesBinding`, from `BindingInv`: the plans, the snapshot a dispatch would restore and what
  an upsert has read name only assignments that were bound; a snapshot is older than the
  assignment whose failure restores it. `PlanTypeCorrect` keeps every plan a forest whatever forest a
  tool submits. `ParentsFollowChildren` needs that the recursive equation of `Derived` has a solution
  (`DerivedEquation`): it is found without recursion, from the statuses of the leaves below each task
  (`StatesBelow`). `ReportsArrive` from `HomeInv`
  (an assignment is active in one plan) and `LockInv` (no plan changes between the snapshot of a
  dispatch and its end).

`HostSettingsProofs`
: `CatalogRules`, from `MemoryAndDiskAgree` (`CatalogInv`: what each request has written and has
  still to write, at each of its points, is all that may differ between catalog and registry) and
  `DeletedSessionsStayAway` (`GoneInv`: the old index is imported before any Session can go).
  `KeysFollowEndpoints` from `KeyInv`: the stored key of a connector is never newer than its
  endpoint, and a run that has read the key finds an endpoint at least as new.
  `FilesStayWithSession` from `GenerationInv` (a listed Session is not newer than the registered one,
  and a request holds what it has registered or read) and `FilesInv` (an id that is not listed has no files
  unless a request wrote behind its look; the files of a listed one are as new as it is).

`ExtensionProofs`
: `OnlyConfirmedPluginsRun` from `ConfirmedInv`: every record, in the document or in a request's
  hands, grants at most what was confirmed for its name, and confirmations only grow, so
  writing an old record back is harmless. `LoadedAsConfirmed` adds `PublishInv` (the published
  tools are those of the loaded plugins and the part of one that the owner of the lock has
  published or not yet withdrawn; nobody else is inside) and `ModuleInv` (the same of the imported
  modules), the latter for names that make distinct modules (`DistinctModules`).
  `KeptAgentHasTools` from `RevisionInv`: the tools change only with the revision, the rollback of
  a first contribution included, which has nothing to take back.
  `EveryTransportIsClosed` and `AnswersAreServed` from `HubInv`: an inspection that is not open has no
  child, every line in the pipe or the buffer that carries a result is an answer the server
  gave to a request of that number, and a call ends well only on a line of its own.

`McpSystemProofs`
: `BridgeTypeCorrect` and `ReconnectionIsShared` from `ClientInv`: every client that was opened answers
  one that a failure discarded, and a closing bridge has none. `NoBridgeIsLost` from `OwnedInv`: a bridge
  is in the runtime manager's hands, in those of an edit about to close it, or closed (`Held`), and an
  edit lets go of nothing before it has closed it. Both parts of `McpSystem` are covered, since
  `part` is chosen by `Init`.

`AgentFilesProofs`
: Of an Agent's context: `ContextEditSurvivesCrash`, `ContextEditsFollow`, `ContextEditsTouchSeen`,
  `ContextKeepsMessages`, from one invariant of three parts. `DiskInv`: the checkpoint names a revision
  on disk and holds what it, or one made from it, says. `LiveInv`: the memory is empty and
  will be loaded before anything is added or saved (`Loose`), or it may be saved (`Fits`: its revision
  is the checkpoint's or made from it) and forgets nothing (`Kept`) unless a run was raced or an edit is being
  activated. `ToolInv`: a call at work holds the lock inside a run, and the file of its revision, once
  written, says what it is about to commit. What a batch does is a recursive function of its length;
  `BatchFacts` is proved by induction, stated over the set of the lengths for which it holds
  (`SetOfNumbers`). Of the stream buffer: `BufferTypeCorrect`, `BufferFollowsCommitted`,
  `CommittedRecordsReadable`, `BufferSplits`, `ClosedBufferIsFlushed`, `LossIsBounded`. The batch a flush is
  handed continues the committed records (`Continues`); each of the three ends of a flush keeps
  that, and what was readable stays so.

`JournalReadersProofs`
: `Init` chooses the reader, so each theorem is about every reader beside the same writers.
  `StreamsAreOrdered` from `StreamInv`: a cursor of the connection or of the EventSource stands at the last
  record the browser has of its attempt, whichever of the loop's three reads is under way.
  `LedgersAreReplays` from `LedgerInv`: every entry of the cache, the last one and what a request
  holds is the reduction of a prefix, and going on from it with the records behind it gives the
  reduction of a longer one (`HitStep`, `MissStep`). `EventsAreInOrder` and `SeededGraphsAreReplays` from
  `GraphInv`. The reducer is a fold; what is needed of it is that a replay goes on where another
  ended (`ReplayConcat`) and depends on a prefix only. `Faithful` says what a graph seeded at one length of
  the journal shows of the facts before it, for a snapshot between its three reads too, and
  `ProjectFaithful` that the page made from a faithful snapshot and the rest of the journal is
  faithful again; so the snapshot that is committed is, whatever was committed
  while it was taken.
  `PagesCover` from `PagerInv`: the pages read so far hold every whole record, or every one from the
  oldest of them on (`Paged`). `BytesAreLaidOut` says where a journal's newlines are, `LinesSplit` what
  cutting bytes at newlines returns, `LineNumbers` that the lines in front of a record's end are its own
  and the ones before it, and `CollectCovers` that reading them from the back collects what they
  hold. `Walking` is the walk's invariant: everything behind the block just read is collected and
  the line the block begins in is carried to its end (`WalkCovers`). A page that was not the last ends at
  the offset of the last record it has returned, so that the next continues it (`PagesJoin`).

TLC has checked each of these invariants on the run's instance before it was proved. Three of the
attempts changed the model. A Session's generation used to be given when its creation is asked for;
with three requests at once that order is not the one the registry decides, so it is now
given there. A batch of context edits was a fold and is a recursive function, which says the same
and can be reasoned about; without the clause about races `EditIsAllOrNothing` is stronger than it
was, and true. The pager's lines and blocks and the decoding of a journal were recursive operators and are
recursive functions for the same reason.

Only model-checked: liveness and `ENABLED`, which are out of the prover's reach. Every invariant and
every action property of the runs is stated by a theorem. The library's induction theorems
take an operator and cannot be used; `NumbersUpTo` is induction over a set of numbers, and a
recursive function is shown to satisfy its equation from `LeastNumber`.

## Not modelled

* Notes, files, attachments, knowledge, memory, computer use: each replaces one file, or runs one
  external call, under one lock, and touches no other part.
* The HTTP handlers, the command line and the desktop shell: calls of what is modelled. The
  admission of a request is an action of the module that serves it.
* The browser frontend, except what an EventSource and the pages of a journal or
  graph make it receive.
* MCP sign-in, registry search and package installation; the plugins' own code; scripts;
  vendored and generated code.
* Within the modelled parts: steering and images, the summarizing that a compaction asks for,
  read-only tools, projections that only format, Sessions bound to a project directory of
  the user, the validation of profiles.
