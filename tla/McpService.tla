-------------------------------- MODULE McpService --------------------------------
(***************************************************************************)
(* MCPService and its runtime manager over the documents: the bridges one  *)
(* Session's roles share by the fingerprint of their servers, built when   *)
(* an Agent's tools are materialised and closed by every edit.             *)
(***************************************************************************)
EXTENDS McpCatalog, Sequences

CONSTANTS
  Builders,    \* threads that materialise an Agent's tools
  MaxBuilds

VARIABLES
  bridges,     \* every bridge so far
  runtimes,    \* those the runtime manager holds
  cache,       \* role -> the bridge tools() keeps for it, 0 for none
  build,       \* builder -> the role, what it has read, and its bridge
  holder,      \* the builder inside the service lock
  closing,     \* editor -> the bridges it has taken out and has to close
  builds

serving == <<bridges, runtimes, cache, build, holder, closing, builds>>
NoBuilder == "none"
Bridges == 1..Len(bridges)

\* The fingerprint: servers with their stamps; credentials are left out.
Key == [at : [Ids -> 0..MaxEdits + 1]]
NoKey == [at |-> [s \in Ids |-> 0]]
NoBuild == [pc |-> "idle", role |-> "worker", records |-> [s \in Ids |-> NoRecord],
            secrets |-> [s \in Ids |-> 0], key |-> NoKey, bridge |-> 0]

ServiceTypeOK ==
  /\ \A b \in Bridges :
       /\ bridges[b].key \in Key /\ bridges[b].secrets \in [Ids -> 0..MaxEdits + 1]
       /\ bridges[b].state \in {"starting", "ready", "failed", "closed"}
       /\ bridges[b].open \in BOOLEAN /\ bridges[b].closed \in BOOLEAN
  /\ runtimes \subseteq Bridges /\ cache \in [Roles -> 0..Len(bridges)]
  /\ \A u \in Builders :
       /\ build[u].pc \in {"idle", "secrets", "bindings", "lookup", "start", "launch", "spawn", "connect"}
       /\ build[u].role \in Roles /\ build[u].bridge \in 0..Len(bridges)
  /\ holder \in Builders \cup {NoBuilder} /\ closing \in [Editors -> SUBSET Bridges]
  /\ builds \in 0..MaxBuilds /\ Len(bridges) <= MaxBuilds

ServiceInit ==
  /\ bridges = <<>> /\ runtimes = {} /\ cache = [r \in Roles |-> 0]
  /\ build = [u \in Builders |-> NoBuild] /\ holder = NoBuilder
  /\ closing = [e \in Editors |-> {}] /\ builds = 0

-----------------------------------------------------------------------------
\* tools(): resolve reads the catalog, the credentials and the bindings.

Materialise(u) ==
  /\ build[u].pc = "idle" /\ builds < MaxBuilds /\ builds' = builds + 1
  /\ \E r \in Roles :
       build' = [build EXCEPT ![u] = IF Readable(catalog)
                                     THEN [NoBuild EXCEPT !.pc = "secrets", !.role = r, !.records = catalog]
                                     ELSE NoBuild]
  /\ UNCHANGED <<store, bridges, runtimes, cache, holder, closing>>

ReadSecrets(u) ==
  /\ build[u].pc = "secrets"
  /\ build' = [build EXCEPT ![u].pc = "bindings", ![u].secrets = secret]
  /\ UNCHANGED <<store, bridges, runtimes, cache, holder, closing, builds>>

\* Servers that are bound to the role and whose last probe was good.
Resolved(b) == {s \in Present(b.records) : b.role \in bound[s] /\ b.records[s].ok}

ReadBindings(u) ==
  /\ build[u].pc = "bindings"
  /\ LET b == build[u]
         key == [at |-> [s \in Ids |-> IF s \in Resolved(b) THEN b.records[s].stamp ELSE 0]]
     IN build' = [build EXCEPT ![u] = IF Resolved(b) = {} THEN NoBuild
                                      ELSE [b EXCEPT !.pc = "lookup", !.key = key]]
  /\ UNCHANGED <<store, bridges, runtimes, cache, holder, closing, builds>>

\* MCPToolBridge.close, which does nothing the second time.
Closed(S) == [b \in Bridges |-> IF b \in S /\ ~bridges[b].closed
                               THEN [bridges[b] EXCEPT !.open = FALSE, !.closed = TRUE] ELSE bridges[b]]

\* The runtime manager's runtime of a key, unless it is closed or failed.
Usable(key) == {b \in runtimes : bridges[b].key = key /\ bridges[b].state \notin {"closed", "failed"}}

\* Under the service lock: the role's bridge, or a runtime for the fingerprint.
Lookup(u) ==
  LET k == build[u].key
      old == cache[build[u].role]
      kept == Closed(IF old = 0 THEN {} ELSE {old})
      new == [key |-> k, secrets |-> build[u].secrets, state |-> "starting", open |-> FALSE, closed |-> FALSE]
  IN /\ build[u].pc = "lookup" /\ holder = NoBuilder
     /\ \/ /\ old # 0 /\ bridges[old].key = k
           /\ build' = [build EXCEPT ![u] = NoBuild] /\ UNCHANGED <<bridges, runtimes, holder>>
        \/ /\ old # 0 => bridges[old].key # k
           /\ holder' = u
           /\ IF Usable(k) # {}
              THEN /\ build' = [build EXCEPT ![u].pc = "start", ![u].bridge = CHOOSE b \in Usable(k) : TRUE]
                   /\ bridges' = kept /\ UNCHANGED runtimes
              ELSE /\ bridges' = Append(kept, new)
                   /\ runtimes' = {b \in runtimes : bridges[b].key # k} \cup {Len(bridges) + 1}
                   /\ build' = [build EXCEPT ![u].pc = "start", ![u].bridge = Len(bridges) + 1]
     /\ UNCHANGED <<store, cache, closing, builds>>

\* A builder leaves the lock with its bridge in the cache, or without one.
Keeps(u) ==
  /\ cache' = [cache EXCEPT ![build[u].role] = build[u].bridge]
  /\ build' = [build EXCEPT ![u] = NoBuild] /\ holder' = NoBuilder

Raises(u) == build' = [build EXCEPT ![u] = NoBuild] /\ holder' = NoBuilder /\ UNCHANGED cache

\* MCPRuntime.start: only a runtime that is starting is started.
Start(u) ==
  LET b == build[u].bridge
  IN /\ build[u].pc = "start"
     /\ IF bridges[b].state = "starting"
        THEN build' = [build EXCEPT ![u].pc = "launch"] /\ UNCHANGED <<cache, holder>>
        ELSE Keeps(u)
     /\ UNCHANGED <<store, bridges, runtimes, closing, builds>>

\* MCPToolBridge.start checks _closed and starts its thread after that.
Launch(u) ==
  LET b == build[u].bridge
  IN /\ build[u].pc = "launch"
     /\ IF bridges[b].closed
        THEN bridges' = [bridges EXCEPT ![b].state = "failed"] /\ Raises(u)
        ELSE build' = [build EXCEPT ![u].pc = "spawn"] /\ UNCHANGED <<bridges, cache, holder>>
     /\ UNCHANGED <<store, runtimes, closing, builds>>

Spawn(u) ==
  /\ build[u].pc = "spawn" /\ build' = [build EXCEPT ![u].pc = "connect"]
  /\ bridges' = [bridges EXCEPT ![build[u].bridge].open = TRUE]
  /\ UNCHANGED <<store, runtimes, cache, holder, closing, builds>>

ConnectOk(u) ==
  /\ build[u].pc = "connect" /\ Keeps(u)
  /\ bridges' = [bridges EXCEPT ![build[u].bridge].state = "ready"]
  /\ UNCHANGED <<store, runtimes, closing, builds>>

\* Mutant: a bridge that could not connect is left as it is.
ConnectLeaks(u) ==
  /\ build[u].pc = "connect" /\ Raises(u)
  /\ bridges' = [bridges EXCEPT ![build[u].bridge].state = "failed"]
  /\ UNCHANGED <<store, runtimes, closing, builds>>

\* A server cannot be connected, or the start times out: the bridge is closed.
ConnectFails(u) ==
  LET b == build[u].bridge
  IN /\ build[u].pc = "connect" /\ Raises(u)
     /\ bridges' = [Closed({b}) EXCEPT ![b].state = "failed"]
     /\ UNCHANGED <<store, runtimes, closing, builds>>

-----------------------------------------------------------------------------
\* invalidate, before an edit of the documents.

Pop(e) ==
  /\ At(e, "pop") /\ holder = NoBuilder /\ Goes(e, "close")
  /\ closing' = [closing EXCEPT ![e] = {cache[r] : r \in Roles} \ {0}]
  /\ cache' = [r \in Roles |-> 0]
  /\ UNCHANGED <<documents, edits, bridges, runtimes, build, holder, builds>>

CloseTaken(e) ==
  /\ At(e, "close") /\ Goes(e, "drain")
  /\ bridges' = Closed(closing[e]) /\ closing' = [closing EXCEPT ![e] = {}]
  /\ UNCHANGED <<documents, edits, runtimes, cache, build, holder, builds>>

Drain(e) ==
  /\ At(e, "drain") /\ Goes(e, "shut")
  /\ closing' = [closing EXCEPT ![e] = runtimes] /\ runtimes' = {}
  /\ UNCHANGED <<documents, edits, bridges, cache, build, holder, builds>>

\* Each runtime drained: its bridge is closed and its state is closed after that.
Shut(e) ==
  /\ At(e, "shut") /\ Goes(e, IF edit[e].kind = "bind" THEN "bindings" ELSE "read")
  /\ bridges' = [b \in Bridges |-> IF b \in closing[e] THEN [Closed(closing[e])[b] EXCEPT !.state = "closed"]
                                   ELSE bridges[b]]
  /\ closing' = [closing EXCEPT ![e] = {}]
  /\ UNCHANGED <<documents, edits, runtimes, cache, build, holder, builds>>

ServiceNext ==
  \/ Editing /\ UNCHANGED serving
  \/ \E u \in Builders :
       \/ Materialise(u) \/ ReadSecrets(u) \/ ReadBindings(u) \/ Lookup(u) \/ Start(u) \/ Launch(u)
       \/ Spawn(u) \/ ConnectOk(u) \/ ConnectFails(u)
  \/ \E e \in Editors : Pop(e) \/ CloseTaken(e) \/ Drain(e) \/ Shut(e)
=============================================================================
