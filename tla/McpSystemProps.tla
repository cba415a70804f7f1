------------------------------ MODULE McpSystemProps ------------------------------
(* What makes the MCP bridges correct.                                     *)
EXTENDS McpSystem, TLC

\* Calls that find their client gone at the same time share one reconnection:
\* every client the owner has opened for a server, but the registered one, was
\* discarded after a failure (_ensure_client, _own_connections, _call).
OneClientAtATime ==
  ~Closing => \A s \in Servers : opened[s] = dropped[s] + IF client[s] = 0 THEN 0 ELSE 1

\* A tool call whose future is tracked while the owner of the transports lives
\* returns to its Agent: it is answered, fails, or is cancelled when the owner
\* goes, unless the loop is stopped over a transport that does not close in time
\* (_handler, _own_connections' finally, close).
TrackedCallsReturn ==
  \A c \in Calls :
    thread[c] = "tracked" /\ ~Closing ~> thread[c] = "returned" \/ loop = "stopped"

\* Every live bridge that may still be closed is held by the runtime manager or
\* by an edit that is about to close it, whichever edits overlap the builds of
\* two roles (tools, invalidate, ensure_ready, drain).
BridgesAreOwned ==
  \A b \in Bridges : bridges[b].open /\ ~bridges[b].closed =>
    b \in runtimes \/ \E e \in Editors : b \in closing[e]

-----------------------------------------------------------------------------
\* What the repository says and the code does not do.

\* "updated_at changes whenever a secret is replaced, so a rotated token still
\* forces a new bridge" (_resolved_fingerprint): with no edit in progress a
\* bridge of the current fingerprint has the current credentials.
RotatedTokenIsUsed ==
  (\A e \in Editors : edit[e].pc = "idle") =>
    \A r \in Roles : cache[r] # 0 /\ bridges[cache[r]].open =>
      \A s \in Present(catalog) :
        bridges[cache[r]].key.at[s] = catalog[s].stamp => bridges[cache[r]].secrets[s] = secret[s]

\* "Keep one official SDK connection per server for the lifetime of a run"
\* (MCPToolBridge): the owner of the connections goes only when it is closed.
OwnerLivesUntilClose == Closing => closer # "idle"

\* "MCP server names must be unique" (_records): every edit leaves a catalog the
\* next request can read.
CatalogStaysReadable == Readable(catalog)

-----------------------------------------------------------------------------
\* The instance TLC checks.
CONSTANTS c1, c2, c3, srv
\* Two calls of one Agent and one of another, on one server.
MCCallOf == [c \in Calls |-> [server |-> srv, agent |-> IF c = c3 THEN "worker" ELSE "main"]]
\* One server for both roles, and another for the coordinator.
MCBindings == {[s \in Ids |-> IF s = "a" THEN Roles ELSE {}],
               [s \in Ids |-> IF s = "a" THEN Roles ELSE {"coordinator"}]}
=============================================================================
