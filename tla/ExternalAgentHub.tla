----------------------------- MODULE ExternalAgentHub -----------------------------
(***************************************************************************)
(* The External Agent hub: definitions in a document, and inspections of   *)
(* the Agent behind one of them through the adapter of its kind. Each      *)
(* inspection opens a transport of its own and closes it.                  *)
(***************************************************************************)
EXTENDS CodexTransport

CONSTANTS
  Agents,      \* ids of definitions
  Kinds,       \* the adapter kinds that are used
  Editors,     \* requests that create, replace and remove definitions
  MaxInspections, MaxHubEdits

VARIABLES
  definitions,   \* agents.json: id -> its kind
  editing,       \* editor -> what it has checked and will write
  look,          \* the inspection
  inspections, hubEdits

hub == <<definitions, editing, look, inspections, hubEdits>>
hubVars == <<codex, hub>>

NoKind == "none"
NoEdit == [op |-> "none", id |-> CHOOSE a \in Agents : TRUE, kind |-> NoKind]
NoLook == [pc |-> "idle", op |-> "health", kind |-> NoKind, answer |-> "none"]
Ops == {"health", "capabilities", "sessions", "contexts", "read", "write"}

HubInit ==
  /\ CodexInit /\ definitions \in [Agents -> Kinds \cup {NoKind}]
  /\ editing = [e \in Editors |-> NoEdit] /\ look = NoLook /\ inspections = 0 /\ hubEdits = 0

-----------------------------------------------------------------------------
\* Definitions: create and replace look for the id and put the document later.

Check(e) ==
  /\ editing[e] = NoEdit /\ hubEdits < MaxHubEdits /\ hubEdits' = hubEdits + 1
  /\ \E a \in Agents, k \in Kinds, op \in {"create", "replace"} :
       /\ (op = "create") <=> (definitions[a] = NoKind)
       /\ editing' = [editing EXCEPT ![e] = [op |-> op, id |-> a, kind |-> k]]
  /\ UNCHANGED <<codex, definitions, look, inspections>>

Put(e) ==
  /\ editing[e] # NoEdit /\ editing' = [editing EXCEPT ![e] = NoEdit]
  /\ definitions' = [definitions EXCEPT ![editing[e].id] = editing[e].kind]
  /\ UNCHANGED <<codex, look, inspections, hubEdits>>

\* remove is one operation of the store.
RemoveDefinition ==
  /\ hubEdits < MaxHubEdits /\ hubEdits' = hubEdits + 1
  /\ \E a \in Agents : definitions[a] # NoKind /\ definitions' = [definitions EXCEPT ![a] = NoKind]
  /\ UNCHANGED <<codex, editing, look, inspections>>

-----------------------------------------------------------------------------
\* An inspection.

\* What these two answer without contacting anything: Codex writes no
\* context, the Claude SDK has none to list or read.
Unsupported(kind, op) ==
  \/ op = "write"
  \/ op \in {"contexts", "read"} /\ kind # "codex_app_server"

\* A definition that is not there ends the request with 404.
Inspect ==
  /\ look.pc = "idle" /\ inspections < MaxInspections /\ inspections' = inspections + 1
  /\ \E a \in Agents, op \in Ops :
       /\ definitions[a] # NoKind
       /\ look' = [pc |-> "open", op |-> op, kind |-> definitions[a], answer |-> "none"]
  /\ UNCHANGED <<codex, definitions, editing, hubEdits>>

Answers(what) == look' = [look EXCEPT !.pc = "idle", !.answer = what]

\* An adapter that is not registered: no capabilities, no sessions, no contexts.
NotInstalled ==
  /\ look.pc = "open" /\ look.kind = "custom"
  /\ Answers(IF look.op \in {"capabilities", "sessions"} THEN "empty" ELSE "unsupported")
  /\ UNCHANGED <<codex, definitions, editing, inspections, hubEdits>>

\* The facade of a product whose transport is not configured, as the core
\* installs it: no probe succeeds, sessions fail, contexts cannot be read.
Unavailable == [probe |-> "failed", sessions |-> "failed", reads |-> {}]

\* What a read-only adapter makes of its facade: the capabilities are known
\* beforehand, nothing is ever written, contexts need a reader.
ReadOnly(facade, op, reader) ==
  CASE op = "health" -> facade.probe
    [] op = "capabilities" -> "ok"
    [] op = "sessions" -> facade.sessions
    [] op = "write" -> "unsupported"
    [] OTHER -> IF reader THEN "ok" ELSE "unsupported"

Coze(facade, op) == ReadOnly(facade, op, op \in facade.reads)
WorkBuddy(facade, op) == ReadOnly(facade, op, op \in facade.reads)
\* OpenCode takes a facade as a reader only if it both lists and reads.
OpenCode(facade, op) == ReadOnly(facade, op, {"contexts", "read"} \subseteq facade.reads)

AskReadOnly ==
  /\ look.pc = "open"
  /\ \/ look.kind = "coze" /\ Answers(Coze(Unavailable, look.op))
     \/ look.kind = "workbuddy" /\ Answers(WorkBuddy(Unavailable, look.op))
     \/ look.kind = "opencode" /\ Answers(OpenCode(Unavailable, look.op))
  /\ UNCHANGED <<codex, definitions, editing, inspections, hubEdits>>

RefusesAtOnce ==
  /\ look.pc = "open" /\ look.kind \in {"codex_app_server", "claude_sdk"} /\ Unsupported(look.kind, look.op) /\ Answers("unsupported")
  /\ UNCHANGED <<codex, definitions, editing, inspections, hubEdits>>

\* The Claude adapter asks an SDK, which answers or is not there. It reports
\* sessions it cannot list as none.
AskFacade ==
  /\ look.pc = "open" /\ look.kind = "claude_sdk" /\ ~Unsupported(look.kind, look.op)
  /\ \/ Answers("ok")
     \/ look.op = "health" /\ Answers("failed")
     \/ look.op = "sessions" /\ Answers("empty")
  /\ UNCHANGED <<codex, definitions, editing, inspections, hubEdits>>

Calls(method) == call' = [call EXCEPT !.pc = "request", !.method = method]

OpenCodex ==
  /\ look.pc = "open" /\ look.kind = "codex_app_server" /\ ~Unsupported(look.kind, look.op)
  /\ look' = [look EXCEPT !.pc = "initialize"] /\ Calls("initialize")
  /\ UNCHANGED <<child, buffer, late, served, early, chatter, exits, definitions, editing, inspections, hubEdits>>

\* _initialize: the request is answered, the notification is sent.
Initialized ==
  /\ call.pc = "over" /\ call.result = "ok" /\ look.pc \in {"initialize", "notify"}
  /\ IF look.pc = "initialize"
     THEN look' = [look EXCEPT !.pc = "notify"] /\ call' = [call EXCEPT !.pc = "notify"]
     ELSE IF look.op \in {"health", "capabilities"}
     THEN look' = [look EXCEPT !.pc = "close", !.answer = "ok"] /\ UNCHANGED call
     ELSE look' = [look EXCEPT !.pc = "ask"] /\ Calls("thread")
  /\ UNCHANGED <<child, buffer, late, served, early, chatter, exits, definitions, editing, inspections, hubEdits>>

\* What an error of the transport becomes: health is unavailable, capabilities
\* are none, and the others fail.
Asked ==
  /\ call.pc = "over"
  /\ \/ look.pc = "ask" /\ call.result = "ok" /\ look' = [look EXCEPT !.pc = "close", !.answer = "ok"]
     \/ /\ look.pc \in {"initialize", "notify", "ask"} /\ call.result = "failed"
        /\ look' = [look EXCEPT !.pc = "close", !.answer = IF look.op = "capabilities" THEN "empty" ELSE "failed"]
  /\ UNCHANGED <<codex, definitions, editing, inspections, hubEdits>>

\* Mutant: a transport that failed is not closed.
CloseIfAnswered ==
  /\ look.pc = "close" /\ look' = [look EXCEPT !.pc = "idle"]
  /\ IF look.answer = "ok" THEN Close ELSE call' = NoCall /\ UNCHANGED <<child, buffer, late, served, early, chatter, exits>>
  /\ UNCHANGED <<definitions, editing, inspections, hubEdits>>

\* finally: the transport is closed.
CloseTransport ==
  /\ look.pc = "close" /\ look' = [look EXCEPT !.pc = "idle"] /\ Close
  /\ UNCHANGED <<definitions, editing, inspections, hubEdits>>

Transport == Exchange /\ UNCHANGED hub
Runtime == Server /\ UNCHANGED hub
Inspection ==
  NotInstalled \/ AskReadOnly \/ RefusesAtOnce \/ AskFacade \/ OpenCodex \/ Initialized \/ Asked \/ CloseTransport

HubNext ==
  \/ \E e \in Editors : Check(e) \/ Put(e)
  \/ RemoveDefinition \/ Inspect \/ Inspection \/ Transport \/ Runtime

\* Threads run and deadlines pass; a server that runs finishes the line it has
\* begun or exits, and promises nothing else.
HubFair ==
  /\ WF_hubVars(Inspection) /\ WF_hubVars(Transport)
  /\ WF_hubVars(child.half /\ Runtime)

HubSpec == HubInit /\ [][HubNext]_hubVars /\ HubFair
===================================================================================
