------------------------------- MODULE McpSystemProofs -------------------------------
(* Theorems about the MCP bridges, for any calls, servers, failures,       *)
(* editors, edits and builds.                                              *)
EXTENDS McpSystemProps, SequenceTheorems, TLAPS

-----------------------------------------------------------------------------
\* One bridge.

\* A client that is opened answers a discarded one, and a client is discarded
\* only by a failure; behind the owner's end there is none.
ClientInv ==
  /\ BridgeTypeOK
  /\ DOMAIN owner = {"pc", "call"} /\ (owner.pc = "serving" => owner.call \in Calls)
  /\ \A s \in Servers : /\ client[s] <= opened[s] /\ dropped[s] <= failures
                        /\ opened[s] <= failures + 1
                        /\ Closing => client[s] = 0
  /\ OneClientAtATime

LEMMA ClientStart == BridgeInit => ClientInv
BY BridgeConstants DEF BridgeInit, ClientInv, BridgeTypeOK, OneClientAtATime, Closing, Bound

\* The type invariant in three parts.
CallTypes ==
  /\ thread \in [Calls -> {"idle", "checked", "submitted", "tracked", "returned"}]
  /\ coro \in [Calls -> {"none", "ready", "waiting", "answered", "remote", "done"}]
  /\ result \in [Calls -> {"none", "pending", "cancelled", "failed", "ok"}]
  /\ with \in [Calls -> 0..Bound]
ClientTypes ==
  /\ client \in [Servers -> 0..Bound] /\ opened \in [Servers -> 1..Bound] /\ dropped \in [Servers -> 0..MaxFailures]
OwnerTypes ==
  /\ requests \in Seq(Calls)
  /\ owner.pc \in {"waiting", "serving", "closing", "unstacking", "gone"} /\ owner.call \in Calls \cup {NoCall}
  /\ closer \in {"idle", "asked", "finished"} /\ loop \in {"running", "stopped"} /\ failures \in 0..MaxFailures

LEMMA Types == BridgeTypeOK <=> CallTypes /\ ClientTypes /\ OwnerTypes
BY DEF BridgeTypeOK, CallTypes, ClientTypes, OwnerTypes

LEMMA Constants == /\ MaxFailures \in Nat /\ \A c \in Calls : ServerOf(c) \in Servers
BY BridgeConstants DEF ServerOf

\* The step of a call that leaves the clients and their owner alone.
LEMMA CallStep ==
  ASSUME ClientInv, NEW c \in Calls,
         Check(c) \/ Submit(c) \/ Track(c) \/ Return(c) \/ Begin(c) \/ Resume(c) \/ Answer(c) \/ Unwind(c)
  PROVE  ClientInv'
<1> USE DEF ClientInv
<1>1. CallTypes /\ ClientTypes /\ OwnerTypes
  BY Types
<1>2. UNCHANGED <<client, opened, dropped, owner, closer, loop, failures>>
  BY DEF Check, Submit, Track, Return, Begin, Resume, Answer, Unwind
<1>3. CallTypes'
  <2>1. CASE Check(c) \/ Submit(c) \/ Track(c) \/ Return(c)
    BY <1>1, <2>1 DEF Check, Submit, Track, Return, CallTypes
  <2>2. CASE Begin(c)
    <3>1. client[ServerOf(c)] \in 0..Bound
      BY <1>1, Constants DEF ClientTypes
    <3> QED BY <1>1, <2>2, <3>1 DEF Begin, Settle, CallTypes
  <2>3. CASE Resume(c) \/ Answer(c) \/ Unwind(c)
    BY <1>1, <2>3 DEF Resume, Answer, Unwind, Settle, CallTypes
  <2> QED BY <2>1, <2>2, <2>3
<1>4. requests' \in Seq(Calls)
  <2>1. requests \in Seq(Calls)
    BY <1>1 DEF OwnerTypes
  <2>2. requests' = requests \/ requests' = Append(requests, c)
    BY DEF Check, Submit, Track, Return, Begin, Resume, Answer, Unwind
  <2> QED BY <2>1, <2>2
<1>5. BridgeTypeOK'
  BY <1>1, <1>2, <1>3, <1>4, Types DEF ClientTypes, OwnerTypes, BridgeTypeOK, CallTypes
<1> QED BY <1>2, <1>5 DEF OneClientAtATime, Closing

\* A failed call discards the registered client, if there is one.
LEMMA FailStep ==
  ASSUME ClientInv, NEW c \in Calls, Fail(c)
  PROVE  ClientInv'
<1> PICK s \in Servers : s = ServerOf(c)
  BY Constants
<1>1. CallTypes /\ ClientTypes /\ OwnerTypes /\ MaxFailures \in Nat
  BY Types, Constants DEF ClientInv
<1>2. /\ UNCHANGED <<thread, with, opened, requests, owner, closer, loop>> /\ Settle(c, "failed")
      /\ client' = [client EXCEPT ![s] = 0]
      /\ dropped' = IF client[s] = 0 THEN dropped ELSE [dropped EXCEPT ![s] = dropped[s] + 1]
      /\ (Closing /\ failures' = failures) \/ (~Closing /\ failures < MaxFailures /\ failures' = failures + 1)
  BY DEF Fail
<1>3. CallTypes'
  BY <1>1, <1>2 DEF Settle, CallTypes
<1>4. failures' \in 0..MaxFailures /\ failures <= failures'
  BY <1>1, <1>2 DEF OwnerTypes
<1>5. ASSUME NEW t \in Servers
      PROVE  /\ client'[t] \in 0..Bound /\ dropped'[t] \in 0..MaxFailures
             /\ client'[t] <= opened'[t] /\ dropped'[t] <= failures' /\ opened'[t] <= failures' + 1
             /\ Closing' => client'[t] = 0
             /\ ~Closing' => opened'[t] = dropped'[t] + IF client'[t] = 0 THEN 0 ELSE 1
  <2>1. /\ client[t] \in 0..Bound /\ opened[t] \in 1..Bound /\ dropped[t] \in 0..MaxFailures /\ failures \in 0..MaxFailures
        /\ client[t] <= opened[t] /\ dropped[t] <= failures /\ opened[t] <= failures + 1
        /\ Closing => client[t] = 0
        /\ ~Closing => opened[t] = dropped[t] + IF client[t] = 0 THEN 0 ELSE 1
    BY <1>1 DEF ClientInv, ClientTypes, OwnerTypes, OneClientAtATime
  <2>2. Closing' <=> Closing
    BY <1>2 DEF Closing
  <2>3. opened'[t] = opened[t] /\ client'[t] = IF t = s THEN 0 ELSE client[t]
    BY <1>1, <1>2 DEF ClientTypes
  <2>4. dropped'[t] = IF t = s /\ client[s] # 0 THEN dropped[t] + 1 ELSE dropped[t]
    BY <1>1, <1>2 DEF ClientTypes
  <2>5. CASE Closing
    <3>1. dropped'[t] = dropped[t] /\ client'[t] = 0 /\ failures' = failures
      BY <1>2, <2>1, <2>3, <2>4, <2>5
    <3> QED BY <1>1, <2>1, <2>2, <2>3, <2>5, <3>1 DEF Bound
  <2>6. CASE ~Closing
    <3>1. failures' = failures + 1 /\ failures < MaxFailures
      BY <1>2, <2>6
    <3> QED BY <1>1, <2>1, <2>2, <2>3, <2>4, <2>6, <3>1 DEF Bound
  <2> QED BY <2>5, <2>6
<1>6. ClientTypes'
  <2>1. /\ client' = [t \in Servers |-> client'[t]] /\ dropped' = [t \in Servers |-> dropped'[t]]
    BY <1>1, <1>2 DEF ClientTypes
  <2> QED BY <1>1, <1>2, <1>5, <2>1 DEF ClientTypes, Bound
<1>7. OwnerTypes' /\ (owner'.pc = "serving" => owner'.call \in Calls) /\ DOMAIN owner' = {"pc", "call"}
  BY <1>1, <1>2, <1>4 DEF OwnerTypes, ClientInv
<1>8. BridgeTypeOK'
  BY <1>3, <1>6, <1>7 DEF BridgeTypeOK, CallTypes, ClientTypes, OwnerTypes
<1> QED BY <1>5, <1>7, <1>8 DEF ClientInv, OneClientAtATime

\* A client is opened only where there is none.
LEMMA ServeStep ==
  ASSUME ClientInv, Serve
  PROVE  ClientInv'
<1>1. CallTypes /\ ClientTypes /\ OwnerTypes /\ MaxFailures \in Nat
  BY Types, Constants DEF ClientInv
<1>2. owner.pc = "serving" /\ owner.call \in Calls /\ ~Closing
  BY DEF Serve, ClientInv, Closing
<1> PICK c \in Calls : c = owner.call
  BY <1>2
<1> PICK s \in Servers : s = ServerOf(c)
  BY Constants
<1>3. /\ UNCHANGED <<thread, result, dropped, requests, closer, loop, failures>>
      /\ IF client[s] = 0 THEN client' = [client EXCEPT ![s] = opened[s] + 1] /\ opened' = [opened EXCEPT ![s] = opened[s] + 1]
                          ELSE UNCHANGED <<client, opened>>
      /\ \/ /\ coro' = [coro EXCEPT ![c] = "answered"] /\ with' = [with EXCEPT ![c] = client'[s]]
            /\ owner' = [pc |-> Served, call |-> NoCall]
         \/ owner' = [pc |-> "closing", call |-> NoCall] /\ UNCHANGED <<coro, with>>
  BY DEF Serve
<1>4. ~Closing' /\ OwnerTypes' /\ (owner'.pc = "serving" => owner'.call \in Calls) /\ DOMAIN owner' = {"pc", "call"}
  BY <1>1, <1>3 DEF Served, Closing, OwnerTypes
<1>5. ASSUME NEW t \in Servers
      PROVE  /\ client'[t] \in 0..Bound /\ opened'[t] \in 1..Bound
             /\ client'[t] <= opened'[t] /\ dropped'[t] <= failures' /\ opened'[t] <= failures' + 1
             /\ opened'[t] = dropped'[t] + IF client'[t] = 0 THEN 0 ELSE 1
  <2>1. /\ client[t] \in 0..Bound /\ opened[t] \in 1..Bound /\ dropped[t] \in 0..MaxFailures /\ failures \in 0..MaxFailures
        /\ client[t] <= opened[t] /\ dropped[t] <= failures /\ opened[t] <= failures + 1
        /\ opened[t] = dropped[t] + IF client[t] = 0 THEN 0 ELSE 1
    BY <1>1, <1>2 DEF ClientInv, ClientTypes, OwnerTypes, OneClientAtATime
  <2>2. CASE t = s /\ client[s] = 0
    <3>1. client'[t] = opened[t] + 1 /\ opened'[t] = opened[t] + 1 /\ dropped'[t] = dropped[t] /\ failures' = failures
      BY <1>1, <1>3, <2>2 DEF ClientTypes
    <3> QED BY <1>1, <2>1, <2>2, <3>1 DEF Bound
  <2>3. CASE ~(t = s /\ client[s] = 0)
    <3>1. client'[t] = client[t] /\ opened'[t] = opened[t] /\ dropped'[t] = dropped[t] /\ failures' = failures
      BY <1>1, <1>3, <2>3 DEF ClientTypes
    <3> QED BY <2>1, <3>1
  <2> QED BY <2>2, <2>3
<1>6. ClientTypes'
  <2>1. /\ client' = [t \in Servers |-> client'[t]] /\ opened' = [t \in Servers |-> opened'[t]]
    BY <1>1, <1>3 DEF ClientTypes
  <2> QED BY <1>1, <1>3, <1>5, <2>1 DEF ClientTypes
<1>7. CallTypes'
  BY <1>1, <1>3, <1>5 DEF CallTypes
<1>8. BridgeTypeOK'
  BY <1>4, <1>6, <1>7 DEF BridgeTypeOK, CallTypes, ClientTypes, OwnerTypes
<1> QED BY <1>4, <1>5, <1>8 DEF ClientInv, OneClientAtATime

LEMMA OwnerStep ==
  ASSUME ClientInv, Take \/ ServeFails \/ AskedToClose \/ CleanUp \/ Unstack \/ CloseAsks \/ CloseStops
                    \/ \E a \in Agents : CancelAgent(a)
  PROVE  ClientInv'
<1>1. CallTypes /\ ClientTypes /\ OwnerTypes /\ MaxFailures \in Nat
  BY Types, Constants DEF ClientInv
<1>2. CASE Take
  <2>1. /\ requests # <<>> /\ owner' = [pc |-> "serving", call |-> Head(requests)] /\ requests' = Tail(requests)
        /\ UNCHANGED <<calls, client, opened, dropped, closer, loop, failures>> /\ ~Closing
    BY <1>2 DEF Take, Closing
  <2>2. Head(requests) \in Calls /\ Tail(requests) \in Seq(Calls)
    BY <1>1, <2>1 DEF OwnerTypes
  <2>3. owner'.pc = "serving" /\ owner'.call \in Calls /\ ~Closing' /\ DOMAIN owner' = {"pc", "call"}
    BY <2>1, <2>2 DEF Closing
  <2>4. BridgeTypeOK'
    BY <1>1, <2>1, <2>2, <2>3 DEF BridgeTypeOK, CallTypes, ClientTypes, OwnerTypes, calls
  <2> QED BY <2>1, <2>3, <2>4 DEF ClientInv, OneClientAtATime
<1>3. CASE ServeFails
  <2>1. owner.call \in Calls /\ ~Closing
    BY <1>3 DEF ServeFails, ClientInv, Closing
  <2>2. /\ UNCHANGED <<thread, with, client, opened, dropped, requests, closer, loop>>
        /\ failures < MaxFailures /\ failures' = failures + 1
        /\ \/ Settle(owner.call, "failed") /\ owner' = [pc |-> Served, call |-> NoCall]
           \/ owner' = [pc |-> "closing", call |-> NoCall] /\ UNCHANGED <<coro, result>>
    BY <1>3 DEF ServeFails
  <2>3. ~Closing' /\ owner'.pc # "serving" /\ OwnerTypes' /\ DOMAIN owner' = {"pc", "call"}
    BY <1>1, <2>2 DEF Served, Closing, OwnerTypes
  <2>4. CallTypes'
    BY <1>1, <2>1, <2>2 DEF Settle, CallTypes
  <2>5. BridgeTypeOK'
    BY <1>1, <2>2, <2>3, <2>4 DEF BridgeTypeOK, CallTypes, ClientTypes, OwnerTypes
  <2>6. \A s \in Servers : client[s] <= opened[s] /\ dropped[s] <= failures' /\ opened[s] <= failures' + 1
    <3> SUFFICES ASSUME NEW s \in Servers PROVE client[s] <= opened[s] /\ dropped[s] <= failures' /\ opened[s] <= failures' + 1
      OBVIOUS
    <3>1. dropped[s] \in Nat /\ opened[s] \in Nat /\ failures \in Nat
      BY <1>1 DEF ClientTypes, OwnerTypes, Bound
    <3>2. client[s] <= opened[s] /\ dropped[s] <= failures /\ opened[s] <= failures + 1
      BY DEF ClientInv
    <3> QED BY <2>2, <3>1, <3>2
  <2> QED BY <2>1, <2>2, <2>3, <2>5, <2>6 DEF ClientInv, OneClientAtATime
<1>4. CASE CleanUp
  <2>1. /\ owner' = [owner EXCEPT !.pc = "unstacking"] /\ result' = Cancelled(Tracked) /\ client' = [s \in Servers |-> 0]
        /\ UNCHANGED <<thread, coro, with, opened, dropped, requests, closer, loop, failures>>
    BY <1>4 DEF CleanUp
  <2>2. Closing' /\ OwnerTypes' /\ owner'.pc # "serving" /\ DOMAIN owner' = {"pc", "call"}
    BY <1>1, <2>1 DEF ClientInv, Closing, OwnerTypes
  <2>3. CallTypes'
    BY <1>1, <2>1 DEF CallTypes, Cancelled
  <2>4. ClientTypes'
    BY <1>1, <2>1 DEF ClientTypes, Bound
  <2>5. BridgeTypeOK'
    BY <2>2, <2>3, <2>4 DEF BridgeTypeOK, CallTypes, ClientTypes, OwnerTypes
  <2>6. \A s \in Servers : opened[s] \in Nat /\ client'[s] = 0 /\ client'[s] <= opened[s]
    BY <1>1, <2>1 DEF ClientTypes
  <2> QED BY <2>1, <2>2, <2>5, <2>6 DEF ClientInv, OneClientAtATime
<1>5. CASE AskedToClose
  <2>1. /\ owner' = [owner EXCEPT !.pc = "closing"] /\ ~Closing
        /\ UNCHANGED <<calls, client, opened, dropped, requests, closer, loop, failures>>
    BY <1>5 DEF AskedToClose, Closing
  <2>2. ~Closing' /\ OwnerTypes' /\ owner'.pc # "serving" /\ DOMAIN owner' = {"pc", "call"}
    BY <1>1, <2>1 DEF ClientInv, Closing, OwnerTypes
  <2>3. BridgeTypeOK'
    BY <1>1, <2>1, <2>2 DEF BridgeTypeOK, CallTypes, ClientTypes, OwnerTypes, calls
  <2> QED BY <2>1, <2>2, <2>3 DEF ClientInv, OneClientAtATime
<1>6. CASE Unstack
  <2>1. /\ owner' = [owner EXCEPT !.pc = "gone"] /\ Closing /\ requests' = <<>>
        /\ UNCHANGED <<calls, client, opened, dropped, closer, loop, failures>>
    BY <1>6 DEF Unstack, Closing
  <2>2. Closing' /\ OwnerTypes' /\ owner'.pc # "serving" /\ DOMAIN owner' = {"pc", "call"}
    BY <1>1, <2>1 DEF ClientInv, Closing, OwnerTypes
  <2>3. BridgeTypeOK'
    BY <1>1, <2>1, <2>2 DEF BridgeTypeOK, CallTypes, ClientTypes, OwnerTypes, calls
  <2> QED BY <2>1, <2>2, <2>3 DEF ClientInv, OneClientAtATime
<1>7. CASE CloseAsks \/ CloseStops
  <2>1. UNCHANGED <<calls, client, opened, dropped, requests, owner, failures>> /\ OwnerTypes'
    BY <1>1, <1>7 DEF CloseAsks, CloseStops, OwnerTypes
  <2>2. BridgeTypeOK'
    BY <1>1, <2>1 DEF BridgeTypeOK, CallTypes, ClientTypes, OwnerTypes, calls
  <2> QED BY <2>1, <2>2 DEF ClientInv, OneClientAtATime, Closing
<1>8. ASSUME NEW a \in Agents, CancelAgent(a)
      PROVE  ClientInv'
  <2>1. /\ UNCHANGED <<thread, coro, with, client, opened, dropped, requests, owner, closer, loop, failures>>
        /\ \E S \in SUBSET Calls : result' = Cancelled(S)
    BY <1>8 DEF CancelAgent, Tracked
  <2>2. CallTypes'
    BY <1>1, <2>1 DEF CallTypes, Cancelled
  <2>3. BridgeTypeOK'
    BY <1>1, <2>1, <2>2 DEF BridgeTypeOK, CallTypes, ClientTypes, OwnerTypes
  <2> QED BY <2>1, <2>3 DEF ClientInv, OneClientAtATime, Closing
<1> QED BY <1>2, <1>3, <1>4, <1>5, <1>6, <1>7, <1>8

LEMMA ClientStep ==
  ASSUME ClientInv, [Next]_vars
  PROVE  ClientInv'
<1>1. CASE UNCHANGED bridge
  BY <1>1 DEF bridge, calls, ClientInv, BridgeTypeOK, OneClientAtATime, Closing
<1>2. CASE BridgeNext
  BY <1>2, CallStep, FailStep, ServeStep, OwnerStep DEF BridgeNext, Runs, Owns
<1> QED BY <1>1, <1>2 DEF Next, vars

-----------------------------------------------------------------------------
\* The bridges of a Session.

\* A function on 1..n with one more value.
LEMMA AppendFacts ==
  ASSUME NEW n \in Nat, NEW f, DOMAIN f = 1..n, f = [i \in 1..n |-> f[i]], NEW x
  PROVE  LET g == Append(f, x) IN
         /\ Len(g) = n + 1 /\ DOMAIN g = 1..(n + 1) /\ g = [i \in 1..(n + 1) |-> g[i]]
         /\ \A i \in 1..n : g[i] = f[i]
         /\ g[n + 1] = x
<1> DEFINE S == {f[i] : i \in 1..n} \cup {x}
<1>1. f \in [1..n -> S]
  OBVIOUS
<1> HIDE DEF S
<1>2. f \in Seq(S) /\ Len(f) = n
  BY <1>1, SeqDef, LenProperties
<1>3. x \in S
  BY DEF S
<1> QED BY <1>2, <1>3

BridgeFields == {"key", "secrets", "state", "open", "closed"}
EditFields == {"pc", "kind", "id", "server", "name", "roles", "read"}
BuildFields == {"pc", "role", "records", "secrets", "key", "bridge"}
Connecting == {"start", "launch", "spawn", "connect"}

\* Somebody will close the bridge, or has.
Held(b) == b \in runtimes \/ (\E e \in Editors : b \in closing[e]) \/ bridges[b].closed

Shapes ==
  /\ Len(bridges) \in Nat /\ DOMAIN bridges = Bridges /\ bridges = [b \in Bridges |-> bridges[b]]
  /\ \A b \in Bridges : DOMAIN bridges[b] = BridgeFields
  /\ runtimes \subseteq Bridges /\ cache \in [Roles -> 0..Len(bridges)] /\ closing \in [Editors -> SUBSET Bridges]
  /\ DOMAIN edit = Editors /\ \A e \in Editors : DOMAIN edit[e] = EditFields
  /\ DOMAIN build = Builders /\ \A u \in Builders : DOMAIN build[u] = BuildFields /\ build[u].role \in Roles
  /\ \A u \in Builders : build[u].pc \in Connecting => build[u].bridge \in Bridges

\* A bridge leaves the runtime manager closed, or in the hands of an edit that
\* closes it.
OwnedInv ==
  /\ Shapes
  /\ \A e \in Editors : edit[e].pc \notin {"close", "shut"} => closing[e] = {}
  /\ \A b \in Bridges : bridges[b].state \in {"closed", "failed"} => bridges[b].closed
  /\ \A b \in Bridges : Held(b)

LEMMA EmptyFacts == /\ DOMAIN NoEdit = EditFields /\ NoEdit.pc = "idle"
                    /\ DOMAIN NoBuild = BuildFields /\ NoBuild.pc = "idle" /\ NoBuild.role \in Roles
BY DEF NoEdit, NoBuild, EditFields, BuildFields, Roles

LEMMA OwnedStart == StoreInit /\ ServiceInit => OwnedInv
<1> SUFFICES ASSUME StoreInit, ServiceInit PROVE OwnedInv
  OBVIOUS
<1>1. /\ bridges = <<>> /\ Len(bridges) = 0 /\ runtimes = {} /\ cache = [r \in Roles |-> 0]
      /\ build = [u \in Builders |-> NoBuild] /\ closing = [e \in Editors |-> {}] /\ edit = [e \in Editors |-> NoEdit]
  BY DEF StoreInit, ServiceInit
<1>2. Bridges = {} /\ DOMAIN bridges = Bridges /\ bridges = [b \in Bridges |-> bridges[b]]
  BY <1>1 DEF Bridges
<1>3. Shapes
  BY <1>1, <1>2, EmptyFacts DEF Shapes, Connecting
<1> QED BY <1>1, <1>2, <1>3 DEF OwnedInv

\* Edits of the documents: nobody comes to a point that holds bridges.
LEMMA EditingStep ==
  ASSUME OwnedInv, Editing, UNCHANGED serving
  PROVE  OwnedInv'
<1>1. PICK e \in Editors : Ask(e) \/ Read(e) \/ WriteCatalog(e) \/ WriteSecret(e) \/ WriteBindings(e)
  BY DEF Editing
<1>2. PICK x : /\ edit' = [edit EXCEPT ![e] = x] /\ DOMAIN x = EditFields
               /\ x.pc \in {"idle", "pop", "catalog", "secret", "bindings"}
  <2>1. DOMAIN edit[e] = EditFields
    BY DEF OwnedInv, Shapes
  <2>2. CASE Ask(e)
    <3>1. PICK kind \in Changes, s \in Ids, name \in Ids, roles \in Bindings \cup {NoEdit.roles} :
            edit' = [edit EXCEPT ![e] = Requested(kind, s, name, roles)]
      BY <2>2 DEF Ask
    <3>2. DOMAIN Requested(kind, s, name, roles) = EditFields /\ Requested(kind, s, name, roles).pc = "pop"
      BY EmptyFacts DEF Requested, EditFields
    <3> QED BY <3>1, <3>2
  <2>3. CASE Read(e)
    BY <2>1, <2>3, EmptyFacts DEF Read, Ends, EditFields
  <2>4. CASE WriteCatalog(e) \/ WriteSecret(e) \/ WriteBindings(e)
    BY <2>1, <2>4, EmptyFacts DEF WriteCatalog, WriteSecret, WriteBindings, Ends, Goes, EditFields
  <2> QED BY <1>1, <2>2, <2>3, <2>4
<1>3. edit[e].pc \notin {"close", "shut"}
  BY <1>1 DEF Ask, Read, WriteCatalog, WriteSecret, WriteBindings, At
<1>4. DOMAIN edit' = Editors /\ edit'[e] = x /\ \A i \in Editors \ {e} : edit'[i] = edit[i]
  BY <1>2 DEF OwnedInv, Shapes
<1> QED BY <1>2, <1>3, <1>4 DEF OwnedInv, Shapes, Held, Bridges, serving

\* MCPToolBridge.close, on any of the bridges.
LEMMA ClosedFacts ==
  ASSUME Shapes, NEW S
  PROVE  /\ DOMAIN Closed(S) = Bridges /\ Closed(S) = [b \in Bridges |-> Closed(S)[b]]
         /\ \A b \in Bridges : /\ DOMAIN Closed(S)[b] = BridgeFields /\ Closed(S)[b].state = bridges[b].state
                               /\ Closed(S)[b].key = bridges[b].key
                               /\ bridges[b].closed \/ b \in S => Closed(S)[b].closed
BY DEF Closed, Shapes, BridgeFields

\* A builder comes to x; the bridges that are there keep or lose their openness,
\* and those the runtime manager lets go are closed.
LEMMA BuilderMoves ==
  ASSUME OwnedInv, NEW u \in Builders, NEW x, build' = [build EXCEPT ![u] = x], DOMAIN x = BuildFields, x.role \in Roles,
         x.pc \in Connecting => x.bridge \in Bridges, UNCHANGED <<edit, closing>>,
         cache' \in [Roles -> 0..Len(bridges)], runtimes' = runtimes, Len(bridges') = Len(bridges),
         DOMAIN bridges' = Bridges, bridges' = [b \in Bridges |-> bridges'[b]],
         \A b \in Bridges : /\ DOMAIN bridges'[b] = BridgeFields /\ (bridges[b].closed => bridges'[b].closed)
                            /\ bridges'[b].state \in {"closed", "failed"} => bridges'[b].closed
  PROVE  OwnedInv'
<1>1. Bridges' = Bridges
  BY DEF Bridges
<1>2. DOMAIN build' = Builders /\ build'[u] = x /\ \A i \in Builders \ {u} : build'[i] = build[i]
  BY DEF OwnedInv, Shapes
<1>3. Shapes'
  BY <1>1, <1>2 DEF OwnedInv, Shapes
<1> QED BY <1>1, <1>3 DEF OwnedInv, Held

LEMMA BuilderStep ==
  ASSUME OwnedInv, NEW u \in Builders,
         \/ Materialise(u) \/ ReadSecrets(u) \/ ReadBindings(u) \/ Start(u) \/ Launch(u)
         \/ Spawn(u) \/ ConnectOk(u) \/ ConnectFails(u)
  PROVE  OwnedInv'
<1>1. Shapes /\ DOMAIN build[u] = BuildFields /\ build[u].role \in Roles /\ cache \in [Roles -> 0..Len(bridges)]
  BY DEF OwnedInv, Shapes
<1>2. UNCHANGED <<edit, closing, runtimes>>
  BY DEF Materialise, ReadSecrets, ReadBindings, Start, Launch, Spawn, ConnectOk, ConnectFails, store
<1>3. \A b \in Bridges : /\ DOMAIN bridges[b] = BridgeFields
                         /\ bridges[b].state \in {"closed", "failed"} => bridges[b].closed
  BY DEF OwnedInv, Shapes
<1>4. PICK x : /\ build' = [build EXCEPT ![u] = x] /\ DOMAIN x = BuildFields /\ x.role \in Roles
               /\ x.pc \in Connecting => build[u].pc \in Connecting /\ x.bridge = build[u].bridge
  <2>1. CASE Materialise(u)
    <3>1. PICK r \in Roles :
            build' = [build EXCEPT ![u] = IF Readable(catalog)
                                          THEN [NoBuild EXCEPT !.pc = "secrets", !.role = r, !.records = catalog]
                                          ELSE NoBuild]
      BY <2>1 DEF Materialise
    <3> DEFINE y == [NoBuild EXCEPT !.pc = "secrets", !.role = r, !.records = catalog]
    <3>2. DOMAIN y = BuildFields /\ y.pc = "secrets" /\ y.role = r
      BY EmptyFacts DEF BuildFields
    <3> HIDE DEF y
    <3>3. build' = [build EXCEPT ![u] = y] \/ build' = [build EXCEPT ![u] = NoBuild]
      BY <3>1 DEF y
    <3> QED BY <3>2, <3>3, EmptyFacts DEF Connecting
  <2>2. CASE ReadSecrets(u)
    <3> DEFINE y == [build[u] EXCEPT !.pc = "bindings", !.secrets = secret]
    <3>1. DOMAIN y = BuildFields /\ y.pc = "bindings" /\ y.role = build[u].role
      BY <1>1 DEF BuildFields
    <3>2. build' = [build EXCEPT ![u] = y]
      BY <2>2 DEF ReadSecrets
    <3> HIDE DEF y
    <3> QED BY <1>1, <3>1, <3>2 DEF Connecting
  <2>3. CASE ReadBindings(u)
    <3> DEFINE key == [at |-> [s \in Ids |-> IF s \in Resolved(build[u]) THEN build[u].records[s].stamp ELSE 0]]
               y == [build[u] EXCEPT !.pc = "lookup", !.key = key]
    <3> HIDE DEF key
    <3>1. DOMAIN y = BuildFields /\ y.pc = "lookup" /\ y.role = build[u].role
      BY <1>1 DEF BuildFields
    <3>2. build' = [build EXCEPT ![u] = y] \/ build' = [build EXCEPT ![u] = NoBuild]
      BY <2>3 DEF ReadBindings, key
    <3> HIDE DEF y
    <3> QED BY <1>1, <3>1, <3>2, EmptyFacts DEF Connecting
  <2>4. CASE Start(u) \/ Launch(u) \/ Spawn(u) \/ ConnectOk(u) \/ ConnectFails(u)
    <3>1. /\ build[u].pc \in Connecting
          /\ \/ build' = [build EXCEPT ![u] = NoBuild]
             \/ \E p \in Connecting : build' = [build EXCEPT ![u] = [build[u] EXCEPT !.pc = p]]
      BY <2>4 DEF Start, Launch, Spawn, ConnectOk, ConnectFails, Keeps, Raises, Connecting
    <3>2. \A p \in Connecting : LET y == [build[u] EXCEPT !.pc = p] IN
            DOMAIN y = BuildFields /\ y.bridge = build[u].bridge /\ y.role = build[u].role
      BY <1>1 DEF BuildFields
    <3> QED BY <1>1, <3>1, <3>2, EmptyFacts DEF Connecting
  <2> QED BY <2>1, <2>2, <2>3, <2>4
<1>5. x.pc \in Connecting => x.bridge \in Bridges
  BY <1>4 DEF OwnedInv, Shapes
<1>6. cache' \in [Roles -> 0..Len(bridges)]
  <2>1. cache' = cache \/ (build[u].pc \in Connecting /\ cache' = [cache EXCEPT ![build[u].role] = build[u].bridge])
    BY DEF Materialise, ReadSecrets, ReadBindings, Start, Launch, Spawn, ConnectOk, ConnectFails, Keeps, Raises, Connecting
  <2>2. build[u].pc \in Connecting => build[u].bridge \in 0..Len(bridges)
    BY DEF OwnedInv, Shapes, Bridges
  <2> QED BY <1>1, <2>1, <2>2
<1>7. /\ Len(bridges') = Len(bridges) /\ DOMAIN bridges' = Bridges /\ bridges' = [b \in Bridges |-> bridges'[b]]
      /\ \A b \in Bridges : /\ DOMAIN bridges'[b] = BridgeFields /\ (bridges[b].closed => bridges'[b].closed)
                            /\ bridges'[b].state \in {"closed", "failed"} => bridges'[b].closed
  <2>1. CASE UNCHANGED bridges
    BY <1>1, <1>3, <2>1 DEF Shapes
  <2>2. ASSUME NEW f, bridges' = f, DOMAIN f = Bridges, f = [b \in Bridges |-> f[b]]
        PROVE  Len(bridges') = Len(bridges)
    <3>1. f \in [1..Len(bridges) -> {f[b] : b \in Bridges}] /\ Len(bridges) \in Nat
      BY <1>1, <2>2 DEF Bridges, Shapes
    <3> QED BY <2>2, <3>1, SeqDef, LenProperties
  <2> PICK b : b = build[u].bridge
    OBVIOUS
  <2>3. CASE Launch(u) \/ Spawn(u) \/ ConnectOk(u)
    <3>1. b \in Bridges
      BY <2>3 DEF OwnedInv, Shapes, Launch, Spawn, ConnectOk, Connecting
    <3>2. \/ UNCHANGED bridges
          \/ bridges[b].closed /\ bridges' = [bridges EXCEPT ![b].state = "failed"]
          \/ bridges' = [bridges EXCEPT ![b].open = TRUE]
          \/ bridges' = [bridges EXCEPT ![b].state = "ready"]
      BY <2>3 DEF Launch, Spawn, ConnectOk
    <3>3. DOMAIN bridges[b] = BridgeFields /\ (bridges[b].state \in {"closed", "failed"} => bridges[b].closed)
      BY <1>3, <3>1
    <3>4. UNCHANGED bridges \/ \E r : /\ bridges' = [bridges EXCEPT ![b] = r] /\ DOMAIN r = BridgeFields
                                      /\ bridges[b].closed => r.closed
                                      /\ r.state \in {"closed", "failed"} => r.closed
      <4> DEFINE failed == [bridges[b] EXCEPT !.state = "failed"]
                 ready == [bridges[b] EXCEPT !.state = "ready"]
                 open == [bridges[b] EXCEPT !.open = TRUE]
      <4>1. DOMAIN failed = BridgeFields /\ failed.closed = bridges[b].closed
        BY <3>3 DEF BridgeFields
      <4>2. DOMAIN ready = BridgeFields /\ ready.closed = bridges[b].closed /\ ready.state = "ready"
        BY <3>3 DEF BridgeFields
      <4>3. DOMAIN open = BridgeFields /\ open.closed = bridges[b].closed /\ open.state = bridges[b].state
        BY <3>3 DEF BridgeFields
      <4>4. \/ UNCHANGED bridges
            \/ bridges[b].closed /\ bridges' = [bridges EXCEPT ![b] = failed]
            \/ bridges' = [bridges EXCEPT ![b] = open]
            \/ bridges' = [bridges EXCEPT ![b] = ready]
        BY <3>2
      <4> HIDE DEF failed, ready, open
      <4> QED BY <3>3, <4>1, <4>2, <4>3, <4>4
    <3>5. ASSUME NEW r, bridges' = [bridges EXCEPT ![b] = r]
          PROVE  /\ DOMAIN bridges' = Bridges /\ bridges' = [i \in Bridges |-> bridges'[i]]
                 /\ bridges'[b] = r /\ \A i \in Bridges \ {b} : bridges'[i] = bridges[i]
      BY <1>1, <3>1, <3>5 DEF Shapes
    <3> QED BY <1>3, <2>1, <2>2, <3>1, <3>4, <3>5
  <2>4. CASE ConnectFails(u)
    <3> DEFINE f == Closed({b})
    <3>1. b \in Bridges /\ bridges' = [f EXCEPT ![b].state = "failed"]
      BY <2>4 DEF OwnedInv, Shapes, ConnectFails, Connecting
    <3>2. /\ DOMAIN f = Bridges /\ f = [i \in Bridges |-> f[i]] /\ f[b].closed
          /\ \A i \in Bridges : DOMAIN f[i] = BridgeFields /\ f[i].state = bridges[i].state /\ (bridges[i].closed => f[i].closed)
      BY <1>1, <3>1, ClosedFacts
    <3> HIDE DEF f
    <3>3. /\ DOMAIN bridges' = Bridges /\ bridges' = [i \in Bridges |-> bridges'[i]]
          /\ \A i \in Bridges : bridges'[i] = IF i = b THEN [f[b] EXCEPT !.state = "failed"] ELSE f[i]
      BY <3>1, <3>2
    <3> QED BY <1>3, <2>2, <3>1, <3>2, <3>3 DEF BridgeFields
  <2>5. Launch(u) \/ Spawn(u) \/ ConnectOk(u) \/ ConnectFails(u) \/ UNCHANGED bridges
    BY DEF Materialise, ReadSecrets, ReadBindings, Start
  <2> QED BY <2>1, <2>3, <2>4, <2>5
<1> QED BY <1>2, <1>4, <1>5, <1>6, <1>7, BuilderMoves

\* A runtime that is replaced has failed or is closed.
LEMMA LookupStep ==
  ASSUME OwnedInv, NEW u \in Builders, Lookup(u)
  PROVE  OwnedInv'
<1> DEFINE k == build[u].key
           old == cache[build[u].role]
           taken == IF old = 0 THEN {} ELSE {old}
           kept == Closed(taken)
           new == [key |-> k, secrets |-> build[u].secrets, state |-> "starting", open |-> FALSE, closed |-> FALSE]
           n == Len(bridges)
<1>1. Shapes /\ n \in Nat /\ Bridges = 1..n /\ DOMAIN build[u] = BuildFields /\ build[u].role \in Roles
  BY DEF OwnedInv, Shapes, Bridges
<1>2. UNCHANGED <<edit, cache, closing>>
  BY DEF Lookup, store
<1>3. /\ DOMAIN kept = Bridges /\ kept = [b \in Bridges |-> kept[b]]
      /\ \A b \in Bridges : /\ DOMAIN kept[b] = BridgeFields /\ kept[b].state = bridges[b].state
                            /\ bridges[b].closed => kept[b].closed
  BY <1>1, ClosedFacts
<1>4. Len(kept) = n
  <2> HIDE DEF kept
  <2>1. kept \in [1..n -> {kept[b] : b \in Bridges}]
    BY <1>1, <1>3
  <2> QED BY <1>1, <2>1, SeqDef, LenProperties
<1>5. \/ build' = [build EXCEPT ![u] = NoBuild] /\ UNCHANGED <<bridges, runtimes>>
      \/ /\ Usable(k) # {} /\ bridges' = kept /\ UNCHANGED runtimes
         /\ build' = [build EXCEPT ![u].pc = "start", ![u].bridge = CHOOSE b \in Usable(k) : TRUE]
      \/ /\ Usable(k) = {} /\ bridges' = Append(kept, new) /\ runtimes' = {b \in runtimes : bridges[b].key # k} \cup {n + 1}
         /\ build' = [build EXCEPT ![u].pc = "start", ![u].bridge = n + 1]
  BY DEF Lookup
<1> DEFINE x(b) == [build[u] EXCEPT !.pc = "start", !.bridge = b]
<1>6. \A b : DOMAIN x(b) = BuildFields /\ x(b).pc = "start" /\ x(b).bridge = b /\ x(b).role = build[u].role
  BY <1>1 DEF BuildFields
<1>7. \A b : build' = [build EXCEPT ![u].pc = "start", ![u].bridge = b] => build' = [build EXCEPT ![u] = x(b)]
  BY <1>1 DEF Shapes
<1> HIDE DEF x, kept
<1>8. CASE build' = [build EXCEPT ![u] = NoBuild] /\ UNCHANGED <<bridges, runtimes>>
  <2>1. cache \in [Roles -> 0..Len(bridges)] /\ NoBuild.pc \notin Connecting
    BY <1>1, EmptyFacts DEF Shapes, Connecting
  <2> QED BY <1>1, <1>2, <1>8, <2>1, EmptyFacts, BuilderMoves DEF OwnedInv, Shapes
<1>9. CASE /\ Usable(k) # {} /\ bridges' = kept /\ UNCHANGED runtimes
           /\ build' = [build EXCEPT ![u].pc = "start", ![u].bridge = CHOOSE b \in Usable(k) : TRUE]
  <2> PICK b : b = CHOOSE c \in Usable(k) : TRUE
    OBVIOUS
  <2>1. b \in Bridges
    BY <1>1, <1>9 DEF Usable, Shapes
  <2>2. PICK y : y = x(b)
    OBVIOUS
  <2>3. /\ build' = [build EXCEPT ![u] = y] /\ DOMAIN y = BuildFields /\ y.role \in Roles
        /\ y.pc \in Connecting => y.bridge \in Bridges
    BY <1>1, <1>6, <1>7, <1>9, <2>1, <2>2
  <2>4. /\ Len(bridges') = Len(bridges) /\ DOMAIN bridges' = Bridges /\ bridges' = [i \in Bridges |-> bridges'[i]]
        /\ \A i \in Bridges : /\ DOMAIN bridges'[i] = BridgeFields /\ (bridges[i].closed => bridges'[i].closed)
                              /\ bridges'[i].state \in {"closed", "failed"} => bridges'[i].closed
    BY <1>3, <1>4, <1>9 DEF OwnedInv
  <2>5. cache' \in [Roles -> 0..Len(bridges)] /\ runtimes' = runtimes /\ UNCHANGED <<edit, closing>>
    BY <1>1, <1>2, <1>9 DEF Shapes
  <2> HIDE DEF k, old, taken, new, n
  <2> QED BY <2>3, <2>4, <2>5, BuilderMoves
<1>10. CASE /\ Usable(k) = {} /\ bridges' = Append(kept, new) /\ runtimes' = {b \in runtimes : bridges[b].key # k} \cup {n + 1}
            /\ build' = [build EXCEPT ![u].pc = "start", ![u].bridge = n + 1]
  <2>1. DOMAIN new = BridgeFields /\ new.state = "starting"
    BY DEF BridgeFields
  <2> HIDE DEF new
  <2>2. /\ Len(bridges') = n + 1 /\ DOMAIN bridges' = 1..(n + 1) /\ bridges' = [b \in 1..(n + 1) |-> bridges'[b]]
        /\ \A b \in Bridges : bridges'[b] = kept[b]
        /\ bridges'[n + 1] = new
    BY <1>1, <1>3, <1>10, AppendFacts
  <2>3. Bridges' = Bridges \cup {n + 1} /\ Bridges' = 1..(n + 1)
    BY <1>1, <2>2 DEF Bridges
  <2>4. build' = [build EXCEPT ![u] = x(n + 1)]
    BY <1>7, <1>10
  <2>5. \A b \in Bridges' : /\ DOMAIN bridges'[b] = BridgeFields
                            /\ bridges'[b].state \in {"closed", "failed"} => bridges'[b].closed
    BY <1>3, <2>1, <2>2, <2>3 DEF OwnedInv
  <2>6. runtimes' \subseteq Bridges'
    BY <1>1, <1>10, <2>3 DEF Shapes
  <2>7. cache' \in [Roles -> 0..Len(bridges')] /\ closing' \in [Editors -> SUBSET Bridges']
    <3>1. cache \in [Roles -> 0..n] /\ closing \in [Editors -> SUBSET Bridges]
      BY <1>1 DEF Shapes
    <3>2. 0..n \subseteq 0..(n + 1) /\ SUBSET Bridges \subseteq SUBSET Bridges'
      BY <1>1, <2>3
    <3>3. cache' \in [Roles -> 0..(n + 1)] /\ closing' \in [Editors -> SUBSET Bridges']
      <4> HIDE DEF n
      <4> QED BY <1>2, <3>1, <3>2
    <3> QED BY <2>2, <3>3
  <2>8. /\ DOMAIN build' = Builders
        /\ \A i \in Builders : /\ DOMAIN build'[i] = BuildFields /\ build'[i].role \in Roles
                               /\ build'[i].pc \in Connecting => build'[i].bridge \in Bridges'
    BY <1>1, <1>6, <2>3, <2>4 DEF Shapes
  <2>9. Shapes'
    <3>1. /\ Len(bridges') \in Nat /\ DOMAIN bridges' = Bridges' /\ bridges' = [b \in Bridges' |-> bridges'[b]]
          /\ \A b \in Bridges' : DOMAIN bridges'[b] = BridgeFields
      BY <1>1, <2>2, <2>3, <2>5
    <3>2. DOMAIN edit' = Editors /\ \A e \in Editors : DOMAIN edit'[e] = EditFields
      BY <1>1, <1>2 DEF Shapes
    <3> QED BY <2>6, <2>7, <2>8, <3>1, <3>2 DEF Shapes
  <2>10. ASSUME NEW b \in Bridges'
         PROVE  b \in runtimes' \/ (\E e \in Editors : b \in closing'[e]) \/ bridges'[b].closed
    <3>1. CASE b = n + 1
      BY <1>10, <3>1
    <3>2. CASE b \in Bridges /\ bridges[b].closed
      BY <1>3, <2>2, <3>2
    <3>3. CASE b \in Bridges /\ ~bridges[b].closed
      <4>1. bridges[b].state \notin {"closed", "failed"} /\ (b \in runtimes \/ \E e \in Editors : b \in closing[e])
        BY <3>3 DEF OwnedInv, Held
      <4>2. b \in runtimes => bridges[b].key # k
        BY <1>10, <4>1 DEF Usable
      <4> QED BY <1>2, <1>10, <4>1, <4>2
    <3> QED BY <2>3, <3>1, <3>2, <3>3
  <2> QED BY <1>2, <2>5, <2>9, <2>10 DEF OwnedInv, Held
<1> QED BY <1>5, <1>8, <1>9, <1>10

\* An edit takes bridges out, one way or the other, before it closes them.
LEMMA InvalidateStep ==
  ASSUME OwnedInv, NEW e \in Editors, Pop(e) \/ CloseTaken(e) \/ Drain(e) \/ Shut(e)
  PROVE  OwnedInv'
<1>1. Shapes /\ Len(bridges) \in Nat /\ DOMAIN edit[e] = EditFields /\ e \in DOMAIN edit /\ UNCHANGED build
  BY DEF OwnedInv, Shapes, Pop, CloseTaken, Drain, Shut
<1>2. PICK p : edit' = [edit EXCEPT ![e].pc = p] /\ (p \notin {"close", "shut"} => closing'[e] = {})
  <2>1. closing \in [Editors -> SUBSET Bridges]
    BY <1>1 DEF Shapes
  <2>2. CASE Pop(e)
    <3>1. edit' = [edit EXCEPT ![e].pc = "close"]
      BY <2>2 DEF Pop, Goes
    <3> QED BY <3>1
  <2>3. CASE CloseTaken(e)
    <3>1. edit' = [edit EXCEPT ![e].pc = "drain"] /\ closing'[e] = {}
      BY <2>1, <2>3 DEF CloseTaken, Goes
    <3> QED BY <3>1
  <2>4. CASE Drain(e)
    <3>1. edit' = [edit EXCEPT ![e].pc = "shut"]
      BY <2>4 DEF Drain, Goes
    <3> QED BY <3>1
  <2>5. CASE Shut(e)
    <3>1. /\ edit' = [edit EXCEPT ![e].pc = IF edit[e].kind = "bind" THEN "bindings" ELSE "read"]
          /\ closing'[e] = {}
      BY <2>1, <2>5 DEF Shut, Goes
    <3> QED BY <3>1
  <2> QED BY <2>2, <2>3, <2>4, <2>5
<1>3. /\ DOMAIN edit' = Editors /\ edit'[e].pc = p /\ DOMAIN edit'[e] = EditFields
      /\ \A i \in Editors \ {e} : edit'[i] = edit[i]
  BY <1>1, <1>2 DEF Shapes, EditFields
<1>4. CASE Pop(e)
  <2>1. /\ closing' = [closing EXCEPT ![e] = {cache[r] : r \in Roles} \ {0}] /\ cache' = [r \in Roles |-> 0]
        /\ UNCHANGED <<bridges, runtimes>> /\ closing[e] = {}
    BY <1>4 DEF Pop, At, OwnedInv, Goes
  <2>2. {cache[r] : r \in Roles} \ {0} \subseteq Bridges
    BY <1>1 DEF Shapes, Bridges
  <2>3. /\ closing' \in [Editors -> SUBSET Bridges] /\ closing[e] \subseteq closing'[e]
        /\ \A i \in Editors \ {e} : closing'[i] = closing[i]
    BY <1>1, <2>1, <2>2 DEF Shapes
  <2>4. Shapes'
    BY <1>1, <1>3, <2>1, <2>3 DEF Shapes, Bridges
  <2> QED BY <1>2, <1>3, <2>1, <2>3, <2>4 DEF OwnedInv, Held, Bridges
<1>5. CASE CloseTaken(e)
  <2>1. bridges' = Closed(closing[e]) /\ closing' = [closing EXCEPT ![e] = {}] /\ UNCHANGED <<runtimes, cache>>
    BY <1>5 DEF CloseTaken
  <2>2. /\ DOMAIN bridges' = Bridges /\ bridges' = [b \in Bridges |-> bridges'[b]]
        /\ \A b \in Bridges : /\ DOMAIN bridges'[b] = BridgeFields /\ bridges'[b].state = bridges[b].state
                              /\ bridges[b].closed \/ b \in closing[e] => bridges'[b].closed
    BY <1>1, <2>1, ClosedFacts
  <2>3. Len(bridges') = Len(bridges)
    <3>1. bridges' \in [1..Len(bridges) -> {bridges'[b] : b \in Bridges}]
      BY <2>2 DEF Bridges
    <3> QED BY <1>1, <3>1, SeqDef, LenProperties
  <2>4. Bridges' = Bridges
    BY <2>3 DEF Bridges
  <2>5. closing' \in [Editors -> SUBSET Bridges] /\ \A i \in Editors : closing'[i] = IF i = e THEN {} ELSE closing[i]
    BY <1>1, <2>1 DEF Shapes
  <2>6. Shapes'
    BY <1>1, <1>3, <2>1, <2>2, <2>3, <2>4, <2>5 DEF Shapes
  <2> QED BY <1>2, <1>3, <2>1, <2>2, <2>4, <2>5, <2>6 DEF OwnedInv, Held
<1>6. CASE Drain(e)
  <2>1. /\ closing' = [closing EXCEPT ![e] = runtimes] /\ runtimes' = {} /\ UNCHANGED <<bridges, cache>>
        /\ closing[e] = {}
    BY <1>6 DEF Drain, At, OwnedInv, Goes
  <2>2. closing' \in [Editors -> SUBSET Bridges] /\ \A i \in Editors : closing'[i] = IF i = e THEN runtimes ELSE closing[i]
    BY <1>1, <2>1 DEF Shapes
  <2>3. Shapes'
    BY <1>1, <1>3, <2>1, <2>2 DEF Shapes, Bridges
  <2> QED BY <1>2, <1>3, <2>1, <2>2, <2>3 DEF OwnedInv, Held, Bridges
<1>7. CASE Shut(e)
  <2> DEFINE f == Closed(closing[e])
  <2>1. /\ bridges' = [b \in Bridges |-> IF b \in closing[e] THEN [f[b] EXCEPT !.state = "closed"] ELSE bridges[b]]
        /\ closing' = [closing EXCEPT ![e] = {}] /\ UNCHANGED <<runtimes, cache>>
    BY <1>7 DEF Shut
  <2>2. \A b \in Bridges : DOMAIN f[b] = BridgeFields /\ (bridges[b].closed \/ b \in closing[e] => f[b].closed)
    BY <1>1, ClosedFacts
  <2> HIDE DEF f
  <2>3. /\ DOMAIN bridges' = Bridges /\ bridges' = [b \in Bridges |-> bridges'[b]]
        /\ \A b \in Bridges : bridges'[b] = IF b \in closing[e] THEN [f[b] EXCEPT !.state = "closed"] ELSE bridges[b]
    BY <2>1
  <2>4. \A b \in Bridges : /\ DOMAIN bridges'[b] = BridgeFields /\ (bridges[b].closed \/ b \in closing[e] => bridges'[b].closed)
                           /\ bridges'[b].state \in {"closed", "failed"} => bridges'[b].closed
    BY <1>1, <2>2, <2>3 DEF OwnedInv, Shapes, BridgeFields
  <2>5. Len(bridges') = Len(bridges)
    <3>1. bridges' \in [1..Len(bridges) -> {bridges'[b] : b \in Bridges}]
      BY <2>3 DEF Bridges
    <3> QED BY <1>1, <3>1, SeqDef, LenProperties
  <2>6. Bridges' = Bridges
    BY <2>5 DEF Bridges
  <2>7. closing' \in [Editors -> SUBSET Bridges] /\ \A i \in Editors : closing'[i] = IF i = e THEN {} ELSE closing[i]
    BY <1>1, <2>1 DEF Shapes
  <2>8. Shapes'
    BY <1>1, <1>3, <2>1, <2>3, <2>4, <2>5, <2>6, <2>7 DEF Shapes
  <2> QED BY <1>2, <1>3, <2>1, <2>4, <2>6, <2>7, <2>8 DEF OwnedInv, Held
<1> QED BY <1>4, <1>5, <1>6, <1>7

LEMMA OwnedStep ==
  ASSUME OwnedInv, [Next]_vars
  PROVE  OwnedInv'
<1>1. CASE UNCHANGED <<store, serving>>
  BY <1>1 DEF store, serving, OwnedInv, Shapes, Held, Bridges
<1>2. CASE ServiceNext
  BY <1>2, EditingStep, BuilderStep, LookupStep, InvalidateStep DEF ServiceNext
<1> QED BY <1>1, <1>2 DEF Next, vars

-----------------------------------------------------------------------------

\* A bridge's threads, coroutines, futures, clients and owner keep their types:
\* no more clients are opened than failures allow.
THEOREM BridgeTypeCorrect == Spec => []BridgeTypeOK
<1>1. ClientInv => BridgeTypeOK
  BY DEF ClientInv
<1> QED BY ClientStart, ClientStep, <1>1, PTL DEF Spec, Init

\* Calls that find their client gone share one reconnection, however calls,
\* failures, cancellations and the close interleave (_ensure_client,
\* _own_connections, _call).
THEOREM ReconnectionIsShared == Spec => []OneClientAtATime
<1>1. ClientInv => OneClientAtATime
  BY DEF ClientInv
<1> QED BY ClientStart, ClientStep, <1>1, PTL DEF Spec, Init

\* No live bridge is lost by the edits that overlap the builds of two roles
\* (tools, invalidate, ensure_ready, drain).
THEOREM NoBridgeIsLost == Spec => []BridgesAreOwned
<1>1. OwnedInv => BridgesAreOwned
  BY DEF OwnedInv, Held, BridgesAreOwned
<1> QED BY OwnedStart, OwnedStep, <1>1, PTL DEF Spec, Init
=============================================================================
