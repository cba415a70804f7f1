-------------------------------- MODULE McpBridge --------------------------------
(***************************************************************************)
(* One started MCPToolBridge: Agents' threads submit calls to its event    *)
(* loop, the task that owns the transports opens clients, a failed call    *)
(* discards its client, an Agent's calls may be cancelled, and the bridge  *)
(* is closed while all this goes on.                                       *)
(***************************************************************************)
EXTENDS Integers, Sequences, FiniteSets

CONSTANTS
  Calls,         \* tool calls, each on a thread of its own
  Servers, Agents,
  CallOf,        \* the server and the Agent of each call
  MaxFailures    \* bounds failed calls and failed connections together

ASSUME BridgeConstants ==
  /\ CallOf \in [Calls -> [server : Servers, agent : Agents]] /\ MaxFailures \in Nat

VARIABLES
  thread,    \* where the calling thread is
  coro,      \* where the call's coroutine is on the loop
  result,    \* the future between them
  with,      \* the client the coroutine calls, 0 before it has one
  client,    \* the registered client of each server, 0 when it was discarded
  opened,    \* clients opened so far for each server
  dropped,   \* clients discarded so far
  requests,  \* calls whose reconnect request is queued
  owner,     \* the task that owns the transports, and the request it serves
  closer,    \* the thread that closes the bridge
  loop,      \* whether the event loop runs
  failures

calls == <<thread, coro, result, with>>
bridge == <<calls, client, opened, dropped, requests, owner, closer, loop, failures>>

NoCall == "none"
ServerOf(c) == CallOf[c].server
Bound == 2 + MaxFailures

BridgeTypeOK ==
  /\ thread \in [Calls -> {"idle", "checked", "submitted", "tracked", "returned"}]
  /\ coro \in [Calls -> {"none", "ready", "waiting", "answered", "remote", "done"}]
  /\ result \in [Calls -> {"none", "pending", "cancelled", "failed", "ok"}]
  /\ with \in [Calls -> 0..Bound]
  /\ client \in [Servers -> 0..Bound] /\ opened \in [Servers -> 1..Bound]
  /\ dropped \in [Servers -> 0..MaxFailures]
  /\ requests \in Seq(Calls)
  /\ owner.pc \in {"waiting", "serving", "closing", "unstacking", "gone"} /\ owner.call \in Calls \cup {NoCall}
  /\ closer \in {"idle", "asked", "finished"} /\ loop \in {"running", "stopped"}
  /\ failures \in 0..MaxFailures

\* start has returned: every server is connected.
BridgeInit ==
  /\ thread = [c \in Calls |-> "idle"] /\ coro = [c \in Calls |-> "none"]
  /\ result = [c \in Calls |-> "none"] /\ with = [c \in Calls |-> 0]
  /\ client = [s \in Servers |-> 1] /\ opened = [s \in Servers |-> 1]
  /\ dropped = [s \in Servers |-> 0]
  /\ requests = <<>> /\ owner = [pc |-> "waiting", call |-> NoCall]
  /\ closer = "idle" /\ loop = "running" /\ failures = 0

Pending(S) == {c \in S : result[c] = "pending"}
Cancelled(S) == [c \in Calls |-> IF c \in Pending(S) THEN "cancelled" ELSE result[c]]
Tracked == {c \in Calls : thread[c] = "tracked"}

-----------------------------------------------------------------------------
\* The calling thread: check _closed, submit, track the future, wait for it.

Check(c) ==
  /\ thread[c] = "idle"
  /\ thread' = [thread EXCEPT ![c] = IF closer = "idle" THEN "checked" ELSE "returned"]
  /\ UNCHANGED <<coro, result, with, client, opened, dropped, requests, owner, closer, loop, failures>>

Submit(c) ==
  /\ thread[c] = "checked" /\ thread' = [thread EXCEPT ![c] = "submitted"]
  /\ coro' = [coro EXCEPT ![c] = "ready"] /\ result' = [result EXCEPT ![c] = "pending"]
  /\ UNCHANGED <<with, client, opened, dropped, requests, owner, closer, loop, failures>>

Track(c) ==
  /\ thread[c] = "submitted" /\ thread' = [thread EXCEPT ![c] = "tracked"]
  /\ UNCHANGED <<coro, result, with, client, opened, dropped, requests, owner, closer, loop, failures>>

Return(c) ==
  /\ thread[c] = "tracked" /\ result[c] # "pending" /\ thread' = [thread EXCEPT ![c] = "returned"]
  /\ UNCHANGED <<coro, result, with, client, opened, dropped, requests, owner, closer, loop, failures>>

\* cancel_agent, by the force canceller of the Agent's run.
CancelAgent(a) ==
  LET mine == {c \in Tracked : CallOf[c].agent = a}
  IN /\ Pending(mine) # {} /\ result' = Cancelled(mine)
     /\ UNCHANGED <<thread, coro, with, client, opened, dropped, requests, owner, closer, loop, failures>>

-----------------------------------------------------------------------------
\* The call's coroutine on the loop.

Settle(c, value) ==
  /\ coro' = [coro EXCEPT ![c] = "done"]
  /\ result' = IF result[c] = "pending" THEN [result EXCEPT ![c] = value] ELSE result

\* The transports are being closed, or are.
Closing == owner.pc \in {"unstacking", "gone"}

\* _ensure_client: the registered client, a request to the owner, or no owner.
Begin(c) ==
  /\ loop = "running" /\ coro[c] = "ready" /\ result[c] = "pending"
  /\ \/ /\ client[ServerOf(c)] # 0 /\ coro' = [coro EXCEPT ![c] = "remote"]
        /\ with' = [with EXCEPT ![c] = client[ServerOf(c)]]
        /\ UNCHANGED <<result, requests>>
     \/ /\ client[ServerOf(c)] = 0 /\ owner.pc # "gone"
        /\ coro' = [coro EXCEPT ![c] = "waiting"] /\ requests' = Append(requests, c)
        /\ UNCHANGED <<result, with>>
     \/ /\ client[ServerOf(c)] = 0 /\ owner.pc = "gone" /\ Settle(c, "failed")
        /\ UNCHANGED <<with, requests>>
  /\ UNCHANGED <<thread, client, opened, dropped, owner, closer, loop, failures>>

Resume(c) ==
  /\ loop = "running" /\ coro[c] = "answered" /\ result[c] = "pending"
  /\ coro' = [coro EXCEPT ![c] = "remote"]
  /\ UNCHANGED <<thread, result, with, client, opened, dropped, requests, owner, closer, loop, failures>>

Answer(c) ==
  /\ loop = "running" /\ coro[c] = "remote" /\ ~Closing /\ Settle(c, "ok")
  /\ UNCHANGED <<thread, with, client, opened, dropped, requests, owner, closer, loop, failures>>

\* The registered client is discarded, whichever client the call used.
Fail(c) ==
  /\ loop = "running" /\ coro[c] = "remote" /\ Settle(c, "failed")
  /\ IF Closing THEN UNCHANGED failures
     ELSE failures < MaxFailures /\ failures' = failures + 1
  /\ client' = [client EXCEPT ![ServerOf(c)] = 0]
  /\ dropped' = IF client[ServerOf(c)] = 0 THEN dropped ELSE [dropped EXCEPT ![ServerOf(c)] = @ + 1]
  /\ UNCHANGED <<thread, with, opened, requests, owner, closer, loop>>

\* The cancellation reaches the task on the loop.
Unwind(c) ==
  /\ loop = "running" /\ result[c] = "cancelled" /\ coro[c] \in {"ready", "waiting", "answered", "remote"}
  /\ coro' = [coro EXCEPT ![c] = "done"]
  /\ UNCHANGED <<thread, result, with, client, opened, dropped, requests, owner, closer, loop, failures>>

-----------------------------------------------------------------------------
\* The owner of the transports: _own_connections.

Take ==
  /\ loop = "running" /\ owner.pc = "waiting" /\ closer # "asked" /\ requests # <<>>
  /\ owner' = [pc |-> "serving", call |-> Head(requests)] /\ requests' = Tail(requests)
  /\ UNCHANGED <<calls, client, opened, dropped, closer, loop, failures>>

Served == IF closer = "asked" THEN "closing" ELSE "waiting"
Refusable(c) == coro[c] = "waiting"

\* Mutant: the owner opens a client for every request.
ServeAgain ==
  LET c == owner.call s == ServerOf(owner.call)
  IN /\ loop = "running" /\ owner.pc = "serving" /\ opened[s] < Bound
     /\ client' = [client EXCEPT ![s] = opened[s] + 1] /\ opened' = [opened EXCEPT ![s] = @ + 1]
     /\ IF Refusable(c)
        THEN /\ coro' = [coro EXCEPT ![c] = "answered"] /\ with' = [with EXCEPT ![c] = client'[s]]
             /\ owner' = [pc |-> Served, call |-> NoCall]
        ELSE owner' = [pc |-> "closing", call |-> NoCall] /\ UNCHANGED <<coro, with>>
     /\ UNCHANGED <<thread, result, dropped, requests, closer, loop, failures>>

\* The client another request has restored is used; the answer to a cancelled
\* request raises in the owner and ends it.
Serve ==
  LET c == owner.call s == ServerOf(owner.call) n == client[s]
  IN /\ loop = "running" /\ owner.pc = "serving"
     /\ IF n = 0 THEN client' = [client EXCEPT ![s] = opened[s] + 1] /\ opened' = [opened EXCEPT ![s] = @ + 1]
                 ELSE UNCHANGED <<client, opened>>
     /\ IF Refusable(c)
        THEN /\ coro' = [coro EXCEPT ![c] = "answered"] /\ with' = [with EXCEPT ![c] = client'[s]]
             /\ owner' = [pc |-> Served, call |-> NoCall]
        ELSE owner' = [pc |-> "closing", call |-> NoCall] /\ UNCHANGED <<coro, with>>
     /\ UNCHANGED <<thread, result, dropped, requests, closer, loop, failures>>

\* The connection fails: the waiting call gets the error.
ServeFails ==
  LET c == owner.call
  IN /\ loop = "running" /\ owner.pc = "serving" /\ client[ServerOf(c)] = 0
     /\ failures < MaxFailures /\ failures' = failures + 1
     /\ IF Refusable(c)
        THEN Settle(c, "failed") /\ owner' = [pc |-> Served, call |-> NoCall]
        ELSE owner' = [pc |-> "closing", call |-> NoCall] /\ UNCHANGED <<coro, result>>
     /\ UNCHANGED <<thread, with, client, opened, dropped, requests, closer, loop>>

AskedToClose ==
  /\ loop = "running" /\ owner.pc = "waiting" /\ closer = "asked"
  /\ owner' = [owner EXCEPT !.pc = "closing"]
  /\ UNCHANGED <<calls, client, opened, dropped, requests, closer, loop, failures>>

\* Mutant: the calls in flight are left to their futures.
CleanUpQuietly ==
  /\ loop = "running" /\ owner.pc = "closing" /\ owner' = [owner EXCEPT !.pc = "unstacking"]
  /\ client' = [s \in Servers |-> 0]
  /\ UNCHANGED <<calls, opened, dropped, requests, closer, loop, failures>>

\* The finally block: every tracked call is cancelled and the clients are
\* forgotten; the queue is still there while the stack is closed.
CleanUp ==
  /\ loop = "running" /\ owner.pc = "closing" /\ owner' = [owner EXCEPT !.pc = "unstacking"]
  /\ result' = Cancelled(Tracked) /\ client' = [s \in Servers |-> 0]
  /\ UNCHANGED <<thread, coro, with, opened, dropped, requests, closer, loop, failures>>

Unstack ==
  /\ loop = "running" /\ owner.pc = "unstacking" /\ owner' = [owner EXCEPT !.pc = "gone"]
  /\ requests' = <<>>
  /\ UNCHANGED <<calls, client, opened, dropped, closer, loop, failures>>

-----------------------------------------------------------------------------
\* close: set _closed and ask the owner, wait for it at most the timeout, stop
\* the loop.

CloseAsks ==
  /\ closer = "idle" /\ closer' = "asked"
  /\ UNCHANGED <<calls, client, opened, dropped, requests, owner, loop, failures>>

\* The owner is done, or busy with a transport for longer than the timeout.
CloseStops ==
  /\ closer = "asked" /\ owner.pc \in {"gone", "unstacking", "serving"}
  /\ closer' = "finished" /\ loop' = "stopped"
  /\ UNCHANGED <<calls, client, opened, dropped, requests, owner, failures>>

Runs(c) == Begin(c) \/ Resume(c) \/ Answer(c) \/ Fail(c) \/ Unwind(c)
Owns == Take \/ Serve \/ ServeFails \/ AskedToClose \/ CleanUp \/ Unstack

BridgeNext ==
  \/ \E c \in Calls : Check(c) \/ Submit(c) \/ Track(c) \/ Return(c) \/ Runs(c)
  \/ \E a \in Agents : CancelAgent(a)
  \/ Owns \/ CloseAsks \/ CloseStops
=============================================================================
