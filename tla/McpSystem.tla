-------------------------------- MODULE McpSystem --------------------------------
(***************************************************************************)
(* The MCP component: either one started bridge under its calls, or the    *)
(* service that shares bridges under edits of the documents.  The service  *)
(* knows a bridge only as open or closed, so each is looked at alone.      *)
(***************************************************************************)
EXTENDS McpBridge, McpService

VARIABLE part

vars == <<bridge, store, serving, part>>

Init == BridgeInit /\ StoreInit /\ ServiceInit /\ part \in {"bridge", "service"}

Next ==
  \/ part = "bridge" /\ BridgeNext /\ UNCHANGED <<store, serving, part>>
  \/ part = "service" /\ ServiceNext /\ UNCHANGED <<bridge, part>>

Spec == Init /\ [][Next]_vars

\* The loop runs what is ready, a remote server answers or fails, and a thread
\* whose future is settled returns.
Fairness ==
  /\ \A c \in Calls : WF_vars((Runs(c) \/ Return(c)) /\ UNCHANGED <<store, serving, part>>)
  /\ WF_vars(Owns /\ UNCHANGED <<store, serving, part>>)

FairSpec == Spec /\ Fairness

TypeOK == BridgeTypeOK /\ StoreTypeOK /\ ServiceTypeOK
=============================================================================
