--------------------------- MODULE ExternalAgentHubProps ---------------------------
(***************************************************************************)
(* What an inspection of an external Agent must not get wrong.             *)
(***************************************************************************)
EXTENDS ExternalAgentHub

\* When an inspection is over, however it ended, no App Server process of it
\* is left running (codex_app_server.py:282, :317, :358 close in a finally).
NoChildLeft == look.pc = "idle" => ~child.alive

\* What is reported as the Agent's answer is the server's answer to that
\* request, not a notification or the answer to another one
\* (codex_app_server.py:207 compares the id).
ReportedIsServed ==
  look.pc = "close" /\ look.answer = "ok" => call.id \in served

\* Every inspection ends, with a server that never answers, answers half a
\* line or exits (codex_app_server.py:198 waits until a deadline).
InspectionsEnd == (look.pc # "idle") ~> (look.pc = "idle")

\* Only an initialised server is asked anything but initialize.
HandshakeComesFirst == early = {}

\* A request is not given up while its answer has been received.
ReceivedIsRead ==
  [][(call'.pc = "over" /\ call'.result = "failed" /\ call.pc = "wait")
       => \A i \in 1..Len(buffer) : buffer[i].id # call.id]_hubVars
====================================================================================
