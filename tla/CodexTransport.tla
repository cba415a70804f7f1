------------------------------ MODULE CodexTransport ------------------------------
(***************************************************************************)
(* One connection of the Codex adapter: JSON lines over the pipes of a     *)
(* child process. The reader waits with select on the descriptor and reads *)
(* with readline through a buffer, which takes all that is in the pipe.    *)
(***************************************************************************)
EXTENDS Integers, Sequences

CONSTANTS
  MaxChatter,   \* lines the server writes on its own
  MaxExits      \* times the server exits or cannot be started

VARIABLES
  child,     \* the process: running, initialised, its input and its output
  buffer,    \* lines the reader's file object has taken from the pipe
  call,      \* the request that is under way
  late,      \* the deadline of the request has passed
  served,    \* history: requests the server answered with a result
  early,     \* history: requests sent to a server that was not initialised
  chatter, exits

codex == <<child, buffer, call, late, served, early, chatter, exits>>

NoChild == [started |-> FALSE, alive |-> FALSE, ready |-> FALSE, inbox |-> <<>>, pipe |-> <<>>, half |-> FALSE]
NewChild == [NoChild EXCEPT !.started = TRUE, !.alive = TRUE]
NoCall == [pc |-> "none", method |-> "initialize", id |-> 0, result |-> "none"]
Line(id, what) == [id |-> id, what |-> what]

CodexInit ==
  /\ child = NoChild /\ buffer = <<>> /\ call = NoCall /\ late = FALSE
  /\ served = {} /\ early = {} /\ chatter = 0 /\ exits = 0

-----------------------------------------------------------------------------
\* The client: request and notify, each to the process there is by then.

\* _ensure_process: a process that has exited is replaced by a new one.
Ensure ==
  /\ call.pc \in {"request", "notify"}
  /\ child' = IF child.alive THEN child ELSE NewChild
  /\ call' = [call EXCEPT !.pc = IF call.pc = "request" THEN "send" ELSE "tell"]
  /\ buffer' = IF child.alive THEN buffer ELSE <<>>
  /\ UNCHANGED <<late, served, early, chatter, exits>>

Fails == call' = [call EXCEPT !.pc = "over", !.result = "failed"]

CannotStart ==
  /\ call.pc \in {"request", "notify"} /\ ~child.alive /\ exits < MaxExits /\ exits' = exits + 1
  /\ Fails /\ UNCHANGED <<child, buffer, late, served, early, chatter>>

\* _write: the line reaches a process that runs, or the pipe is broken.
Send ==
  /\ call.pc = "send"
  /\ IF child.alive
     THEN /\ child' = [child EXCEPT !.inbox = Append(@, [id |-> call.id + 1, method |-> call.method])]
          /\ call' = [call EXCEPT !.pc = "wait", !.id = @ + 1] /\ late' = FALSE
          /\ early' = IF child.ready \/ call.method = "initialize" THEN early ELSE early \cup {call.id + 1}
     ELSE Fails /\ UNCHANGED <<child, late, early>>
  /\ UNCHANGED <<buffer, served, chatter, exits>>

Tell ==
  /\ call.pc = "tell"
  /\ IF child.alive THEN call' = [call EXCEPT !.pc = "over", !.result = "ok"] ELSE Fails
  /\ UNCHANGED <<child, buffer, late, served, early, chatter, exits>>

Deadline ==
  /\ call.pc \in {"wait", "read"} /\ ~late /\ late' = TRUE
  /\ UNCHANGED <<child, buffer, call, served, early, chatter, exits>>

\* select sees the descriptor, not the lines that are already in the buffer.
Visible == child.pipe # <<>> \/ child.half \/ ~child.alive

Select ==
  /\ call.pc = "wait" /\ ~late /\ Visible /\ call' = [call EXCEPT !.pc = "read"]
  /\ UNCHANGED <<child, buffer, late, served, early, chatter, exits>>

\* Mutant: the wait has no deadline.
TimesOutNever ==
  /\ call.pc = "wait" /\ late /\ ~child.alive /\ Fails
  /\ UNCHANGED <<child, buffer, late, served, early, chatter, exits>>

TimesOut ==
  /\ call.pc = "wait" /\ late /\ Fails
  /\ UNCHANGED <<child, buffer, late, served, early, chatter, exits>>

\* Mutant: any answer ends the wait, whatever request it is for.
TakeAny(l) ==
  call' = IF l.what # "result" THEN [call EXCEPT !.pc = "over", !.result = "failed"]
          ELSE [call EXCEPT !.pc = "over", !.result = "ok"]

\* A line is for this request, an error, not JSON, or somebody else's.
Take(l) ==
  call' = IF l.what = "garbage" \/ (l.id = call.id /\ l.what = "error")
          THEN [call EXCEPT !.pc = "over", !.result = "failed"]
          ELSE [call EXCEPT !.pc = IF l.id = call.id THEN "over" ELSE "wait",
                            !.result = IF l.id = call.id THEN "ok" ELSE @]

\* readline: from the buffer, else it takes all the pipe holds.
ReadLine ==
  LET lines == IF buffer # <<>> THEN buffer ELSE child.pipe
  IN /\ call.pc = "read" /\ lines # <<>> /\ Take(Head(lines)) /\ buffer' = Tail(lines)
     /\ child' = IF buffer # <<>> THEN child ELSE [child EXCEPT !.pipe = <<>>]
     /\ UNCHANGED <<late, served, early, chatter, exits>>

\* The end of the output, or a last line that was cut off. A line that is half
\* written by a running server keeps readline waiting, deadline or not.
ReadEnd ==
  /\ call.pc = "read" /\ buffer = <<>> /\ child.pipe = <<>> /\ ~child.alive /\ Fails
  /\ UNCHANGED <<child, buffer, late, served, early, chatter, exits>>

\* close terminates the process, if there is one.
Close ==
  /\ child' = NoChild /\ buffer' = <<>> /\ call' = NoCall /\ late' = FALSE
  /\ served' = {} /\ UNCHANGED <<early, chatter, exits>>

-----------------------------------------------------------------------------
\* The server, as the adapter meets it.

\* It answers the next request; before initialize it refuses all others.
Respond ==
  LET r == Head(child.inbox)
      good == child.ready \/ r.method = "initialize"
  IN /\ child.alive /\ child.inbox # <<>>
     /\ \E what \in IF good THEN {"result", "error"} ELSE {"error"} :
          /\ child' = [child EXCEPT !.inbox = Tail(@), !.half = FALSE, !.pipe = Append(@, Line(r.id, what)),
                                    !.ready = @ \/ (r.method = "initialize" /\ what = "result")]
          /\ served' = IF what = "result" THEN served \cup {r.id} ELSE served
     /\ UNCHANGED <<buffer, call, late, early, chatter, exits>>

\* A notification, or a line that is not JSON.
Chatter ==
  /\ child.alive /\ chatter < MaxChatter /\ chatter' = chatter + 1
  /\ \E what \in {"result", "garbage"} :
       child' = [child EXCEPT !.half = FALSE, !.pipe = Append(@, Line(0, what))]
  /\ UNCHANGED <<buffer, call, late, served, early, exits>>

\* The first part of the next line reaches the pipe before the rest.
Begin ==
  /\ child.alive /\ ~child.half /\ child.inbox # <<>> /\ child' = [child EXCEPT !.half = TRUE]
  /\ UNCHANGED <<buffer, call, late, served, early, chatter, exits>>

Exit ==
  /\ child.alive /\ exits < MaxExits /\ exits' = exits + 1 /\ child' = [child EXCEPT !.alive = FALSE]
  /\ UNCHANGED <<buffer, call, late, served, early, chatter>>

Exchange ==
  \/ Ensure \/ CannotStart \/ Send \/ Tell \/ Deadline \/ Select \/ TimesOut \/ ReadLine \/ ReadEnd
Server == Respond \/ Chatter \/ Begin \/ Exit
===================================================================================
