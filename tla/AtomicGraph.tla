------------------------------ MODULE AtomicGraph ------------------------------
(***************************************************************************)
(* What the topology gateway promises: other threads see the blueprint     *)
(* change by whole accepted edits only, and a host that starts again reads *)
(* a blueprint such edits have made.                                       *)
(***************************************************************************)
EXTENDS Blueprint

VARIABLES
  published,   \* the blueprint other threads of this process see
  durable      \* the blueprint the next process would read

graph == <<published, durable>>

Init == durable = published /\ WellFormed(published)

Edit == /\ \E op \in Edits : Accepts(published, op) /\ published' = Effect(published, op)
        /\ durable' \in {durable, published'}

\* An edit on its way in or out again: saved and not yet accepted, or undone.
Save == /\ UNCHANGED published
        /\ \/ durable' = published
           \/ \E op \in Edits : Accepts(published, op) /\ durable' = Effect(published, op)

Restart == published' = durable /\ UNCHANGED durable

Next == Edit \/ Save \/ Restart
Spec == Init /\ [][Next]_graph
=============================================================================
