---------------------------- MODULE AttemptLifecycle ----------------------------
(***************************************************************************)
(* What an ExecutionAttempt promises its callers, with nothing of how: one *)
(* life per attempt, one outcome, a stop that was asked for decides it,    *)
(* waiters are released last, and an outcome is withdrawn only by a        *)
(* shutdown deadline (or the death of the host).                           *)
(***************************************************************************)
VARIABLES
  life,      \* "idle", "live" or the outcome
  asked,     \* a stop was asked of the attempt's controller
  released   \* waiters were told that the worker is gone

lifecycle == <<life, asked, released>>

Outcomes == {"completed", "failed", "stopped", "interrupted"}

Begin == life = "idle" /\ life' = "live" /\ UNCHANGED <<asked, released>>

\* A stop may still be asked after the outcome is known; it changes nothing.
Ask == life # "idle" /\ asked' = TRUE /\ UNCHANGED <<life, released>>

\* The outcome the worker publishes.
End == /\ life = "live"
       /\ life' \in IF asked THEN {"stopped"} ELSE {"completed", "failed"}
       /\ UNCHANGED <<asked, released>>

\* A shutdown deadline passes before the worker is known to be gone.
Interrupt == /\ life # "idle" /\ ~released
             /\ life' = "interrupted"
             /\ UNCHANGED <<asked, released>>

Release == /\ life \in Outcomes /\ ~released
           /\ released' = TRUE
           /\ UNCHANGED <<life, asked>>

\* The host dies; its memory of the attempt goes with it.
Forget == life' = "idle" /\ asked' = FALSE /\ released' = FALSE

Init == life = "idle" /\ asked = FALSE /\ released = FALSE
Next == Begin \/ Ask \/ End \/ Interrupt \/ Release \/ Forget
Spec == Init /\ [][Next]_lifecycle
=============================================================================
