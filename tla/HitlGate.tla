------------------------------ MODULE HitlGate ------------------------------
(***************************************************************************)
(* What the human-in-the-loop gate of one batch promises, with nothing of  *)
(* how it is done: a stop is passed only on the strength of an approval    *)
(* that was given and not yet used, a waiting batch becomes a processing   *)
(* one only by passing a stop, and only a waiting batch is rejected.       *)
(***************************************************************************)
EXTENDS Naturals

VARIABLES
    phase,      \* batches.status
    granted,    \* approvals given so far
    passed      \* stops passed so far

gateVars == <<phase, granted, passed>>

Init ==
    /\ phase \in {"batch_processing", "batch_hitl_wait"}
    /\ granted = 0
    /\ passed = 0

\* The pipeline reaches a stop.
Hold ==
    /\ phase' = "batch_hitl_wait"
    /\ UNCHANGED <<granted, passed>>

\* A reviewer approves.
Grant ==
    /\ granted' = granted + 1
    /\ UNCHANGED <<phase, passed>>

\* The pipeline goes on, spending one approval.
Pass ==
    /\ passed < granted
    /\ passed' = passed + 1
    /\ phase' = "batch_processing"
    /\ UNCHANGED granted

\* A reviewer rejects a waiting batch.
Reject ==
    /\ phase = "batch_hitl_wait"
    /\ phase' = "batch_rejected"
    /\ UNCHANGED <<granted, passed>>

Next == Hold \/ Grant \/ Pass \/ Reject

Spec == Init /\ [][Next]_gateVars
=============================================================================
