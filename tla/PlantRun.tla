------------------------------ MODULE PlantRun ------------------------------
(***************************************************************************)
(* What the plant simulation promises to its user, without timer, work     *)
(* queue, shell or configuration: a run is launched and halted; a step is  *)
(* begun only during a run, one at a time; a step that is finished is      *)
(* counted, even when the run was halted since it was begun.               *)
(***************************************************************************)
EXTENDS Naturals

VARIABLES
  running,   \* a run is going on
  inflight,  \* a step was begun and not finished
  steps      \* the steps finished since the count was reset

pvars == <<running, inflight, steps>>

Init == running = FALSE /\ inflight = FALSE /\ steps = 0

\* The count is reset between two runs only.
Reset == /\ ~running
         /\ steps' = 0
         /\ UNCHANGED <<running, inflight>>

\* A run inherits at most one step of the one before it.
Launch == /\ ~running
          /\ steps + (IF inflight THEN 1 ELSE 0) <= 1
          /\ running' = TRUE
          /\ UNCHANGED <<inflight, steps>>

Begin == /\ running /\ ~inflight
         /\ inflight' = TRUE
         /\ UNCHANGED <<running, steps>>

Finish == /\ inflight
          /\ inflight' = FALSE
          /\ steps' = steps + 1
          /\ UNCHANGED running

Halt == /\ running
        /\ running' = FALSE
        /\ UNCHANGED <<inflight, steps>>

Next == Reset \/ Launch \/ Begin \/ Finish \/ Halt

Spec == Init /\ [][Next]_pvars
=============================================================================
