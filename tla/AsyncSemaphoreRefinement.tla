---------------------- MODULE AsyncSemaphoreRefinement ----------------------
(***************************************************************************)
(* AsyncSemaphore implements Semaphore.  The mapping reads off each        *)
(* operation the step at which its fate is decided: the locked section of  *)
(* start(), the compare-exchange of mark_completed(), or the removal from  *)
(* the queue by the stop callback.                                         *)
(***************************************************************************)
EXTENDS AsyncSemaphore

PopGranted(o) == \E t \in Thread : o \in Range(job[t].ready) /\ job[t].grant

AbstractStatus(o) ==
  CASE pc[o] \in {"idle", "checked"} -> "idle"
    [] pc[o] = "imm_true"            -> "acquired"
    [] pc[o] = "imm_false"           -> "refused"
    [] OTHER ->
         CASE result[o] = "true"    -> "acquired"
           [] result[o] = "false"   -> "refused"
           [] result[o] = "stopped" -> "stopped"
           [] OTHER -> IF o \in Range(queue) THEN "waiting"
                       ELSE IF PopGranted(o) THEN "handed"
                       ELSE IF InJob(o) THEN "dropped"
                       ELSE "stopped"  \* detached by its callback

AbstractSt == [o \in Op |-> AbstractStatus(o)]

Abstract == INSTANCE Semaphore WITH waiting <- queue, st <- AbstractSt

\* Every step of the operation-level semaphore is a step of Semaphore or
\* changes nothing there: first come first served, permits given once, and
\* no completion after a stop.
Refines == Abstract!SemSpec
=============================================================================
