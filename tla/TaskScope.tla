----------------------------- MODULE TaskScope -----------------------------
(***************************************************************************)
(* flux::TaskScope and with_task_scope: the body runs with a scope it can  *)
(* spawn senders into.  spawn() hands the sender to exec::start_detached,  *)
(* which runs it on its own and ends the program when it completes with an *)
(* error.  The scope keeps nothing of what it spawned.                     *)
(***************************************************************************)
CONSTANTS
  Task   \* the senders the body spawns

VARIABLES
  body,   \* the coroutine of with_task_scope
  task,   \* what has become of each sender
  alive   \* the program has not called std::terminate

vars == <<body, task, alive>>

Init ==
  /\ body = "running"
  /\ task = [t \in Task |-> "new"]
  /\ alive = TRUE

\* exec::start_detached: a sender runs until it completes with a value, is
\* stopped (both are ignored), or fails.
StartDetached(t) == task' = [task EXCEPT ![t] = "running"]

Spawn(t) ==
  /\ alive
  /\ body = "running"
  /\ task[t] = "new"
  /\ StartDetached(t)
  /\ UNCHANGED <<body, alive>>

TaskEnds(t) ==
  /\ alive
  /\ task[t] = "running"
  /\ task' = [task EXCEPT ![t] = "done"]
  /\ UNCHANGED <<body, alive>>

TaskFails(t) ==
  /\ alive
  /\ task[t] = "running"
  /\ alive' = FALSE
  /\ UNCHANGED <<body, task>>

\* co_return co_await func(scope): the body returns, throws or is stopped, the
\* TaskScope is destroyed (it has no destructor) and so is the coroutine.
BodyEnds ==
  /\ alive
  /\ body = "running"
  /\ body' \in {"returned", "threw", "stopped"}
  /\ UNCHANGED <<task, alive>>

Next ==
  \/ BodyEnds
  \/ \E t \in Task : Spawn(t) \/ TaskEnds(t) \/ TaskFails(t)

Spec == Init /\ [][Next]_vars

-----------------------------------------------------------------------------

\* "normal return: auto join()": when with_task_scope has returned, no sender
\* it spawned is still running.
ReturnJoins ==
  body = "returned" => \A t \in Task : task[t] # "running"
=============================================================================
