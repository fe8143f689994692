------------------------------ MODULE Runtime ------------------------------
(***************************************************************************)
(* Runtime of include/flux/runtime.h and src/runtime.cpp: spawn,           *)
(* spawn_blocking, block_on and post against shutdown().                   *)
(*                                                                         *)
(* The scope's stop request reaches nobody: spawn gives its task the stop  *)
(* token of the caller (or one that never stops) in place of the scope's.  *)
(***************************************************************************)
CONSTANTS Works,    \* calls of spawn, spawn_blocking, block_on and post
          Closers   \* threads that call shutdown(), ~Runtime among them

VARIABLES shutdown_started_,
          stage,    \* where the shutdown() that goes on is
          pool,     \* io_pool_ and blocking_pool_: "run", "stopping", "joined"
          work,     \* each call: what it is, and what has become of it
          closer    \* each caller of shutdown()

runtimeVars == <<shutdown_started_, stage, pool, work, closer>>

WorkKinds == {"spawn", "spawn_blocking", "block_on", "post"}

PoolOf(w) == IF work[w].kind = "spawn_blocking" THEN "blocking" ELSE "io"
InScope(w) == work[w].kind \in {"spawn", "spawn_blocking"}
Live == {"queued", "running", "suspended"}

RuntimeInit ==
  /\ shutdown_started_ = FALSE /\ stage = "up"
  /\ pool = [p \in {"io", "blocking"} |-> "run"]
  /\ work \in [Works -> [kind : WorkKinds, pc : {"new"}, late : {FALSE}]]
  /\ closer = [c \in Closers |-> "out"]

Becomes(w, pc) == work' = [work EXCEPT ![w].pc = pc]
SameRuntime == UNCHANGED <<shutdown_started_, stage, pool, closer>>

----------------------------------------------------------------------------
(* The calls: a test of shutdown_started_, then the work enters the scope  *)
(* or the pool.  block_on tests nothing.                                   *)

Check(w) ==
  /\ work[w].pc = "new"
  /\ Becomes(w, IF shutdown_started_ /\ work[w].kind # "block_on" THEN "refused" ELSE "checked")
  /\ SameRuntime

\* spawn_future, sync_wait or asio::post.  `late` work enters the scope when
\* shutdown() has seen it empty.
Enter(w) ==
  /\ work[w].pc = "checked"
  /\ work' = [work EXCEPT ![w].pc = "queued",
                          ![w].late = stage \notin {"up", "stopping"}]
  /\ SameRuntime

\* A thread of the pool takes the work; the second test of post.
Run(w) ==
  /\ work[w].pc = "queued" /\ pool[PoolOf(w)] = "run"
  /\ Becomes(w, IF work[w].kind = "post" /\ shutdown_started_ THEN "done" ELSE "running")
  /\ SameRuntime

Suspend(w) ==
  /\ work[w].pc = "running" /\ work[w].kind \in {"spawn", "block_on"}
  /\ Becomes(w, "suspended") /\ SameRuntime
Resume(w) == work[w].pc = "suspended" /\ Becomes(w, "queued") /\ SameRuntime
End(w) == work[w].pc = "running" /\ Becomes(w, "done") /\ SameRuntime

----------------------------------------------------------------------------
(* shutdown().                                                             *)

SameWork == UNCHANGED work

\* Only the first caller goes on; the others return at once.
ShutdownStarts(c) ==
  /\ closer[c] = "out"
  /\ IF shutdown_started_
     THEN closer' = [closer EXCEPT ![c] = "back"] /\ UNCHANGED <<shutdown_started_, stage>>
     ELSE /\ closer' = [closer EXCEPT ![c] = "in"]
          /\ shutdown_started_' = TRUE /\ stage' = "stopping"
  /\ UNCHANGED pool /\ SameWork

\* Mutant: the pools are stopped without waiting for the scope.
ShutdownDrainsNot ==
  /\ stage = "stopping" /\ stage' = "drained"
  /\ UNCHANGED <<shutdown_started_, pool, closer>> /\ SameWork

\* on_empty() completes when nothing is in the scope.
ShutdownDrains ==
  /\ stage = "stopping" /\ stage' = "drained"
  /\ \A w \in Works : InScope(w) => work[w].pc \notin Live
  /\ UNCHANGED <<shutdown_started_, pool, closer>> /\ SameWork

\* context.stop(): what is queued there stays queued for ever.
StopPool(p) ==
  /\ pool[p] = "run"
  /\ stage = "drained" /\ (p = "blocking" => pool["io"] = "joined")
  /\ pool' = [pool EXCEPT ![p] = "stopping"]
  /\ UNCHANGED <<shutdown_started_, stage, closer>> /\ SameWork

\* thread_pool.join(): the threads leave when they have no handler to finish.
JoinPool(p) ==
  /\ pool[p] = "stopping"
  /\ \A w \in Works : PoolOf(w) = p => work[w].pc # "running"
  /\ pool' = [pool EXCEPT ![p] = "joined"]
  /\ UNCHANGED <<shutdown_started_, stage, closer>> /\ SameWork

ShutdownReturns(c) ==
  /\ closer[c] = "in" /\ pool["blocking"] = "joined"
  /\ closer' = [closer EXCEPT ![c] = "done"] /\ stage' = "down"
  /\ UNCHANGED <<shutdown_started_, pool>> /\ SameWork

RuntimeNext ==
  \/ \E w \in Works : Check(w) \/ Enter(w) \/ Run(w) \/ Suspend(w) \/ Resume(w) \/ End(w)
  \/ \E c \in Closers : ShutdownStarts(c) \/ ShutdownReturns(c)
  \/ ShutdownDrains
  \/ \E p \in {"io", "blocking"} : StopPool(p) \/ JoinPool(p)

RuntimeSpec == RuntimeInit /\ [][RuntimeNext]_runtimeVars

----------------------------------------------------------------------------
\* shutdown() drains before it stops the pools (runtime.cpp:128): a task that
\* spawn or spawn_blocking put into the scope before it was seen empty has
\* completed when a pool stops, so its future is never left without a result.
\* Only a spawn that tested the flag before shutdown() began, and entered the
\* scope after it was drained, is.  And nothing runs once shutdown() is done.
NothingLeftBehind ==
  /\ \A w \in Works :
       InScope(w) /\ work[w].pc \in Live /\ ~work[w].late => pool[PoolOf(w)] = "run"
  /\ stage = "down" => \A w \in Works : work[w].pc # "running"
=============================================================================
