----------------------------- MODULE RedisPool -----------------------------
(***************************************************************************)
(* flux::redis::ConnectionPool: command() acquires, runs one command and   *)
(* gives the index back from the completion handler of the command.  The   *)
(* command's OperationGuard lives until the operation state is destroyed,  *)
(* after the handler: the next taker may find the client busy.             *)
(***************************************************************************)
EXTENDS ConnectionPool

VARIABLE lingering  \* index -> the finished command still holds its guard

redisVars == <<vars, lingering>>

RedisInit == PoolInit /\ lingering = {}

Command(r) ==
  /\ pc[r] = "healthy"
  /\ BeginGuarded(r, "commanding")
  /\ UNCHANGED <<semVars, poolVars, idx, open, closeVars, lingering>>

\* The reply, or the error, reaches the handler that calls release_index; a
\* stopped command reaches none.
CommandEnds(r) ==
  /\ pc[r] = "commanding"
  /\ \/ /\ \E out \in {"ok", "error"} : Finish(r, "returning", out)
        /\ lingering' = lingering \cup {idx[r]}
        /\ UNCHANGED busy
     \/ /\ Finish(r, "done", "stopped")
        /\ busy' = busy \ {idx[r]}
        /\ UNCHANGED lingering
  /\ open' \in {open, open \ {idx[r]}}
  /\ UNCHANGED <<semVars, poolVars, idx, closeVars>>

\* The operation state of the finished command is destroyed.
DropGuard(i) ==
  /\ i \in lingering
  /\ lingering' = lingering \ {i}
  /\ busy' = busy \ {i}
  /\ UNCHANGED <<semVars, poolVars, reqVars, open, closeVars>>

CommandStep(r) == Command(r) \/ CommandEnds(r)

\* The rest of the pool is, line for line, the code of the SQL pool.
AcquireIndex(r) ==
  /\ StartAcquire(r) \/ StartCancelled(r) \/ TimerWins(r) \/ CancelAcquire(r) \/ AcquireStep(r)
  /\ UNCHANGED lingering

EnsureHealthy(r) == HealthStep(r) /\ UNCHANGED lingering

ReleaseIndex(r) == ReleaseStep(r) /\ UNCHANGED lingering

ClosePool(c) == (CloseMark(c) \/ CloseStep(c)) /\ UNCHANGED lingering

RedisNext ==
  \/ \E r \in Op : AcquireIndex(r) \/ EnsureHealthy(r) \/ ReleaseIndex(r) \/ CommandStep(r)
  \/ \E c \in Closer : ClosePool(c)
  \/ \E i \in Index : DropGuard(i)

RedisSpec == RedisInit /\ [][RedisNext]_redisVars

\* The busy_ flag of a client is held by exactly one of: a request's health
\* check or command, a finished command not yet destroyed, a close().
RedisGuardExclusive ==
  \A i \in Index :
    Cardinality({r \in Op : pc[r] \in Guarded /\ idx[r] = i})
      + Cardinality({c \in Closer : cpc[c] = "closing" /\ cpos[c] = i})
      + Cardinality(lingering \cap {i})
    = IF i \in busy THEN 1 ELSE 0

-----------------------------------------------------------------------------
(* The inductive invariant behind RedisGuardExclusive and CloseShutsIdle. *)

LingerInv ==
  /\ lingering \subseteq busy
  /\ \A i \in lingering : ~BusyOwned(i)
  /\ \A i \in busy \ lingering : BusyOwned(i)

RedisInv == PoolInv /\ CapacityInv /\ GuardInv /\ WalkInv /\ LingerInv
=============================================================================
