------------------------------ MODULE MCPools ------------------------------
(***************************************************************************)
(* The two pools for TLC: a behaviour is one of the SQL pool or one of the *)
(* Redis pool.  The SQL pool has no health check statement here, it has    *)
(* one in the run of SqlPool itself.                                       *)
(***************************************************************************)
EXTENDS RedisPool, TLC

Sql == INSTANCE SqlPool WITH HealthCheck <- FALSE

VARIABLE pool   \* which of them

PoolsInit == RedisInit /\ pool \in {"sql", "redis"}

PoolsNext ==
  /\ UNCHANGED pool
  /\ \/ pool = "sql" /\ Sql!SqlNext /\ UNCHANGED lingering
     \/ pool = "redis" /\ RedisNext

PoolsSpec == PoolsInit /\ [][PoolsNext]_<<redisVars, pool>>

Symm == Permutations(Op) \cup Permutations(Closer)

\* How close() of the pool ended says what it left behind (sql.cpp:2156): one
\* that ended well leaves no idle connection open, one that threw met a
\* connection in use.  In the Redis pool the guard of a finished command is
\* another reason to throw, and one that is soon gone.
CloseTellsTrue == CloseShutsIdle /\ (pool = "sql" => CloseFailsBusy)
=============================================================================
