------------------------------ MODULE SqlPool ------------------------------
(***************************************************************************)
(* flux::sql::ConnectionPool: acquire() gives the caller a PooledConnection *)
(* (a lease); its release(), or its destructor, returns the index once.    *)
(***************************************************************************)
EXTENDS ConnectionPool

\* acquire_task: a healthy connection becomes a lease.
Lease(r) ==
  /\ pc[r] = "healthy"
  /\ Step(r, "leased")
  /\ UNCHANGED <<semVars, poolVars, idx, outcome, connVars, closeVars>>

\* query, begin, commit or rollback through the lease; a busy connection
\* throws to the caller, who keeps the lease.
LeaseUse(r) ==
  /\ pc[r] = "leased"
  /\ idx[r] \notin busy
  /\ busy' = busy \cup {idx[r]}
  /\ Step(r, "using")
  /\ UNCHANGED <<semVars, poolVars, idx, outcome, open, closeVars>>

\* The operation ends, well or not; the connection may have broken.
LeaseUsed(r) ==
  /\ pc[r] = "using"
  /\ EndGuarded(r, "leased")
  /\ open' \in {open, open \ {idx[r]}}
  /\ UNCHANGED <<semVars, poolVars, idx, outcome, closeVars>>

\* PooledConnection::release or ~PooledConnection, held_ being true.
LeaseRelease(r) ==
  /\ pc[r] = "leased"
  /\ Finish(r, "returning", "ok")
  /\ UNCHANGED <<semVars, poolVars, idx, connVars, closeVars>>

LeaseStep(r) == Lease(r) \/ LeaseUsed(r)

SqlNext ==
  \/ PoolNext
  \/ \E r \in Op : LeaseStep(r) \/ LeaseUse(r) \/ LeaseRelease(r)

SqlSpec == PoolInit /\ [][SqlNext]_vars

SqlFairSpec == SqlSpec /\ PoolFairness /\ \A r \in Op : WF_vars(LeaseStep(r))

-----------------------------------------------------------------------------
(* The inductive invariant behind CloseFailsBusy and CloseShutsIdle. *)

SqlInv ==
  /\ PoolInv /\ CapacityInv /\ GuardInv /\ WalkInv
  /\ \A i \in busy : BusyOwned(i)
  /\ CloseFailsBusy
=============================================================================
