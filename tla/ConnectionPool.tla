--------------------------- MODULE ConnectionPool ---------------------------
(***************************************************************************)
(* What the SQL and the Redis connection pools have in common: a deque of  *)
(* free connection indices under a mutex, an AsyncSemaphore that counts    *)
(* them, an acquire that races the semaphore against a timer, a health     *)
(* check that may reopen the connection, a release in two steps (push      *)
(* under the lock, signal after it) and a close that walks over all the    *)
(* connections.  SqlPool and RedisPool add what a request does with the    *)
(* connection.                                                             *)
(*                                                                         *)
(* A request is one call that acquires, so it is one operation of the      *)
(* semaphore of module Semaphore, whose variables this module extends.     *)
(* Index i stands for connections_[i - 1].                                 *)
(***************************************************************************)
EXTENDS Semaphore

CONSTANTS
  Closer,          \* calls of close()
  N,               \* max_connections
  AcquireTimeout,  \* acquire_timeout_ms > 0
  MaxLifetime,     \* max_lifetime_ms > 0
  HealthCheck      \* the health check statement is not empty

ASSUME PoolAssumption ==
  /\ N \in Nat \ {0}
  /\ AcquireTimeout \in BOOLEAN
  /\ MaxLifetime \in BOOLEAN
  /\ HealthCheck \in BOOLEAN

VARIABLES
  available,   \* available_
  poolClosed,  \* closed_ of the pool
  pc,          \* where each request is
  idx,         \* the index a request has taken and not given back, 0 if none
  outcome,     \* how a request ends
  open,        \* connections that are open
  busy,        \* connections whose busy_ flag an OperationGuard holds
  cpc,         \* where each close() is
  cpos         \* the connection it is at

poolVars == <<available, poolClosed>>
reqVars  == <<pc, idx, outcome>>
connVars == <<open, busy>>
closeVars == <<cpc, cpos>>
vars == <<semVars, poolVars, reqVars, connVars, closeVars>>

Index == 1..N

\* A request that holds an index is in one of these.
Checking == {"checking", "querying", "reopen", "closing", "toopen", "opening"}
Using    == {"healthy", "leased", "using", "commanding"}
Holding  == Checking \cup Using \cup {"returning"}

\* ... and it owns the busy_ flag of the connection in these.
Guarded == {"querying", "closing", "opening", "using", "commanding"}

PC == {"idle",
       "acquiring",   \* queued; the timer, if any, is running
       "expired",     \* the timer won, the semaphore operation is stopping
       "cancelled",   \* the caller asked to stop while queued
       "won",         \* the semaphore won, the timer is being cancelled
       "taking",      \* about to run take_index
       "signalling",  \* pushed the index, about to release the semaphore
       "done"} \cup Holding

Outcome == {"none", "ok", "closed", "internal", "timeout", "stopped", "error"}

PoolTypeOK ==
  /\ SemTypeOK
  /\ available \in Seq(Index)
  /\ poolClosed \in BOOLEAN
  /\ pc \in [Op -> PC]
  /\ idx \in [Op -> 0..N]
  /\ outcome \in [Op -> Outcome]
  /\ open \in SUBSET Index
  /\ busy \in SUBSET Index
  /\ cpc \in [Closer -> {"idle", "sem", "next", "closing", "done", "failed"}]
  /\ cpos \in [Closer -> 1..(N + 1)]

\* create() has succeeded: init() pushed every index, opened or not, then
\* released max_connections permits.
PoolInit ==
  /\ permits = N
  /\ closed = FALSE
  /\ waiting = <<>>
  /\ st = [r \in Op |-> "idle"]
  /\ issued = N
  /\ granted = {}
  /\ available = [i \in 1..N |-> i]
  /\ poolClosed = FALSE
  /\ pc = [r \in Op |-> "idle"]
  /\ idx = [r \in Op |-> 0]
  /\ outcome = [r \in Op |-> "none"]
  /\ open \in {{}, Index}    \* preconnect = false, true
  /\ busy = {}
  /\ cpc = [c \in Closer |-> "idle"]
  /\ cpos = [c \in Closer |-> 1]

-----------------------------------------------------------------------------
Step(r, label) == pc' = [pc EXCEPT ![r] = label]

Finish(r, label, out) ==
  /\ Step(r, label)
  /\ outcome' = [outcome EXCEPT ![r] = out]

-----------------------------------------------------------------------------
(* acquire_index: the semaphore against the timer, then take_index.        *)

StartAcquire(r) ==
  /\ pc[r] = "idle"
  /\ \/ (AcquireNow(r) \/ AcquireClosed(r)) /\ Step(r, IF AcquireTimeout THEN "won" ELSE "taking")
     \/ AcquireQueue(r) /\ Step(r, "acquiring")
  /\ UNCHANGED <<idx, outcome, poolVars, connVars, closeVars>>

\* The caller asked to stop before the semaphore operation was started.
StartCancelled(r) ==
  /\ pc[r] = "idle"
  /\ StopUnqueued(r)
  /\ Finish(r, "done", "stopped")
  /\ UNCHANGED <<idx, poolVars, connVars, closeVars>>

\* The waiter's completion comes first and cancels the timer.
SemaphoreWins(r) ==
  /\ pc[r] = "acquiring"
  /\ Deliver(r)
  /\ Step(r, IF AcquireTimeout THEN "won" ELSE "taking")
  /\ UNCHANGED <<idx, outcome, poolVars, connVars, closeVars>>

TimerWins(r) ==
  /\ AcquireTimeout
  /\ pc[r] = "acquiring"
  /\ Step(r, "expired")
  /\ UNCHANGED <<semVars, idx, outcome, poolVars, connVars, closeVars>>

CancelAcquire(r) ==
  /\ pc[r] = "acquiring"
  /\ Step(r, "cancelled")
  /\ UNCHANGED <<semVars, idx, outcome, poolVars, connVars, closeVars>>

\* Mutant: the timer's win does not stop the waiter.
AcquireNotStopped(r) ==
  /\ \/ pc[r] = "expired" /\ Deliver(r) /\ Finish(r, "done", "timeout")
     \/ pc[r] = "cancelled" /\ (Stop(r) \/ Deliver(r)) /\ Finish(r, "done", "stopped")
  /\ UNCHANGED <<idx, poolVars, connVars, closeVars>>

\* The losing semaphore operation ends: stopped, or with a value nobody takes.
AcquireGivenUp(r) ==
  /\ \/ pc[r] = "expired" /\ (Stop(r) \/ Deliver(r)) /\ Finish(r, "done", "timeout")
     \/ pc[r] = "cancelled" /\ Stop(r) /\ Finish(r, "done", "stopped")
     \/ /\ pc[r] = "cancelled"
        /\ Deliver(r)
        /\ IF AcquireTimeout THEN Finish(r, "done", "stopped")
                             ELSE Step(r, "taking") /\ UNCHANGED outcome
  /\ UNCHANGED <<idx, poolVars, connVars, closeVars>>

\* when_any completes once the timer is cancelled too; it reports a stop
\* request of the caller before the value.
WonJoin(r) ==
  /\ pc[r] = "won"
  /\ \/ Step(r, "taking") /\ UNCHANGED outcome
     \/ Finish(r, "done", "stopped")
  /\ UNCHANGED <<semVars, idx, poolVars, connVars, closeVars>>

\* Mutant: front() without pop_front().
TakeIndexNoPop(r) ==
  /\ pc[r] = "taking"
  /\ IF st[r] = "refused" \/ poolClosed
     THEN Finish(r, "done", "closed") /\ UNCHANGED idx
     ELSE IF available = <<>>
     THEN Finish(r, "done", "internal") /\ UNCHANGED idx
     ELSE idx' = [idx EXCEPT ![r] = Head(available)] /\ Step(r, "checking") /\ UNCHANGED outcome
  /\ UNCHANGED <<semVars, poolVars, connVars, closeVars>>

TakeIndex(r) ==
  /\ pc[r] = "taking"
  /\ IF st[r] = "refused" \/ poolClosed
     THEN Finish(r, "done", "closed") /\ UNCHANGED <<idx, available>>
     ELSE IF available = <<>>
     THEN Finish(r, "done", "internal") /\ UNCHANGED <<idx, available>>
     ELSE /\ idx' = [idx EXCEPT ![r] = Head(available)]
          /\ available' = Tail(available)
          /\ Step(r, "checking")
          /\ UNCHANGED outcome
  /\ UNCHANGED <<semVars, poolClosed, connVars, closeVars>>

-----------------------------------------------------------------------------
(* ensure_healthy.  An operation on a connection constructs its            *)
(* OperationGuard with the sender: a busy connection makes it throw, and   *)
(* the error handler of the request gives the index back.                  *)

\* Mutant: the guard stores busy_ without looking at it.
BeginUnguarded(r, label) ==
  /\ busy' = busy \cup {idx[r]}
  /\ Step(r, label)
  /\ UNCHANGED outcome

BeginGuarded(r, label) ==
  \/ /\ idx[r] \notin busy
     /\ busy' = busy \cup {idx[r]}
     /\ Step(r, label)
     /\ UNCHANGED outcome
  \/ /\ idx[r] \in busy
     /\ Finish(r, "returning", "error")
     /\ UNCHANGED busy

EndGuarded(r, label) ==
  /\ busy' = busy \ {idx[r]}
  /\ Step(r, label)

CheckOpen(r) ==
  /\ pc[r] = "checking"
  /\ \/ /\ idx[r] \notin open \/ MaxLifetime
        /\ BeginGuarded(r, "closing")
     \/ /\ idx[r] \in open
        /\ HealthCheck
        /\ BeginGuarded(r, "querying")
     \/ /\ idx[r] \in open
        /\ ~HealthCheck
        /\ Step(r, "healthy")
        /\ UNCHANGED <<outcome, busy>>
  /\ UNCHANGED <<semVars, poolVars, idx, open, closeVars>>

\* The health check statement succeeds, fails, or is stopped: there is no
\* upon_stopped, so a stopped request keeps the index for ever.
HealthQueryEnds(r) ==
  /\ pc[r] = "querying"
  /\ \/ EndGuarded(r, "healthy") /\ UNCHANGED outcome
     \/ EndGuarded(r, "reopen") /\ UNCHANGED outcome
     \/ busy' = busy \ {idx[r]} /\ Finish(r, "done", "stopped")
  /\ UNCHANGED <<semVars, poolVars, idx, open, closeVars>>

ReopenClose(r) ==
  /\ pc[r] = "reopen"
  /\ BeginGuarded(r, "closing")
  /\ UNCHANGED <<semVars, poolVars, idx, open, closeVars>>

ReopenClosed(r) ==
  /\ pc[r] = "closing"
  /\ EndGuarded(r, "toopen")
  /\ open' = open \ {idx[r]}
  /\ UNCHANGED <<semVars, poolVars, idx, outcome, closeVars>>

ReopenOpen(r) ==
  /\ pc[r] = "toopen"
  /\ BeginGuarded(r, "opening")
  /\ UNCHANGED <<semVars, poolVars, idx, open, closeVars>>

\* Mutant: no upon_error gives the index back.
ReopenErrorKeepsIndex(r) ==
  /\ pc[r] = "opening"
  /\ busy' = busy \ {idx[r]}
  /\ \/ open' = open \cup {idx[r]} /\ Step(r, "healthy") /\ UNCHANGED outcome
     \/ UNCHANGED open /\ Finish(r, "done", "error")
  /\ UNCHANGED <<semVars, poolVars, idx, closeVars>>

\* A failed or stopped open may leave a half-open handle behind.
ReopenEnds(r) ==
  /\ pc[r] = "opening"
  /\ busy' = busy \ {idx[r]}
  /\ \/ open' = open \cup {idx[r]} /\ Step(r, "healthy") /\ UNCHANGED outcome
     \/ /\ open' \in {open, open \cup {idx[r]}}
        /\ \/ Finish(r, "returning", "error")
           \/ Finish(r, "done", "stopped")
  /\ UNCHANGED <<semVars, poolVars, idx, closeVars>>

-----------------------------------------------------------------------------
(* release_index: push under the mutex, signal outside it.  A closed pool  *)
(* takes nothing back.                                                     *)

\* Mutant: release_index does not test closed_.
PushAlways(r) ==
  /\ pc[r] = "returning"
  /\ available' = Append(available, idx[r])
  /\ idx' = [idx EXCEPT ![r] = 0]
  /\ Step(r, "signalling")
  /\ UNCHANGED <<semVars, poolClosed, outcome, connVars, closeVars>>

PushIndex(r) ==
  /\ pc[r] = "returning"
  /\ \/ /\ ~poolClosed
        /\ available' = Append(available, idx[r])
        /\ idx' = [idx EXCEPT ![r] = 0]
        /\ Step(r, "signalling")
     \/ /\ poolClosed
        /\ Step(r, "done")
        /\ UNCHANGED <<available, idx>>
  /\ UNCHANGED <<semVars, poolClosed, outcome, connVars, closeVars>>

Signal(r) ==
  /\ pc[r] = "signalling"
  /\ IF closed THEN UNCHANGED semVars ELSE Release(1)
  /\ Step(r, "done")
  /\ UNCHANGED <<poolVars, idx, outcome, connVars, closeVars>>

-----------------------------------------------------------------------------
(* close(): mark and clear under the mutex, close the semaphore, then      *)
(* close the connections one by one.  A busy one throws and ends the walk. *)

CloseMark(c) ==
  /\ cpc[c] = "idle"
  /\ poolClosed' = TRUE
  /\ available' = <<>>
  /\ cpc' = [cpc EXCEPT ![c] = "sem"]
  /\ UNCHANGED <<semVars, reqVars, connVars, cpos>>

CloseSemaphore(c) ==
  /\ cpc[c] = "sem"
  /\ IF closed THEN UNCHANGED semVars ELSE Close
  /\ cpc' = [cpc EXCEPT ![c] = "next"]
  /\ UNCHANGED <<poolVars, reqVars, connVars, cpos>>

CloseConnection(c) ==
  /\ cpc[c] = "next"
  /\ \/ /\ cpos[c] > N
        /\ cpc' = [cpc EXCEPT ![c] = "done"]
        /\ UNCHANGED busy
     \/ /\ cpos[c] \in Index \ busy
        /\ busy' = busy \cup {cpos[c]}
        /\ cpc' = [cpc EXCEPT ![c] = "closing"]
     \/ /\ cpos[c] \in busy
        /\ cpc' = [cpc EXCEPT ![c] = "failed"]
        /\ UNCHANGED busy
  /\ UNCHANGED <<semVars, poolVars, reqVars, open, cpos>>

ConnectionClosed(c) ==
  /\ cpc[c] = "closing"
  /\ open' = open \ {cpos[c]}
  /\ busy' = busy \ {cpos[c]}
  /\ cpos' = [cpos EXCEPT ![c] = @ + 1]
  /\ cpc' = [cpc EXCEPT ![c] = "next"]
  /\ UNCHANGED <<semVars, poolVars, reqVars>>

-----------------------------------------------------------------------------
AcquireStep(r) ==
  \/ SemaphoreWins(r) \/ AcquireGivenUp(r) \/ WonJoin(r) \/ TakeIndex(r)

HealthStep(r) ==
  \/ CheckOpen(r) \/ HealthQueryEnds(r) \/ ReopenClose(r) \/ ReopenClosed(r)
  \/ ReopenOpen(r) \/ ReopenEnds(r)

ReleaseStep(r) == PushIndex(r) \/ Signal(r)

CloseStep(c) == CloseSemaphore(c) \/ CloseConnection(c) \/ ConnectionClosed(c)

PoolNext ==
  \/ \E r \in Op : \/ StartAcquire(r) \/ StartCancelled(r) \/ TimerWins(r) \/ CancelAcquire(r)
                   \/ AcquireStep(r) \/ HealthStep(r) \/ ReleaseStep(r)
  \/ \E c \in Closer : CloseMark(c) \/ CloseStep(c)

\* A request or a close() that has begun is run to its end by the runtime,
\* and the timer fires.  Nobody is obliged to start one, or to cancel.
PoolFairness ==
  /\ \A r \in Op : WF_vars(AcquireStep(r) \/ HealthStep(r) \/ ReleaseStep(r))
  /\ \A r \in Op : WF_vars(TimerWins(r))
  /\ \A c \in Closer : WF_vars(CloseStep(c))

-----------------------------------------------------------------------------
(* Properties of both pools. *)

\* Requests that a permit is assigned to and that have not taken an index.
Entitled == {r \in Op : \/ st[r] = "handed"
                        \/ st[r] = "acquired" /\ pc[r] \in {"won", "taking"}}

Signalling == {r \in Op : pc[r] = "signalling"}

Holders == {r \in Op : pc[r] \in Holding}

Lost == {r \in Op : outcome[r] \in {"timeout", "stopped"} /\ pc[r] = "done"}

\* take_index never finds the deque empty: "internal state invalid" is never
\* thrown, although the permit and the index are taken in separate steps and
\* release_index pushes before it signals.
NoInternalError == \A r \in Op : outcome[r] # "internal"

\* An index is free or held by one request, never both and never twice, so
\* no two requests share a connection.
LeaseExclusive ==
  /\ IsInjective(available)
  /\ \A r \in Holders : idx[r] \notin Range(available)
  /\ \A r, q \in Holders : idx[r] = idx[q] => r = q

\* A request that ends costs the pool at most one permit, and only if it
\* timed out or was stopped; every other ending gives the permit back.
CapacityKept ==
  ~poolClosed =>
    permits + Cardinality(Entitled \cup Holders \cup Signalling)
      + Cardinality(Lost) >= N

\* close() that ended well leaves open only connections that a request had
\* taken before and has not returned.
CloseShutsIdle ==
  \A c \in Closer :
    cpc[c] = "done" => \A i \in open : \E r \in Op : idx[r] = i

\* close() ends with an error, leaving the rest of the connections alone,
\* only when it meets a request that holds a connection or another close().
CloseFailsBusy ==
  \A c \in Closer :
    cpc[c] = "failed" => \/ \E r \in Op : idx[r] = cpos[c]
                         \/ \E d \in Closer \ {c} : cpc[d] # "idle"

\* Every request that queues ends or gets its connection, when an acquire
\* timeout is set: neither a lost permit nor close() leaves it waiting.
AcquireEnds ==
  \A r \in Op : pc[r] = "acquiring" ~> pc[r] \in Using \cup {"done"}

\* close() never hangs.
CloseEnds == \A c \in Closer : cpc[c] = "sem" ~> cpc[c] \in {"done", "failed"}

\* No call of the pool waits for ever, whichever of the timer, release(),
\* close() and a cancellation comes first (sql.cpp:1986).
PoolCallsEnd == AcquireEnds /\ CloseEnds

-----------------------------------------------------------------------------
(* The inductive invariant behind NoInternalError and LeaseExclusive.      *)

\* What the semaphore knows of a request and where the request is agree; a
\* closed semaphore belongs to a closed pool.
SemInv ==
  /\ IsInjective(waiting)
  /\ \A r \in Range(waiting) : st[r] = "waiting"
  /\ \A r \in Op : pc[r] \in {"won", "taking"} => st[r] \in {"acquired", "refused"}
  /\ closed => poolClosed
  /\ \A c \in Closer : /\ cpc[c] # "idle" => poolClosed
                       /\ cpc[c] = "closing" => cpos[c] \in Index

LeaseInv ==
  /\ LeaseExclusive
  /\ \A r \in Holders : idx[r] \in Index

\* Every permit out there is covered by an index in the deque: release_index
\* pushes before it signals, take_index runs after the permit was taken.
CountInv ==
  /\ IsFiniteSet(Entitled)
  /\ IsFiniteSet(Signalling)
  /\ ~poolClosed => permits + Cardinality(Entitled) + Cardinality(Signalling) <= Len(available)

PoolInv == PoolTypeOK /\ SemInv /\ LeaseInv /\ CountInv /\ NoInternalError

-----------------------------------------------------------------------------
(* The inductive invariants behind CapacityKept, CloseShutsIdle and         *)
(* CloseFailsBusy.                                                          *)

\* Who accounts for a permit that is not free.
Accounted == Entitled \cup Holders \cup Signalling \cup Lost

\* A waiter of the semaphore is a request that still waits.
WaitsQueued ==
  \A r \in Op : st[r] = "waiting" => pc[r] \in {"acquiring", "expired", "cancelled"}

CapacityInv ==
  /\ WaitsQueued
  /\ IsFiniteSet(Accounted)
  /\ ~poolClosed => permits + Cardinality(Accounted) >= N

\* The owners of busy_ flags among the requests and among the close() calls.
ReqGuards == {r \in Op : pc[r] \in Guarded}
CloseGuards == {c \in Closer : cpc[c] = "closing"}

\* A busy_ flag has at most one owner, and an owner's flag is set.
GuardInv ==
  /\ \A r \in ReqGuards : idx[r] \in busy
  /\ \A c \in CloseGuards : cpos[c] \in busy
  /\ \A r \in ReqGuards, c \in CloseGuards : idx[r] # cpos[c]
  /\ \A c, d \in CloseGuards : cpos[c] = cpos[d] => c = d

\* A flag that is set has an owner.
BusyOwned(i) == \/ \E r \in ReqGuards : idx[r] = i
                \/ \E c \in CloseGuards : cpos[c] = i

\* What a walk of close() has passed is shut, or was taken by a request: no
\* index comes back to a closed pool, so nobody can take it again.
WalkInv ==
  /\ \A c \in Closer : cpc[c] \in {"idle", "sem"} => cpos[c] = 1
  /\ \A c \in Closer : cpc[c] = "done" => cpos[c] > N
  /\ \A c \in Closer : \A i \in open : i < cpos[c] => \E r \in Op : idx[r] = i
=============================================================================
