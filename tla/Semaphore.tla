----------------------------- MODULE Semaphore -----------------------------
(***************************************************************************)
(* What flux::AsyncSemaphore promises to the code that uses it, with one   *)
(* atomic step where the implementation takes several: an acquire takes a  *)
(* permit, queues or is refused; a release hands permits to the first      *)
(* waiters; close refuses everybody; a stop request gives an acquire up.   *)
(* A permit handed to a waiter whose stop request comes before the         *)
(* completion is not given back.                                           *)
(*                                                                         *)
(* Module AsyncSemaphore implements this one, and the connection pools are *)
(* built on it.                                                            *)
(***************************************************************************)
EXTENDS Integers, Sequences, FiniteSets, Functions

CONSTANTS
  Op,        \* the acquire operations, each started at most once
  MaxIssued  \* bound: permits released over the life of the semaphore

ASSUME MaxIssuedAssumption == MaxIssued \in Nat

VARIABLES
  permits,   \* free permits
  closed,    \* close() was called
  waiting,   \* the waiters, in order of arrival
  st,        \* where each acquire operation stands
  issued,    \* permits passed to release() before close(), for accounting
  granted    \* the operations that were ever assigned a permit, for accounting

semVars == <<permits, closed, waiting, st, issued, granted>>

\* handed: taken off the queue by release(), its completion still to come.
\* dropped: the same by close().
Status == {"idle", "waiting", "handed", "dropped", "acquired", "refused", "stopped"}

Done == {"acquired", "refused", "stopped"}

SemTypeOK ==
  /\ permits \in Nat
  /\ closed \in BOOLEAN
  /\ waiting \in Seq(Op)
  /\ st \in [Op -> Status]
  /\ issued \in Nat
  /\ granted \in SUBSET Op

SemInit ==
  /\ permits = 0
  /\ closed = FALSE
  /\ waiting = <<>>
  /\ st = [o \in Op |-> "idle"]
  /\ issued = 0
  /\ granted = {}

\* A sequence without its i-th element.
Unlink(s, i) == SubSeq(s, 1, i - 1) \o SubSeq(s, i + 1, Len(s))

Goto(o, s) == st' = [st EXCEPT ![o] = s]

-----------------------------------------------------------------------------
AcquireNow(o) ==
  /\ st[o] = "idle"
  /\ ~closed
  /\ permits > 0
  /\ permits' = permits - 1
  /\ granted' = granted \cup {o}
  /\ Goto(o, "acquired")
  /\ UNCHANGED <<closed, waiting, issued>>

AcquireQueue(o) ==
  /\ st[o] = "idle"
  /\ ~closed
  /\ permits = 0
  /\ waiting' = Append(waiting, o)
  /\ Goto(o, "waiting")
  /\ UNCHANGED <<permits, closed, issued, granted>>

AcquireClosed(o) ==
  /\ st[o] = "idle"
  /\ closed
  /\ Goto(o, "refused")
  /\ UNCHANGED <<permits, closed, waiting, issued, granted>>

Acquire(o) == AcquireNow(o) \/ AcquireQueue(o) \/ AcquireClosed(o)

\* The first k waiters of a release(n) get a permit each, the rest is banked.
Release(n) ==
  LET k    == IF n < Len(waiting) THEN n ELSE Len(waiting)
      next == {waiting[i] : i \in 1..k}
  IN  /\ ~closed
      /\ waiting' = SubSeq(waiting, k + 1, Len(waiting))
      /\ permits' = permits + (n - k)
      /\ st' = [o \in Op |-> IF o \in next THEN "handed" ELSE st[o]]
      /\ issued' = issued + n
      /\ granted' = granted \cup next
      /\ UNCHANGED closed

Close ==
  /\ ~closed
  /\ closed' = TRUE
  /\ permits' = 0
  /\ waiting' = <<>>
  /\ st' = [o \in Op |-> IF st[o] = "waiting" THEN "dropped" ELSE st[o]]
  /\ UNCHANGED <<issued, granted>>

Deliver(o) ==
  /\ \/ st[o] = "handed" /\ Goto(o, "acquired")
     \/ st[o] = "dropped" /\ Goto(o, "refused")
  /\ UNCHANGED <<permits, closed, waiting, issued, granted>>

StopQueued(o) ==
  \E i \in DOMAIN waiting :
    /\ waiting[i] = o
    /\ waiting' = Unlink(waiting, i)
    /\ Goto(o, "stopped")
    /\ UNCHANGED <<permits, closed, issued, granted>>

StopUnqueued(o) ==
  /\ st[o] \in {"idle", "handed", "dropped"}
  /\ Goto(o, "stopped")
  /\ UNCHANGED <<permits, closed, waiting, issued, granted>>

Stop(o) == StopQueued(o) \/ StopUnqueued(o)

-----------------------------------------------------------------------------
SemNext ==
  \/ \E o \in Op : Acquire(o) \/ Deliver(o) \/ Stop(o)
  \/ \E n \in 1..(MaxIssued - issued) : Release(n)
  \/ Close

SemSpec == SemInit /\ [][SemNext]_semVars

=============================================================================
