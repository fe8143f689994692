--------------------------- MODULE AsyncSemaphore ---------------------------
(***************************************************************************)
(* flux::AsyncSemaphore (include/flux/async_semaphore.h), step by step.    *)
(* An acquire is an operation state that a sender chain starts, the        *)
(* semaphore links into its intrusive queue, a stop callback may complete  *)
(* from another thread, and its parent destroys after the completion.      *)
(* The mutex makes each locked section one step; what release(), close()   *)
(* and start() do after unlocking are steps of their own.                  *)
(*                                                                         *)
(* Memory of a destroyed operation keeps its last contents: the flag read  *)
(* in it says "completed" and the access has no effect, but the model      *)
(* records it in `late'.  A reset of the optional that holds the stop      *)
(* callback takes effect before or after a concurrent emplace or reset.    *)
(***************************************************************************)
EXTENDS Integers, Sequences, FiniteSets, Functions

CONSTANTS
  Op,        \* acquire operations; each is one operation state, started once
  Thread,    \* threads that call release() and close()
  MaxIssued  \* bound: permits released over the life of the semaphore

ASSUME MaxIssuedIsNat == MaxIssued \in Nat

VARIABLES
  permits,    \* permits_
  closed,     \* closed_
  queue,      \* head_ .. tail_
  pc,         \* how far start() of each operation is
  result,     \* what the winner of the `completed' flag sends; "none" = unset
  delivered,  \* operations whose receiver was called
  onStop,     \* operations whose on_stop holds a registered callback
  cb,         \* where the stop callback of each operation is
  stopReq,    \* operations whose stop token was requested to stop
  job,        \* the waiters a release()/close() still has to complete
  won,        \* the thread won the flag of the head of its job
  destroyed,  \* operations whose destructor has run
  late,       \* operations touched after their destructor
  issued,     \* permits passed to release() while open (accounting)
  granted     \* operations a permit was ever assigned to (accounting)

lockVars  == <<permits, closed, queue, issued, granted>>
opVars    == <<pc, result, delivered, onStop, cb, stopReq>>
endVars   == <<destroyed, late>>
jobVars   == <<job, won>>
vars      == <<lockVars, opVars, jobVars, endVars>>

PC == {"idle", "checked", "imm_true", "imm_false",  \* before / in the lock
       "enqueued",   \* unlocked, on_stop.emplace still to come
       "inline",     \* emplace runs the callback: stop was already requested
       "emplaced",   \* the load of `completed' still to come
       "started"}    \* start() has returned

Idle == [ready |-> <<>>, grant |-> FALSE]

TypeOK ==
  /\ permits \in Nat
  /\ closed \in BOOLEAN
  /\ queue \in Seq(Op)
  /\ pc \in [Op -> PC]
  /\ result \in [Op -> {"none", "true", "false", "stopped"}]
  /\ delivered \in SUBSET Op
  /\ onStop \in SUBSET Op
  /\ cb \in [Op -> {"none", "load", "detach", "cas"}]
  /\ stopReq \in SUBSET Op
  /\ job \in [Thread -> [ready : Seq(Op), grant : BOOLEAN]]
  /\ won \in [Thread -> BOOLEAN]
  /\ destroyed \in SUBSET Op
  /\ late \in SUBSET Op
  /\ issued \in Nat
  /\ granted \in SUBSET Op

Init ==
  /\ permits = 0
  /\ closed = FALSE
  /\ queue = <<>>
  /\ pc = [o \in Op |-> "idle"]
  /\ result = [o \in Op |-> "none"]
  /\ delivered = {}
  /\ onStop = {}
  /\ cb = [o \in Op |-> "none"]
  /\ stopReq = {}
  /\ job = [t \in Thread |-> Idle]
  /\ won = [t \in Thread |-> FALSE]
  /\ destroyed = {}
  /\ late = {}
  /\ issued = 0
  /\ granted = {}

-----------------------------------------------------------------------------
Goto(o, label) == pc' = [pc EXCEPT ![o] = label]

CbGoto(o, label) == cb' = [cb EXCEPT ![o] = label]

\* Any step that reads or writes operation o.
Touch(o) == late' = IF o \in destroyed THEN late \cup {o} ELSE late

\* mark_completed() succeeds with value r and the receiver is called.
Complete(o, r) ==
  /\ result' = [result EXCEPT ![o] = r]
  /\ delivered' = delivered \cup {o}

\* Mutant: on_stop.reset() does not wait for a callback that is running.
ResetNeverBlocks(o) == FALSE

\* on_stop.reset() of another thread waits for a registered callback that is
\* running; an inline one is not registered yet and is not waited for.
ResetWouldBlock(o) == o \in onStop /\ cb[o] # "none" /\ pc[o] # "inline"

\* A sequence without its i-th element.
Unlink(s, i) == SubSeq(s, 1, i - 1) \o SubSeq(s, i + 1, Len(s))

\* detach_from_queue / remove_waiter_locked
Detach(o) ==
  \/ \E i \in DOMAIN queue : queue[i] = o /\ queue' = Unlink(queue, i)
  \/ o \notin Range(queue) /\ UNCHANGED queue

-----------------------------------------------------------------------------
(* start(): the stop test, the locked section, then the immediate          *)
(* completion or the registration of the stop callback.                    *)

StartStopped(o) ==
  /\ pc[o] = "idle"
  /\ o \in stopReq
  /\ Goto(o, "started")
  /\ Complete(o, "stopped")
  /\ UNCHANGED <<lockVars, onStop, cb, stopReq, jobVars, endVars>>

StartCheck(o) ==
  /\ pc[o] = "idle"
  /\ o \notin stopReq
  /\ Goto(o, "checked")
  /\ UNCHANGED <<lockVars, result, delivered, onStop, cb, stopReq, jobVars, endVars>>

StartClosed(o) ==
  /\ pc[o] = "checked"
  /\ closed
  /\ Goto(o, "imm_false")
  /\ UNCHANGED <<lockVars, result, delivered, onStop, cb, stopReq, jobVars, endVars>>

StartTake(o) ==
  /\ pc[o] = "checked"
  /\ ~closed
  /\ permits > 0
  /\ permits' = permits - 1
  /\ granted' = granted \cup {o}
  /\ Goto(o, "imm_true")
  /\ UNCHANGED <<closed, queue, issued>>
  /\ UNCHANGED <<result, delivered, onStop, cb, stopReq, jobVars, endVars>>

\* Mutant: a new waiter is linked before head_.
EnqueueFront(o) == queue' = <<o>> \o queue

\* enqueue_waiter_locked
Enqueue(o) == queue' = Append(queue, o)

StartEnqueue(o) ==
  /\ pc[o] = "checked"
  /\ ~closed
  /\ permits = 0
  /\ Enqueue(o)
  /\ Goto(o, "enqueued")
  /\ UNCHANGED <<permits, closed, issued, granted>>
  /\ UNCHANGED <<result, delivered, onStop, cb, stopReq, jobVars, endVars>>

StartFinish(o) ==
  /\ \/ pc[o] = "imm_true" /\ Complete(o, "true")
     \/ pc[o] = "imm_false" /\ Complete(o, "false")
  /\ Goto(o, "started")
  /\ UNCHANGED <<lockVars, onStop, cb, stopReq, jobVars, endVars>>

\* Mutant: a stop requested before the registration is not noticed.
EmplaceUnchecked(o) ==
  /\ pc[o] = "enqueued"
  /\ Touch(o)
  /\ onStop' = onStop \cup {o}
  /\ Goto(o, "emplaced")
  /\ UNCHANGED <<lockVars, result, delivered, cb, stopReq, jobVars, destroyed>>

\* on_stop.emplace: register the callback, or run it here and now.
Emplace(o) ==
  /\ pc[o] = "enqueued"
  /\ Touch(o)
  /\ \/ /\ o \notin stopReq
        /\ onStop' = onStop \cup {o}
        /\ Goto(o, "emplaced")
        /\ UNCHANGED cb
     \/ /\ o \in stopReq
        /\ CbGoto(o, "load")
        /\ Goto(o, "inline")
        /\ UNCHANGED onStop
  /\ UNCHANGED <<lockVars, result, delivered, stopReq, jobVars, destroyed>>

\* The inline callback has returned and emplace with it.
EmplaceReturn(o) ==
  /\ pc[o] = "inline"
  /\ cb[o] = "none"
  /\ Touch(o)
  /\ Goto(o, "emplaced")
  /\ UNCHANGED <<lockVars, result, delivered, onStop, cb, stopReq, jobVars, destroyed>>

\* if (completed.load()) on_stop.reset();
StartReturn(o) ==
  /\ pc[o] = "emplaced"
  /\ Touch(o)
  /\ \/ result[o] = "none" /\ UNCHANGED onStop
     \/ /\ result[o] # "none"
        /\ ~ResetWouldBlock(o)
        /\ onStop' = onStop \ {o}
  /\ Goto(o, "started")
  /\ UNCHANGED <<lockVars, result, delivered, cb, stopReq, jobVars, destroyed>>

-----------------------------------------------------------------------------
(* The stop source of operation o is asked to stop: request_stop() runs on *)
(* the requesting thread if the callback is registered.                    *)

RequestStop(o) ==
  /\ o \notin stopReq
  /\ stopReq' = stopReq \cup {o}
  /\ IF o \in onStop THEN CbGoto(o, "load") ELSE UNCHANGED cb
  /\ UNCHANGED <<lockVars, pc, result, delivered, onStop, jobVars, endVars>>

CallbackLoad(o) ==
  /\ cb[o] = "load"
  /\ Touch(o)
  /\ CbGoto(o, IF result[o] = "none" THEN "detach" ELSE "none")
  /\ UNCHANGED <<lockVars, pc, result, delivered, onStop, stopReq, jobVars, destroyed>>

CallbackDetach(o) ==
  /\ cb[o] = "detach"
  /\ Touch(o)
  /\ Detach(o)
  /\ CbGoto(o, "cas")
  /\ UNCHANGED <<permits, closed, issued, granted>>
  /\ UNCHANGED <<pc, result, delivered, onStop, stopReq, jobVars, destroyed>>

\* finish_stopped(); its on_stop.reset() runs in the callback and never waits.
CallbackFinish(o) ==
  /\ cb[o] = "cas"
  /\ Touch(o)
  /\ CbGoto(o, "none")
  /\ \/ /\ result[o] = "none"
        /\ Complete(o, "stopped")
        /\ onStop' = onStop \ {o}
     \/ result[o] # "none" /\ UNCHANGED <<result, delivered, onStop>>
  /\ UNCHANGED <<lockVars, pc, stopReq, jobVars, destroyed>>

-----------------------------------------------------------------------------
(* release(n) and close() pop waiters under the mutex and complete them    *)
(* after unlocking, one after the other.                                   *)

\* Mutant: ++permits_ also for the permits that went to a waiter.
ReleaseBanksAll(t, n) ==
  LET k     == IF n < Len(queue) THEN n ELSE Len(queue)
      ready == SubSeq(queue, 1, k)
  IN  /\ job[t].ready = <<>>
      /\ ~closed
      /\ queue' = SubSeq(queue, k + 1, Len(queue))
      /\ permits' = permits + n
      /\ job' = [job EXCEPT ![t] = [ready |-> ready, grant |-> TRUE]]
      /\ issued' = issued + n
      /\ granted' = granted \cup Range(ready)
      /\ UNCHANGED <<closed, opVars, won, endVars>>

Release(t, n) ==
  LET k     == IF n < Len(queue) THEN n ELSE Len(queue)
      ready == SubSeq(queue, 1, k)
  IN  /\ job[t].ready = <<>>
      /\ ~closed
      /\ queue' = SubSeq(queue, k + 1, Len(queue))
      /\ permits' = permits + (n - k)
      /\ job' = [job EXCEPT ![t] = [ready |-> ready, grant |-> TRUE]]
      /\ issued' = issued + n
      /\ granted' = granted \cup Range(ready)
      /\ UNCHANGED <<closed, opVars, won, endVars>>

Close(t) ==
  /\ job[t].ready = <<>>
  /\ ~closed
  /\ closed' = TRUE
  /\ permits' = 0
  /\ queue' = <<>>
  /\ job' = [job EXCEPT ![t] = [ready |-> queue, grant |-> FALSE]]
  /\ UNCHANGED <<issued, granted, opVars, won, endVars>>

NextWaiter(t) ==
  job' = [job EXCEPT ![t].ready = Tail(job[t].ready)]

\* waiter->complete: the compare-exchange of mark_completed()
CompleteMark(t) ==
  /\ job[t].ready # <<>>
  /\ ~won[t]
  /\ LET o == Head(job[t].ready) IN
       /\ Touch(o)
       /\ \/ /\ result[o] = "none"
             /\ result' = [result EXCEPT ![o] = IF job[t].grant THEN "true" ELSE "false"]
             /\ won' = [won EXCEPT ![t] = TRUE]
             /\ UNCHANGED job
          \/ /\ result[o] # "none"
             /\ NextWaiter(t)
             /\ UNCHANGED <<result, won>>
  /\ UNCHANGED <<lockVars, pc, delivered, onStop, cb, stopReq, destroyed>>

\* ... its on_stop.reset(), then set_value
CompleteFinish(t) ==
  /\ won[t]
  /\ LET o == Head(job[t].ready) IN
       /\ ~ResetWouldBlock(o)
       /\ Touch(o)
       /\ onStop' = onStop \ {o}
       /\ delivered' = delivered \cup {o}
  /\ NextWaiter(t)
  /\ won' = [won EXCEPT ![t] = FALSE]
  /\ UNCHANGED <<lockVars, pc, result, cb, stopReq, destroyed>>

\* ~Operation, called by the parent once the receiver was called
Destroy(o) ==
  /\ o \in delivered \ destroyed
  /\ ~ResetWouldBlock(o)
  /\ Detach(o)
  /\ onStop' = onStop \ {o}
  /\ destroyed' = destroyed \cup {o}
  /\ UNCHANGED <<permits, closed, issued, granted>>
  /\ UNCHANGED <<pc, result, delivered, cb, stopReq, jobVars, late>>

-----------------------------------------------------------------------------
StartStep(o) ==
  \/ StartClosed(o) \/ StartTake(o) \/ StartEnqueue(o) \/ StartFinish(o)
  \/ Emplace(o) \/ EmplaceReturn(o) \/ StartReturn(o)

CallbackStep(o) == CallbackLoad(o) \/ CallbackDetach(o) \/ CallbackFinish(o)

CompleteStep(t) == CompleteMark(t) \/ CompleteFinish(t)

Next ==
  \/ \E o \in Op : \/ StartStopped(o) \/ StartCheck(o) \/ StartStep(o)
                   \/ RequestStop(o) \/ CallbackStep(o) \/ Destroy(o)
  \/ \E t \in Thread : \/ \E n \in 1..(MaxIssued - issued) : Release(t, n)
                       \/ Close(t)
                       \/ CompleteStep(t)

Spec == Init /\ [][Next]_vars

\* A call that has begun is run to its end by the thread that runs it.
\* Nothing obliges anybody to start, release, stop, close or destroy.
Fairness ==
  /\ \A o \in Op : WF_vars(StartStep(o)) /\ WF_vars(CallbackStep(o))
  /\ \A t \in Thread : WF_vars(CompleteStep(t))

FairSpec == Spec /\ Fairness

-----------------------------------------------------------------------------
(* Properties. *)

InJob(o) == \E t \in Thread : o \in Range(job[t].ready)

\* The intrusive queue links each operation at most once and only operations
\* that nobody completed or destroyed and that no release() or close() has
\* taken: the raw WaiterNode pointers under the mutex never dangle.
QueueSound ==
  /\ IsInjective(queue)
  /\ \A o \in Range(queue) :
       /\ result[o] = "none"
       /\ o \notin delivered \cup destroyed
       /\ ~InJob(o)

\* No acquire sleeps in the queue beside a free permit, and close() leaves
\* neither permits nor waiters behind, whatever runs after its unlock.
NoIdlePermit ==
  /\ permits > 0 => queue = <<>>
  /\ closed => permits = 0 /\ queue = <<>>

\* Every permit released while open sits in permits_ or was assigned to one
\* acquire: start(), release() and the stop callback never duplicate one.
PermitsConserved == ~closed => issued = permits + Cardinality(granted)

\* An acquire completes with `true' only on a permit assigned to it.
TrueMeansGranted == \A o \in Op : result[o] = "true" => o \in granted

\* The waiters that release() and close() complete outside the mutex may be
\* gone by then.  It takes a stop request that won the race for the flag:
\* an operation that got its permit, or was refused, and whose start() had
\* returned when it was destroyed, is never touched again.
NoTouchAfterDestroy ==
  [][\A o \in late' \ late : result[o] = "stopped" \/ pc[o] # "started"]_vars

\* An acquire waiting when the semaphore is closed, and one whose stop is
\* requested, always completes: no waiter is lost between queue, job and
\* callback, and on_stop.reset() never waits for ever.
CloseCompletesAll ==
  \A o \in Op : (closed /\ pc[o] \notin {"idle"}) ~> (o \in delivered)

StopCompletes ==
  \A o \in Op : (o \in stopReq /\ pc[o] = "started") ~> (o \in delivered)

\* No acquire is left waiting by close() or by a stop request, wherever they
\* meet start(), release() and each other (async_semaphore.h:65, 236).
AcquireCompletes == CloseCompletesAll /\ StopCompletes

-----------------------------------------------------------------------------
(* The inductive invariant behind the safety properties: who may still     *)
(* reach an operation, through which pointer, at each point of its life.   *)

Linked == {"enqueued", "inline", "emplaced", "started"}

\* A queued operation is fresh: linked once, by nobody else, not completed,
\* without a permit, and its callback has not passed detach_from_queue.
QueueInv ==
  /\ IsInjective(queue)
  /\ \A o \in Range(queue) :
       /\ result[o] = "none"
       /\ pc[o] \in Linked
       /\ cb[o] # "cas"
       /\ o \notin granted
       /\ \A t \in Thread : o \notin Range(job[t].ready)

\* A popped operation is in one job; only the stop callback or the owner of
\* that job completes it, and the owner is at it while it has won.
JobSound(t) ==
  /\ IsInjective(job[t].ready)
  /\ \A o \in Range(job[t].ready) :
       /\ pc[o] \in Linked
       /\ job[t].grant => o \in granted
       /\ result[o] \in {"none", "stopped"} \/ (won[t] /\ o = Head(job[t].ready))
       /\ \A u \in Thread \ {t} : o \notin Range(job[u].ready)
  /\ won[t] => /\ job[t].ready # <<>>
               /\ result[Head(job[t].ready)] \in {"true", "false"}
               /\ Head(job[t].ready) \notin delivered

JobInv == \A t \in Thread : JobSound(t)

\* An operation that start() has not linked is unknown to everybody else.
StartInv ==
  \A o \in Op :
    /\ pc[o] \notin Linked => result[o] = "none" /\ cb[o] = "none" /\ o \notin onStop
    /\ pc[o] \in {"idle", "checked"} => o \notin granted
    /\ pc[o] = "imm_true" => o \in granted

FateInv ==
  /\ \A o \in delivered : result[o] # "none"
  /\ destroyed \subseteq delivered
  /\ \A o \in Op : result[o] = "true" => o \in granted

\* A registered callback keeps its operation alive while it runs, and no
\* destroyed operation stays registered once start() has returned.
CallbackInv ==
  \A o \in Op :
    /\ o \in onStop => pc[o] \in {"emplaced", "started"}
    /\ cb[o] # "none" /\ pc[o] # "inline" => o \in onStop
    /\ o \in destroyed /\ pc[o] = "started" => o \notin onStop

PermitInv ==
  /\ NoIdlePermit
  /\ IsFiniteSet(granted)
  /\ PermitsConserved

IndInv ==
  TypeOK /\ QueueInv /\ JobInv /\ StartInv /\ FateInv /\ CallbackInv /\ PermitInv
=============================================================================
