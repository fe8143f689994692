------------------------ MODULE AsyncSemaphoreProofs ------------------------
(***************************************************************************)
(* The safety properties of AsyncSemaphore, for any operations, threads    *)
(* and number of permits.  IndInv is inductive: the proof goes through the *)
(* actions one by one and, for each, through the conjuncts it can disturb. *)
(* The second part uses IndInv to show that every step is a step of        *)
(* Semaphore, or changes nothing there.  The theorems are at the end.      *)
(***************************************************************************)
EXTENDS AsyncSemaphoreRefinement, SequenceLemmas

USE DEF vars, lockVars, opVars, endVars, jobVars, Goto, CbGoto

\* The waiters of a job are operations.
LEMMA JobShape ==
  ASSUME IndInv, NEW t \in Thread
  PROVE  /\ job[t].ready \in Seq(Op) /\ IsInjective(job[t].ready)
         /\ Range(job[t].ready) \subseteq Op
         /\ job[t].ready # <<>> => Head(job[t].ready) \in Range(job[t].ready)
<1>1. job[t].ready \in Seq(Op)
  BY Zenon DEF IndInv, TypeOK
<1>2. IsInjective(job[t].ready)
  BY Zenon DEF IndInv, JobInv, JobSound
<1> QED BY Zenon, <1>1, <1>2, RangeByPosition, TailDistinct

\* What the types say.
LEMMA Shape ==
  ASSUME IndInv
  PROVE  /\ queue \in Seq(Op) /\ Range(queue) \subseteq Op
         /\ \A t \in Thread : Range(job[t].ready) \subseteq Op
         /\ pc \in [Op -> PC] /\ result \in [Op -> {"none", "true", "false", "stopped"}]
         /\ cb \in [Op -> {"none", "load", "detach", "cas"}]
         /\ won \in [Thread -> BOOLEAN]
         /\ delivered \subseteq Op /\ onStop \subseteq Op /\ destroyed \subseteq Op
<1>1. TypeOK
  BY Zenon DEF IndInv
<1>2. queue \in Seq(Op) /\ Range(queue) \subseteq Op
  BY Zenon, <1>1, RangeByPosition DEF TypeOK
<1>3. \A t \in Thread : Range(job[t].ready) \subseteq Op
  BY Zenon, JobShape
<1> QED BY Zenon, <1>1, <1>2, <1>3 DEF TypeOK

\* A step that leaves the jobs alone, unlinks no operation, takes no permit
\* away and completes no popped operation keeps JobInv.
LEMMA JobKept ==
  ASSUME IndInv, UNCHANGED <<job, won>>, granted \subseteq granted',
         \A o \in Op : pc[o] \in Linked => pc'[o] \in Linked,
         \A t \in Thread : \A o \in Range(job[t].ready) :
           result'[o] = result[o] /\ (o \in delivered' => o \in delivered)
  PROVE  JobInv'
<1> SUFFICES ASSUME NEW t \in Thread PROVE JobSound(t)'
  BY Zenon DEF JobInv
<1> DEFINE r == job[t].ready
<1>1. JobSound(t)
  BY Zenon DEF IndInv, JobInv
<1>2. r \in Seq(Op) /\ Range(r) \subseteq Op /\ (r # <<>> => Head(r) \in Range(r))
  BY Zenon, JobShape
<1>3. job'[t].ready = r /\ won'[t] = won[t] /\ job'[t].grant = job[t].grant
  BY Zenon
<1>4. IsInjective(job'[t].ready)
  BY Zenon, <1>1, <1>3 DEF JobSound
<1>5. ASSUME NEW o \in Range(job'[t].ready)
      PROVE  /\ pc'[o] \in Linked
             /\ job'[t].grant => o \in granted'
             /\ result'[o] \in {"none", "stopped"} \/ (won'[t] /\ o = Head(job'[t].ready))
             /\ \A u \in Thread \ {t} : o \notin Range(job'[u].ready)
  <2>1. o \in Range(r) /\ o \in Op
    BY Zenon, <1>2, <1>3
  <2>2. pc[o] \in Linked /\ (job[t].grant => o \in granted)
    BY Zenon, <1>1, <2>1 DEF JobSound
  <2>3. result[o] \in {"none", "stopped"} \/ (won[t] /\ o = Head(r))
    BY Zenon, <1>1, <2>1 DEF JobSound
  <2>4. \A u \in Thread \ {t} : o \notin Range(job[u].ready)
    BY Zenon, <1>1, <2>1 DEF JobSound
  <2> QED BY Zenon, <1>3, <2>1, <2>2, <2>3, <2>4
<1>6. ASSUME won'[t]
      PROVE  /\ job'[t].ready # <<>>
             /\ result'[Head(job'[t].ready)] \in {"true", "false"}
             /\ Head(job'[t].ready) \notin delivered'
  <2>1. r # <<>> /\ result[Head(r)] \in {"true", "false"} /\ Head(r) \notin delivered
    BY Zenon, <1>1, <1>3, <1>6 DEF JobSound
  <2>2. Head(r) \in Range(r)
    BY Zenon, <1>2, <2>1
  <2> QED BY Zenon, <1>3, <2>1, <2>2
<1> QED BY Zenon, <1>4, <1>5, <1>6 DEF JobSound

\* The initial state satisfies the inductive invariant.
LEMMA InitInd ==
  ASSUME CountFacts, Init
  PROVE  IndInv
<1> USE DEF Init, Idle
<1>1. TypeOK
  <2>1. <<>> \in Seq(Op)
    BY SMTT(30)
  <2>2. job \in [Thread -> [ready : Seq(Op), grant : BOOLEAN]]
    BY Zenon, <2>1
  <2> QED BY Zenon, <2>1, <2>2 DEF TypeOK, PC
<1>2. Range(queue) = {} /\ DOMAIN queue = {}
  BY SMTT(30) DEF Range
<1>3. \A t \in Thread : job[t].ready = <<>> /\ Range(job[t].ready) = {} /\ ~won[t]
  BY SMTT(30) DEF Range
<1>4. QueueInv /\ JobInv
  BY Zenon, <1>2, <1>3, EmptyFacts DEF QueueInv, JobInv, JobSound
<1>5. StartInv /\ FateInv /\ CallbackInv
  BY Zenon DEF StartInv, FateInv, CallbackInv, Linked
<1>6. PermitInv
  BY SMTT(30) DEF CountFacts, EmptyCount, PermitInv, NoIdlePermit, PermitsConserved
<1> QED BY Zenon, <1>1, <1>4, <1>5, <1>6 DEF IndInv

\* A step of start() outside the lock keeps it.
LEMMA StartInd ==
  ASSUME IndInv, NEW o \in Op,
         \/ StartStopped(o) \/ StartCheck(o) \/ StartClosed(o) \/ StartFinish(o)
  PROVE  IndInv'
<1> USE DEF IndInv
<1>1. /\ UNCHANGED <<permits, closed, queue, issued, granted, job, won, onStop, cb, stopReq,
                     destroyed, late>>
      /\ pc[o] \notin Linked
      /\ \/ /\ pc' = [pc EXCEPT ![o] = "started"]
            /\ \E r \in {"true", "false", "stopped"} :
                 /\ result' = [result EXCEPT ![o] = r]
                 /\ r = "true" => pc[o] = "imm_true"
            /\ delivered' = delivered \cup {o}
         \/ /\ \/ pc' = [pc EXCEPT ![o] = "checked"] /\ pc[o] = "idle"
               \/ pc' = [pc EXCEPT ![o] = "imm_false"] /\ pc[o] = "checked"
            /\ UNCHANGED <<result, delivered>>
  BY Zenon DEF StartStopped, StartCheck, StartClosed, StartFinish, Complete, Linked
<1>2. o \notin Range(queue) /\ \A t \in Thread : o \notin Range(job[t].ready)
  BY Zenon, <1>1 DEF QueueInv, JobInv, JobSound
<1>3. TypeOK'
  <2>1. pc' \in [Op -> PC]
    BY Zenon, <1>1, Shape DEF PC
  <2>2. result' \in [Op -> {"none", "true", "false", "stopped"}]
    BY Zenon, <1>1, Shape
  <2>3. delivered' \in SUBSET Op
    BY Zenon, <1>1, Shape
  <2> QED BY Zenon, <1>1, <2>1, <2>2, <2>3 DEF TypeOK
<1>4. QueueInv'
  BY Zenon, <1>1, <1>2, Shape DEF QueueInv
<1>5. JobInv'
  <2>1. \A o1 \in Op : pc[o1] \in Linked => pc'[o1] \in Linked
    BY Zenon, <1>1, Shape DEF Linked
  <2>2. \A t \in Thread : \A o1 \in Range(job[t].ready) :
          result'[o1] = result[o1] /\ (o1 \in delivered' => o1 \in delivered)
    <3> SUFFICES ASSUME NEW t \in Thread, NEW o1 \in Range(job[t].ready)
                 PROVE  result'[o1] = result[o1] /\ (o1 \in delivered' => o1 \in delivered)
      BY Zenon
    <3>1. o1 \in Op /\ o1 # o
      BY Zenon, <1>2, Shape
    <3> QED BY Zenon, <1>1, <3>1, Shape
  <2> QED BY Zenon, <1>1, <2>1, <2>2, JobKept
<1>6. StartInv'
  BY <1>1 DEF StartInv, TypeOK, Linked
<1>7. FateInv'
  BY SMTT(30), <1>1 DEF FateInv, StartInv, TypeOK
<1>8. CallbackInv'
  BY <1>1 DEF CallbackInv, StartInv, FateInv, TypeOK, Linked
<1>9. PermitInv'
  BY Zenon, <1>1 DEF PermitInv, NoIdlePermit, PermitsConserved
<1> QED BY Zenon, <1>3, <1>4, <1>5, <1>6, <1>7, <1>8, <1>9

\* Taking a free permit keeps it: the operation had none before.
LEMMA TakeInd ==
  ASSUME CountFacts, IndInv, NEW o \in Op, StartTake(o)
  PROVE  IndInv'
<1> USE DEF IndInv
<1>1. /\ pc[o] = "checked" /\ pc' = [pc EXCEPT ![o] = "imm_true"]
      /\ ~closed /\ permits > 0 /\ permits' = permits - 1
      /\ granted' = granted \cup {o}
      /\ UNCHANGED <<closed, queue, issued, result, delivered, onStop, cb, stopReq, job, won,
                     destroyed, late>>
  BY Zenon DEF StartTake
<1>2. o \notin granted
  BY Zenon, <1>1 DEF StartInv
<1>3. TypeOK'
  BY SMTT(30), <1>1 DEF TypeOK, PC
<1>4. QueueInv'
  <2>1. queue = <<>>
    BY Zenon, <1>1 DEF PermitInv, NoIdlePermit
  <2> QED BY Zenon, <1>1, <2>1, EmptyFacts DEF QueueInv
<1>5. JobInv'
  <2>1. \A o1 \in Op : pc[o1] \in Linked => pc'[o1] \in Linked
    BY Zenon, <1>1, Shape DEF Linked
  <2>2. \A t \in Thread : \A o1 \in Range(job[t].ready) :
          result'[o1] = result[o1] /\ (o1 \in delivered' => o1 \in delivered)
    BY Zenon, <1>1, Shape
  <2> QED BY Zenon, <1>1, <2>1, <2>2, JobKept
<1>6. StartInv'
  BY Zenon, <1>1, Shape DEF StartInv, Linked
<1>7. FateInv'
  BY Zenon, <1>1 DEF FateInv
<1>8. CallbackInv'
  BY Zenon, <1>1, Shape DEF CallbackInv, StartInv, Linked
<1>9. PermitInv'
  <2>1. IsFiniteSet(granted') /\ Cardinality(granted') = Cardinality(granted) + 1
    BY Zenon, <1>1, <1>2 DEF PermitInv, CountFacts, AddCount
  <2>2. Cardinality(granted) \in Nat /\ issued \in Nat /\ permits \in Nat
    BY Zenon DEF CountFacts, NatCount, PermitInv, TypeOK
  <2> QED BY SMTT(30), <1>1, <2>1, <2>2 DEF PermitInv, NoIdlePermit, PermitsConserved
<1> QED BY Zenon, <1>3, <1>4, <1>5, <1>6, <1>7, <1>8, <1>9

\* Enqueueing keeps it: the operation is new to the queue and to the jobs.
LEMMA EnqueueInd ==
  ASSUME IndInv, NEW o \in Op, StartEnqueue(o)
  PROVE  IndInv'
<1> USE DEF IndInv
<1>1. /\ pc[o] = "checked" /\ pc' = [pc EXCEPT ![o] = "enqueued"]
      /\ ~closed /\ permits = 0
      /\ queue' = Append(queue, o)
      /\ UNCHANGED <<permits, closed, issued, granted, result, delivered, onStop, cb, stopReq,
                     job, won, destroyed, late>>
  BY Zenon DEF StartEnqueue, Enqueue
<1>2. /\ o \notin Range(queue)
      /\ \A t \in Thread : o \notin Range(job[t].ready)
      /\ o \notin granted /\ result[o] = "none" /\ cb[o] = "none" /\ o \notin onStop
  BY Zenon, <1>1 DEF QueueInv, JobInv, JobSound, StartInv, Linked
<1>3. /\ queue' \in Seq(Op) /\ IsInjective(queue')
      /\ Range(queue') = Range(queue) \cup {o}
  BY SMTT(30), <1>1, <1>2, Shape, AppendDistinct DEF QueueInv
<1>4. TypeOK'
  BY Zenon, <1>1, <1>3 DEF TypeOK, PC
<1>5. QueueInv'
  BY SMTT(30), <1>1, <1>2, <1>3, Shape DEF QueueInv, Linked
<1>6. JobInv'
  <2>1. \A o1 \in Op : pc[o1] \in Linked => pc'[o1] \in Linked
    BY Zenon, <1>1, Shape DEF Linked
  <2>2. \A t \in Thread : \A o1 \in Range(job[t].ready) :
          result'[o1] = result[o1] /\ (o1 \in delivered' => o1 \in delivered)
    <3> SUFFICES ASSUME NEW t \in Thread, NEW o1 \in Range(job[t].ready)
                 PROVE  result'[o1] = result[o1] /\ (o1 \in delivered' => o1 \in delivered)
      BY Zenon
    <3>1. o1 \in Op /\ o1 # o
      BY Zenon, <1>2, Shape
    <3> QED BY Zenon, <1>1, <3>1, Shape
  <2> QED BY Zenon, <1>1, <2>1, <2>2, JobKept
<1>7. StartInv'
  BY Zenon, <1>1, Shape DEF StartInv, Linked
<1>8. FateInv'
  BY Zenon, <1>1 DEF FateInv
<1>9. CallbackInv'
  BY Zenon, <1>1, <1>2, Shape DEF CallbackInv
<1>10. PermitInv'
  BY SMTT(30), <1>1 DEF PermitInv, NoIdlePermit, PermitsConserved
<1> QED BY Zenon, <1>4, <1>5, <1>6, <1>7, <1>8, <1>9, <1>10

\* The rest of start(), a stop request and the load of the callback change
\* only the callback's registration and progress.
LEMMA RegisterInd ==
  ASSUME IndInv, NEW o \in Op,
         \/ Emplace(o) \/ EmplaceReturn(o) \/ StartReturn(o) \/ RequestStop(o) \/ CallbackLoad(o)
  PROVE  IndInv'
<1> USE DEF IndInv
<1>1. /\ UNCHANGED <<permits, closed, queue, issued, granted, result, delivered, job, won, destroyed>>
      /\ \/ UNCHANGED pc
         \/ /\ pc[o] \in Linked
            /\ \E l \in Linked : pc' = [pc EXCEPT ![o] = l]
      /\ \/ UNCHANGED cb
         \/ \E l \in {"none", "load", "detach"} : cb' = [cb EXCEPT ![o] = l]
  BY Zenon DEF Emplace, EmplaceReturn, StartReturn, RequestStop, CallbackLoad, Linked
<1>2. TypeOK'
  <2>1. onStop' \in SUBSET Op /\ stopReq' \in SUBSET Op /\ late' \in SUBSET Op
    BY Zenon DEF TypeOK, Emplace, EmplaceReturn, StartReturn, RequestStop, CallbackLoad, Touch
  <2>2. pc' \in [Op -> PC]
    BY Zenon, <1>1, Shape DEF PC, Linked
  <2>3. cb' \in [Op -> {"none", "load", "detach", "cas"}]
    BY Zenon, <1>1, Shape
  <2> QED BY Zenon, <1>1, <2>1, <2>2, <2>3 DEF TypeOK
<1>3. QueueInv'
  BY Zenon, <1>1, Shape DEF QueueInv
<1>4. JobInv'
  <2>1. \A o1 \in Op : pc[o1] \in Linked => pc'[o1] \in Linked
    BY Zenon, <1>1, Shape DEF Linked
  <2>2. \A t \in Thread : \A o1 \in Range(job[t].ready) :
          result'[o1] = result[o1] /\ (o1 \in delivered' => o1 \in delivered)
    BY Zenon, <1>1, Shape
  <2> QED BY Zenon, <1>1, <2>1, <2>2, JobKept
<1>5. StartInv' /\ CallbackInv'
  <2>1. CASE Emplace(o)
    BY <2>1, Shape DEF Emplace, StartInv, CallbackInv, Linked
  <2>2. CASE EmplaceReturn(o)
    BY Zenon, <2>2, Shape DEF EmplaceReturn, StartInv, CallbackInv, Linked
  <2>3. CASE StartReturn(o)
    BY Zenon, <2>3, Shape DEF StartReturn, ResetWouldBlock, StartInv, CallbackInv, FateInv, Linked
  <2>4. CASE RequestStop(o)
    BY Zenon, <2>4, Shape DEF RequestStop, StartInv, CallbackInv, Linked
  <2>5. CASE CallbackLoad(o)
    BY Zenon, <2>5, Shape DEF CallbackLoad, StartInv, CallbackInv, Linked
  <2> QED BY Zenon, <2>1, <2>2, <2>3, <2>4, <2>5
<1>6. FateInv'
  BY Zenon, <1>1 DEF FateInv
<1>7. PermitInv'
  BY Zenon, <1>1 DEF PermitInv, NoIdlePermit, PermitsConserved
<1> QED BY Zenon, <1>2, <1>3, <1>4, <1>5, <1>6, <1>7

\* What unlinking an operation leaves of the queue.
LEMMA DetachShape ==
  ASSUME IndInv, NEW o \in Op, Detach(o)
  PROVE  /\ queue' \in Seq(Op) /\ IsInjective(queue')
         /\ Range(queue') = Range(queue) \ {o}
         /\ queue = <<>> => queue' = <<>>
<1>1. queue \in Seq(Op) /\ IsInjective(queue)
  BY Zenon, Shape DEF IndInv, QueueInv
<1>2. CASE o \notin Range(queue) /\ UNCHANGED queue
  BY Zenon, <1>1, <1>2
<1>3. CASE \E i \in DOMAIN queue : queue[i] = o /\ queue' = Unlink(queue, i)
  <2>1. PICK i \in DOMAIN queue : queue[i] = o /\ queue' = Unlink(queue, i)
    BY Zenon, <1>3
  <2>2. queue # <<>>
    BY SMTT(30), <2>1
  <2>3. queue' \in Seq(Op) /\ IsInjective(queue') /\ Range(queue') = Range(queue) \ {queue[i]}
    BY Zenon, <1>1, <2>1, UnlinkDistinct DEF Unlink
  <2> QED BY Zenon, <2>1, <2>2, <2>3
<1> QED BY Zenon, <1>2, <1>3 DEF Detach

\* Detaching and destroying keep it: they take an operation off the queue at
\* most, and a destroyed one is no longer registered.
LEMMA DetachInd ==
  ASSUME IndInv, NEW o \in Op, CallbackDetach(o) \/ Destroy(o)
  PROVE  IndInv'
<1> USE DEF IndInv
<1>1. /\ UNCHANGED <<permits, closed, issued, granted, pc, result, delivered, stopReq, job, won>>
      /\ Detach(o)
      /\ \/ cb' = [cb EXCEPT ![o] = "cas"] /\ UNCHANGED <<onStop, destroyed>> /\ cb[o] = "detach"
         \/ /\ onStop' = onStop \ {o} /\ destroyed' = destroyed \cup {o} /\ UNCHANGED cb
            /\ o \in delivered /\ ~ResetWouldBlock(o)
  BY Zenon DEF CallbackDetach, Destroy
<1>2. /\ queue' \in Seq(Op) /\ IsInjective(queue')
      /\ Range(queue') = Range(queue) \ {o}
      /\ queue = <<>> => queue' = <<>>
  BY Zenon, <1>1, DetachShape
<1>3. TypeOK'
  <2>1. late' \in SUBSET Op
    BY SMTT(30) DEF TypeOK, CallbackDetach, Destroy, Touch
  <2>2. cb' \in [Op -> {"none", "load", "detach", "cas"}]
    BY Zenon, <1>1, Shape
  <2>3. onStop' \in SUBSET Op /\ destroyed' \in SUBSET Op
    BY Zenon, <1>1, Shape
  <2> QED BY Zenon, <1>1, <1>2, <2>1, <2>2, <2>3 DEF TypeOK
<1>4. QueueInv'
  BY Zenon, <1>1, <1>2, Shape DEF QueueInv
<1>5. JobInv'
  BY Zenon, <1>1, JobKept
<1>6. StartInv'
  BY Zenon, <1>1, Shape DEF StartInv, Linked
<1>7. FateInv'
  BY Zenon, <1>1, Shape DEF FateInv
<1>8. CallbackInv'
  BY Zenon, <1>1, Shape DEF CallbackInv, ResetWouldBlock
<1>9. PermitInv'
  BY Zenon, <1>1, <1>2 DEF PermitInv, NoIdlePermit, PermitsConserved
<1> QED BY Zenon, <1>3, <1>4, <1>5, <1>6, <1>7, <1>8, <1>9

\* The end of the stop callback keeps it: the operation it completes is not
\* queued any more, and if a job has it the job will find it completed.
LEMMA CallbackFinishInd ==
  ASSUME IndInv, NEW o \in Op, CallbackFinish(o)
  PROVE  IndInv'
<1> USE DEF IndInv
<1>1. /\ UNCHANGED <<permits, closed, queue, issued, granted, pc, stopReq, job, won, destroyed>>
      /\ cb[o] = "cas" /\ cb' = [cb EXCEPT ![o] = "none"]
      /\ \/ /\ result[o] = "none" /\ result' = [result EXCEPT ![o] = "stopped"]
            /\ delivered' = delivered \cup {o} /\ onStop' = onStop \ {o}
         \/ result[o] # "none" /\ UNCHANGED <<result, delivered, onStop>>
  BY Zenon DEF CallbackFinish, Complete
<1>2. o \notin Range(queue) /\ pc[o] \in Linked
  BY Zenon, <1>1 DEF QueueInv, StartInv
<1>3. TypeOK'
  <2>1. late' \in SUBSET Op
    BY Zenon DEF TypeOK, CallbackFinish, Touch
  <2>2. result' \in [Op -> {"none", "true", "false", "stopped"}]
    BY Zenon, <1>1, Shape
  <2>3. cb' \in [Op -> {"none", "load", "detach", "cas"}]
    BY Zenon, <1>1, Shape
  <2>4. delivered' \in SUBSET Op /\ onStop' \in SUBSET Op
    BY Zenon, <1>1, Shape
  <2> QED BY Zenon, <1>1, <2>1, <2>2, <2>3, <2>4 DEF TypeOK
<1>4. QueueInv'
  BY Zenon, <1>1, <1>2, Shape DEF QueueInv
<1>5. JobInv'
  <2> SUFFICES ASSUME NEW t \in Thread PROVE JobSound(t)'
    BY Zenon DEF JobInv
  <2> DEFINE r == job[t].ready
  <2>1. JobSound(t) /\ Range(r) \subseteq Op /\ (r # <<>> => Head(r) \in Range(r))
    BY Zenon, JobShape DEF JobInv
  <2>2. job'[t].ready = r /\ won'[t] = won[t] /\ job'[t].grant = job[t].grant
    BY Zenon, <1>1
  <2>3. ASSUME NEW o1 \in Range(r)
        PROVE  /\ pc'[o1] \in Linked
               /\ job[t].grant => o1 \in granted'
               /\ result'[o1] \in {"none", "stopped"} \/ (won[t] /\ o1 = Head(r))
               /\ \A u \in Thread \ {t} : o1 \notin Range(job[u].ready)
    <3>1. o1 \in Op
      BY Zenon, <2>1
    <3>2. result'[o1] = result[o1] \/ result'[o1] = "stopped"
      BY Zenon, <1>1, <3>1, Shape
    <3> QED BY Zenon, <1>1, <2>1, <3>2 DEF JobSound
  <2>4. ASSUME won[t]
        PROVE  /\ r # <<>>
               /\ result'[Head(r)] \in {"true", "false"}
               /\ Head(r) \notin delivered'
    <3>1. r # <<>> /\ result[Head(r)] \in {"true", "false"} /\ Head(r) \notin delivered
      BY Zenon, <2>1, <2>4 DEF JobSound
    <3>2. Head(r) \in Op
      BY Zenon, <2>1, <3>1
    <3> QED BY Zenon, <1>1, <3>1, <3>2, Shape
  <2>5. IsInjective(r)
    BY Zenon, <2>1 DEF JobSound
  <2> HIDE DEF r
  <2> QED BY Zenon, <1>1, <2>2, <2>3, <2>4, <2>5 DEF JobSound
<1>6. StartInv'
  BY Zenon, <1>1, <1>2, Shape DEF StartInv
<1>7. FateInv'
  BY Zenon, <1>1, Shape DEF FateInv
<1>8. CallbackInv'
  BY Zenon, <1>1, Shape DEF CallbackInv
<1>9. PermitInv'
  BY Zenon, <1>1 DEF PermitInv, NoIdlePermit, PermitsConserved
<1> QED BY <1>3, <1>4, <1>5, <1>6, <1>7, <1>8, <1>9

\* Popping a prefix of the queue into an empty job, as release() and close()
\* do, keeps the invariants of queue and jobs.
LEMMA PopKept ==
  ASSUME IndInv, NEW t \in Thread, NEW ready, NEW grant \in BOOLEAN,
         job[t].ready = <<>>,
         job' = [job EXCEPT ![t] = [ready |-> ready, grant |-> grant]],
         UNCHANGED <<pc, result, delivered, cb, won>>,
         ready \in Seq(Op), IsInjective(ready),
         queue' \in Seq(Op), IsInjective(queue'),
         Range(ready) \subseteq Range(queue), Range(queue') \subseteq Range(queue),
         Range(ready) \cap Range(queue') = {},
         granted' = granted \cup (IF grant THEN Range(ready) ELSE {})
  PROVE  /\ QueueInv' /\ JobInv'
         /\ job' \in [Thread -> [ready : Seq(Op), grant : BOOLEAN]]
<1>1. /\ QueueInv /\ JobInv
      /\ job \in [Thread -> [ready : Seq(Op), grant : BOOLEAN]]
  BY Zenon DEF IndInv, TypeOK
<1>2. job' \in [Thread -> [ready : Seq(Op), grant : BOOLEAN]]
  BY Zenon, <1>1
<1>3. job'[t].ready = ready /\ job'[t].grant = grant
  BY Zenon, <1>1
<1>4. \A u \in Thread \ {t} : job'[u] = job[u]
  BY Zenon, <1>1
<1>5. \A o \in Range(queue) : /\ result[o] = "none" /\ pc[o] \in Linked /\ cb[o] # "cas"
                              /\ o \notin granted
                              /\ \A u \in Thread : o \notin Range(job[u].ready)
  BY Zenon, <1>1 DEF QueueInv
<1>6. QueueInv'
  <2>1. ASSUME NEW o \in Range(queue')
        PROVE  /\ result'[o] = "none" /\ pc'[o] \in Linked /\ cb'[o] # "cas"
               /\ o \notin granted'
               /\ \A u \in Thread : o \notin Range(job'[u].ready)
    BY Zenon, <1>3, <1>4, <1>5
  <2> QED BY Zenon, <2>1 DEF QueueInv
<1>7. JobInv'
  <2>1. ~won[t]
    BY Zenon, <1>1 DEF JobInv, JobSound
  <2>2. JobSound(t)'
    <3>1. ASSUME NEW o \in Range(ready)
          PROVE  /\ pc'[o] \in Linked
                 /\ grant => o \in granted'
                 /\ result'[o] \in {"none", "stopped"}
                 /\ \A u \in Thread \ {t} : o \notin Range(job'[u].ready)
      BY SMTT(30), <1>4, <1>5
    <3> QED BY Zenon, <1>3, <2>1, <3>1 DEF JobSound
  <2>3. ASSUME NEW u \in Thread \ {t} PROVE JobSound(u)'
    <3>1. JobSound(u) /\ job'[u] = job[u]
      BY Zenon, <1>1, <1>4 DEF JobInv
    <3>2. \A o \in Range(job[u].ready) :
            \A v \in Thread \ {u} : o \notin Range(job'[v].ready)
      <4> SUFFICES ASSUME NEW o \in Range(job[u].ready), NEW v \in Thread \ {u}
                   PROVE  o \notin Range(job'[v].ready)
        BY Zenon
      <4>1. CASE v = t
        BY Zenon, <4>1, <1>3, <1>5
      <4>2. CASE v # t
        BY Zenon, <4>2, <1>4, <3>1 DEF JobSound
      <4> QED BY Zenon, <4>1, <4>2
    <3>3. \A o \in Range(job[u].ready) :
            /\ pc'[o] \in Linked
            /\ job[u].grant => o \in granted'
            /\ result'[o] \in {"none", "stopped"} \/ (won'[u] /\ o = Head(job[u].ready))
      BY Zenon, <3>1 DEF JobSound
    <3>4. IsInjective(job[u].ready)
      BY Zenon, <3>1 DEF JobSound
    <3>5. won'[u] => /\ job[u].ready # <<>>
                     /\ result'[Head(job[u].ready)] \in {"true", "false"}
                     /\ Head(job[u].ready) \notin delivered'
      BY Zenon, <3>1 DEF JobSound
    <3> QED BY Zenon, <3>1, <3>2, <3>3, <3>4, <3>5 DEF JobSound
  <2> QED BY Zenon, <2>2, <2>3 DEF JobInv
<1> QED BY Zenon, <1>2, <1>6, <1>7

\* release(n) keeps it: n permits come in, k go to the k waiters popped and
\* the rest to the counter, which stays zero while waiters are left.
LEMMA ReleaseInd ==
  ASSUME CountFacts, RangeCount, IndInv, NEW t \in Thread, NEW n \in Nat, Release(t, n)
  PROVE  IndInv'
<1> USE DEF IndInv
<1> DEFINE k     == IF n < Len(queue) THEN n ELSE Len(queue)
           ready == SubSeq(queue, 1, k)
<1>1. /\ job[t].ready = <<>> /\ ~closed
      /\ queue' = SubSeq(queue, k + 1, Len(queue))
      /\ permits' = permits + (n - k)
      /\ job' = [job EXCEPT ![t] = [ready |-> ready, grant |-> TRUE]]
      /\ issued' = issued + n
      /\ granted' = granted \cup Range(ready)
      /\ UNCHANGED <<closed, pc, result, delivered, onStop, cb, stopReq, won, destroyed, late>>
  BY Zenon DEF Release
<1>2. queue \in Seq(Op) /\ IsInjective(queue) /\ Len(queue) \in Nat /\ k \in 0..Len(queue)
      /\ k \in Nat /\ k <= n
  BY SMTT(30), Shape DEF QueueInv
<1>3. /\ ready \in Seq(Op) /\ IsInjective(ready)
      /\ queue' \in Seq(Op) /\ IsInjective(queue') /\ Len(queue') = Len(queue) - k
      /\ Range(ready) \cup Range(queue') = Range(queue)
      /\ Range(ready) \cap Range(queue') = {}
      /\ IsFiniteSet(Range(ready)) /\ Cardinality(Range(ready)) = k
  <2> DEFINE rest == SubSeq(queue, k + 1, Len(queue))
  <2>1. /\ ready \in Seq(Op) /\ IsInjective(ready)
        /\ rest \in Seq(Op) /\ IsInjective(rest) /\ Len(rest) = Len(queue) - k
        /\ Range(ready) \cup Range(rest) = Range(queue)
        /\ Range(ready) \cap Range(rest) = {}
        /\ IsFiniteSet(Range(ready)) /\ Cardinality(Range(ready)) = k
    <3> HIDE DEF k
    <3>1. /\ SubSeq(queue, 1, k) \in Seq(Op) /\ IsInjective(SubSeq(queue, 1, k))
          /\ Len(SubSeq(queue, 1, k)) = k
          /\ rest \in Seq(Op) /\ IsInjective(rest) /\ Len(rest) = Len(queue) - k
          /\ Range(SubSeq(queue, 1, k)) \cup Range(rest) = Range(queue)
          /\ Range(SubSeq(queue, 1, k)) \cap Range(rest) = {}
      BY SMTT(30), <1>2, SplitDistinct
    <3> HIDE DEF rest
    <3>2. ready \in Seq(Op) /\ IsInjective(ready) /\ Len(ready) = k
      BY Zenon, <3>1
    <3>3. IsFiniteSet(Range(ready)) /\ Cardinality(Range(ready)) = k
      <4> HIDE DEF ready
      <4> QED BY Zenon, <3>2 DEF CountFacts, RangeCount
    <3> QED BY Zenon, <3>1, <3>2, <3>3
  <2>2. queue' = rest
    BY Zenon, <1>1
  <2> HIDE DEF rest, ready, k
  <2> QED BY Zenon, <2>1, <2>2
<1>4. /\ QueueInv' /\ JobInv'
      /\ job' \in [Thread -> [ready : Seq(Op), grant : BOOLEAN]]
  <2> HIDE DEF k, ready
  <2>1. /\ Range(ready) \subseteq Range(queue) /\ Range(queue') \subseteq Range(queue)
        /\ granted' = granted \cup (IF TRUE THEN Range(ready) ELSE {})
    BY Zenon, <1>1, <1>3
  <2> QED BY Zenon, <1>1, <1>3, <2>1, PopKept
<1>5. TypeOK'
  <2> HIDE DEF ready
  <2>1. granted' \in SUBSET Op
    BY Zenon, <1>1, <1>3, Shape DEF TypeOK
  <2>2. permits' \in Nat /\ issued' \in Nat
    <3>1. permits \in Nat /\ issued \in Nat
      BY Zenon DEF TypeOK
    <3>2. permits' = permits + (n - k) /\ issued' = issued + n
      BY Zenon, <1>1
    <3>3. k \in Nat /\ k <= n
      BY Zenon, <1>2
    <3> HIDE DEF k, IndInv
    <3> QED BY <3>1, <3>2, <3>3
  <2> QED BY Zenon, <1>1, <1>3, <1>4, <2>1, <2>2 DEF TypeOK
<1>6. StartInv'
  <2>1. \A o \in Range(ready) : pc[o] \in Linked
    BY Zenon, <1>3 DEF QueueInv
  <2> HIDE DEF k, ready
  <2> QED BY Zenon, <1>1, <2>1 DEF StartInv, Linked
<1>7. FateInv'
  <2> HIDE DEF k, ready
  <2> QED BY Zenon, <1>1 DEF FateInv
<1>8. CallbackInv'
  <2> HIDE DEF k, ready
  <2> QED BY Zenon, <1>1 DEF CallbackInv
<1>9. PermitInv'
  <2>1. Range(ready) \cap granted = {}
    BY Zenon, <1>3 DEF QueueInv
  <2> HIDE DEF ready
  <2>2. /\ IsFiniteSet(granted')
        /\ Cardinality(granted') = Cardinality(granted) + k
    <3>1. IsFiniteSet(granted) /\ Cardinality(granted) \in Nat
      BY Zenon DEF CountFacts, NatCount, PermitInv
    <3> HIDE DEF k
    <3>2. /\ IsFiniteSet(granted \cup Range(ready))
          /\ Cardinality(granted \cup Range(ready)) = Cardinality(granted) + k
      BY Zenon, <1>3, <2>1, <3>1 DEF CountFacts, UnionCount
    <3> QED BY Zenon, <1>1, <3>2
  <2>3. Cardinality(granted) \in Nat /\ permits \in Nat /\ issued \in Nat
    BY Zenon DEF CountFacts, NatCount, PermitInv, TypeOK
  <2>4. PermitsConserved'
    <3> HIDE DEF k
    <3> QED BY SMTT(30), <1>1, <1>2, <2>2, <2>3 DEF PermitInv, PermitsConserved
  <2>5. NoIdlePermit'
    <3>1. ASSUME permits' > 0 PROVE queue' = <<>>
      <4>1. CASE permits > 0
        <5>1. queue = <<>> /\ Len(queue) = 0 /\ k = 0
          BY SMTT(30), <4>1, <1>2 DEF PermitInv, NoIdlePermit
        <5>2. Len(queue') = 0
          BY SMTT(30), <1>3, <5>1
        <5> QED BY SMTT(30), <1>3, <5>2
      <4>2. CASE permits = 0
        <5>1. n > k
          BY SMTT(30), <1>1, <1>2, <3>1, <4>2
        <5>2. k = Len(queue)
          BY SMTT(30), <1>2, <5>1
        <5>3. Len(queue') = 0
          BY SMTT(30), <1>2, <1>3, <5>2
        <5> QED BY SMTT(30), <1>3, <5>3
      <4> QED BY SMTT(30), <4>1, <4>2, <2>3
    <3> QED BY Zenon, <1>1, <3>1 DEF NoIdlePermit
  <2> QED BY Zenon, <2>2, <2>4, <2>5 DEF PermitInv
<1> QED BY Zenon, <1>4, <1>5, <1>6, <1>7, <1>8, <1>9

\* close() keeps it: all the waiters go to one job.
LEMMA CloseInd ==
  ASSUME IndInv, NEW t \in Thread, Close(t)
  PROVE  IndInv'
<1> USE DEF IndInv
<1>1. /\ job[t].ready = <<>> /\ ~closed /\ closed' = TRUE /\ permits' = 0 /\ queue' = <<>>
      /\ job' = [job EXCEPT ![t] = [ready |-> queue, grant |-> FALSE]]
      /\ UNCHANGED <<issued, granted, pc, result, delivered, onStop, cb, stopReq, won,
                     destroyed, late>>
  BY Zenon DEF Close
<1>2. /\ queue' \in Seq(Op) /\ IsInjective(queue') /\ Range(queue') = {}
      /\ queue \in Seq(Op) /\ IsInjective(queue)
  BY SMTT(30), <1>1, Shape, EmptyFacts DEF QueueInv
<1>3. /\ QueueInv' /\ JobInv'
      /\ job' \in [Thread -> [ready : Seq(Op), grant : BOOLEAN]]
  <2>1. granted' = granted \cup (IF FALSE THEN Range(queue) ELSE {})
    BY Zenon, <1>1
  <2>2. Range(queue) \cap Range(queue') = {} /\ Range(queue') \subseteq Range(queue)
    BY Zenon, <1>2
  <2> QED BY Zenon, <1>1, <1>2, <2>1, <2>2, PopKept
<1>4. TypeOK'
  BY Zenon, <1>1, <1>2, <1>3 DEF TypeOK
<1>5. StartInv' /\ FateInv' /\ CallbackInv'
  BY Zenon, <1>1 DEF StartInv, FateInv, CallbackInv
<1>6. PermitInv'
  BY Zenon, <1>1 DEF PermitInv, NoIdlePermit, PermitsConserved
<1> QED BY Zenon, <1>3, <1>4, <1>5, <1>6

\* Advancing a job to its next waiter, with the flag of the head given up or
\* not won, keeps the invariants of queue and jobs.
LEMMA NextWaiterKept ==
  ASSUME IndInv, NEW t \in Thread, NextWaiter(t), job[t].ready # <<>>,
         won' = [won EXCEPT ![t] = FALSE] \/ (~won[t] /\ UNCHANGED won),
         UNCHANGED <<queue, pc, result, cb, granted>>,
         delivered' \subseteq delivered \cup {Head(job[t].ready)}
  PROVE  QueueInv' /\ JobInv' /\ job' \in [Thread -> [ready : Seq(Op), grant : BOOLEAN]]
<1> DEFINE r == job[t].ready
           o == Head(r)
<1>1. /\ job \in [Thread -> [ready : Seq(Op), grant : BOOLEAN]]
      /\ won \in [Thread -> BOOLEAN]
      /\ QueueInv /\ \A u \in Thread : JobSound(u)
  BY Zenon DEF IndInv, TypeOK, JobInv
<1>2. /\ r \in Seq(Op) /\ IsInjective(r) /\ Range(r) \subseteq Op /\ o \in Range(r)
      /\ Tail(r) \in Seq(Op) /\ IsInjective(Tail(r)) /\ Range(Tail(r)) = Range(r) \ {o}
  BY Zenon, JobShape, TailDistinct
<1>3. /\ job'[t].ready = Tail(r) /\ job'[t].grant = job[t].grant
      /\ \A u \in Thread \ {t} : job'[u] = job[u] /\ won'[u] = won[u]
      /\ ~won'[t]
      /\ job' \in [Thread -> [ready : Seq(Op), grant : BOOLEAN]]
  BY Zenon, <1>1, <1>2 DEF NextWaiter
<1> HIDE DEF o, r
<1>4. \A u \in Thread : Range(job'[u].ready) \subseteq Range(job[u].ready)
  BY Zenon, <1>2, <1>3 DEF r
<1>5. QueueInv'
  BY Zenon, <1>1, <1>4 DEF QueueInv
<1>6. JobSound(t)'
  <2>1. \A p \in Range(Tail(r)) :
          /\ pc'[p] \in Linked
          /\ job[t].grant => p \in granted'
          /\ result'[p] \in {"none", "stopped"}
          /\ \A u \in Thread \ {t} : p \notin Range(job'[u].ready)
    BY Zenon, <1>1, <1>2, <1>4 DEF JobSound, r, o
  <2> QED BY Zenon, <1>2, <1>3, <2>1 DEF JobSound
<1>7. ASSUME NEW u \in Thread \ {t} PROVE JobSound(u)'
  <2> DEFINE w == job[u].ready
  <2>1. JobSound(u) /\ (w # <<>> => Head(w) \in Range(w))
    BY Zenon, <1>1, JobShape
  <2>2. o \notin Range(w)
    BY Zenon, <1>1, <1>2 DEF JobSound, r
  <2>3. won[u] => /\ w # <<>> /\ result'[Head(w)] \in {"true", "false"}
                  /\ Head(w) \notin delivered'
    BY Zenon, <2>1, <2>2 DEF JobSound, o, r
  <2>4. \A p \in Range(w) :
          /\ pc'[p] \in Linked
          /\ job[u].grant => p \in granted'
          /\ result'[p] \in {"none", "stopped"} \/ (won[u] /\ p = Head(w))
          /\ \A x \in Thread \ {u} : p \notin Range(job'[x].ready)
    BY Zenon, <1>4, <2>1 DEF JobSound
  <2>5. IsInjective(w)
    BY Zenon, <2>1 DEF JobSound
  <2> QED BY Zenon, <1>3, <2>3, <2>4, <2>5 DEF JobSound
<1> QED BY Zenon, <1>3, <1>5, <1>6, <1>7 DEF JobInv

\* Winning the flag of the head of a job, or finding it taken, keeps it.
LEMMA CompleteMarkInd ==
  ASSUME IndInv, NEW t \in Thread, CompleteMark(t)
  PROVE  IndInv'
<1> USE DEF IndInv
<1> DEFINE r == job[t].ready
           o == Head(r)
<1>1. /\ r # <<>> /\ ~won[t]
      /\ UNCHANGED <<permits, closed, queue, issued, granted, pc, delivered, onStop, cb, stopReq,
                     destroyed>>
      /\ \/ /\ result[o] = "none"
            /\ \E v \in {"true", "false"} : /\ result' = [result EXCEPT ![o] = v]
                                            /\ v = "true" => job[t].grant
            /\ won' = [won EXCEPT ![t] = TRUE] /\ UNCHANGED job
         \/ /\ result[o] # "none" /\ NextWaiter(t) /\ UNCHANGED <<result, won>>
  BY SMTT(30) DEF CompleteMark
<1>2. /\ r \in Seq(Op) /\ IsInjective(r) /\ Range(r) \subseteq Op /\ o \in Range(r)
      /\ Tail(r) \in Seq(Op) /\ IsInjective(Tail(r)) /\ Range(Tail(r)) = Range(r) \ {o}
  BY SMTT(30), <1>1, JobShape, TailDistinct
<1>3. /\ o \in Op /\ o \notin Range(queue) /\ pc[o] \in Linked
      /\ JobSound(t)
      /\ \A u \in Thread \ {t} : JobSound(u) /\ o \notin Range(job[u].ready)
      /\ job \in [Thread -> [ready : Seq(Op), grant : BOOLEAN]]
      /\ won \in [Thread -> BOOLEAN]
  <2>1. JobSound(t) /\ \A u \in Thread \ {t} : JobSound(u)
    BY SMTT(30) DEF JobInv
  <2>2. pc[o] \in Linked /\ \A u \in Thread \ {t} : o \notin Range(job[u].ready)
    BY SMTT(30), <1>2, <2>1 DEF JobSound
  <2>3. o \notin Range(queue)
    BY Zenon, <1>2 DEF QueueInv
  <2> QED BY Zenon, <1>2, <2>1, <2>2, <2>3 DEF TypeOK
<1>4. late' \in SUBSET Op
  BY Zenon, <1>3 DEF TypeOK, CompleteMark, Touch
<1>5. CASE /\ result[o] = "none"
           /\ \E v \in {"true", "false"} : /\ result' = [result EXCEPT ![o] = v]
                                           /\ v = "true" => job[t].grant
           /\ won' = [won EXCEPT ![t] = TRUE] /\ UNCHANGED job
  <2> HIDE DEF o, r
  <2>1. PICK v \in {"true", "false"} : /\ result' = [result EXCEPT ![o] = v]
                                       /\ v = "true" => job[t].grant
    BY Zenon, <1>5
  <2>2. result' \in [Op -> {"none", "true", "false", "stopped"}] /\ result'[o] = v
        /\ \A p \in Op \ {o} : result'[p] = result[p]
    BY Zenon, <1>3, <2>1, Shape
  <2>3. TypeOK'
    BY ZenonT(60), <1>1, <1>3, <1>4, <1>5, <2>2 DEF TypeOK
  <2>4. QueueInv'
    BY SMTT(30), <1>1, <1>3, <1>5, <2>2, Shape DEF QueueInv
  <2>5. o \in granted \/ v # "true"
    BY Zenon, <1>2, <1>3, <2>1 DEF JobSound, o, r
  <2>6. o \notin delivered
    BY Zenon, <1>5 DEF FateInv
  <2>7. JobInv'
    <3>1. JobSound(t)'
      <4>1. ASSUME NEW p \in Range(r)
            PROVE  /\ pc'[p] \in Linked
                   /\ job[t].grant => p \in granted'
                   /\ result'[p] \in {"none", "stopped"} \/ p = o
                   /\ \A u \in Thread \ {t} : p \notin Range(job[u].ready)
        <5>1. pc[p] \in Linked /\ (job[t].grant => p \in granted)
              /\ result[p] \in {"none", "stopped"}
              /\ \A u \in Thread \ {t} : p \notin Range(job[u].ready)
          BY Zenon, <1>1, <1>3, <4>1 DEF JobSound, r
        <5> QED BY SMTT(30), <1>1, <1>2, <2>2, <5>1
      <4>2. won'[t] /\ job' = job
        BY SMTT(30), <1>3, <1>5
      <4> QED BY ZenonT(60), <1>1, <1>2, <2>2, <2>6, <4>1, <4>2 DEF JobSound, o, r
    <3>2. ASSUME NEW u \in Thread \ {t} PROVE JobSound(u)'
      <4> DEFINE w == job[u].ready
      <4>1. JobSound(u) /\ o \notin Range(w) /\ Range(w) \subseteq Op
            /\ (w # <<>> => Head(w) \in Range(w))
        BY Zenon, <1>3, JobShape
      <4>2. job'[u] = job[u] /\ won'[u] = won[u]
        BY Zenon, <1>3, <1>5
      <4>3. \A p \in Range(w) : result'[p] = result[p]
        BY SMTT(30), <2>2, <4>1
      <4>4. won[u] => /\ w # <<>> /\ result'[Head(w)] \in {"true", "false"}
                      /\ Head(w) \notin delivered'
        BY SMTT(30), <1>1, <4>1, <4>3 DEF JobSound
      <4>5. \A p \in Range(w) :
              /\ pc'[p] \in Linked
              /\ job[u].grant => p \in granted'
              /\ result'[p] \in {"none", "stopped"} \/ (won[u] /\ p = Head(w))
              /\ \A x \in Thread \ {u} : p \notin Range(job'[x].ready)
        BY ZenonT(60), <1>1, <1>5, <4>1, <4>3 DEF JobSound
      <4>6. IsInjective(w)
        BY Zenon, <4>1 DEF JobSound
      <4> QED BY SMTT(30), <4>2, <4>4, <4>5, <4>6 DEF JobSound
    <3> QED BY SMTT(30), <3>1, <3>2 DEF JobInv
  <2>8. StartInv'
    BY Zenon, <1>1, <1>3, <2>2, Shape DEF StartInv
  <2>9. FateInv'
    BY SMTT(30), <1>1, <1>3, <2>2, <2>5, Shape DEF FateInv
  <2>10. CallbackInv' /\ PermitInv'
    BY Zenon, <1>1 DEF CallbackInv, PermitInv, NoIdlePermit, PermitsConserved
  <2> QED BY Zenon, <2>3, <2>4, <2>7, <2>8, <2>9, <2>10
<1>6. CASE result[o] # "none" /\ NextWaiter(t) /\ UNCHANGED <<result, won>>
  <2>1. QueueInv' /\ JobInv' /\ job' \in [Thread -> [ready : Seq(Op), grant : BOOLEAN]]
    BY ZenonT(60), <1>1, <1>6, NextWaiterKept
  <2>2. TypeOK'
    BY SMTT(30), <1>1, <1>4, <1>6, <2>1 DEF TypeOK
  <2>3. StartInv' /\ FateInv' /\ CallbackInv' /\ PermitInv'
    BY Zenon, <1>1, <1>6 DEF StartInv, FateInv, CallbackInv, PermitInv, NoIdlePermit, PermitsConserved
  <2> QED BY SMTT(30), <2>1, <2>2, <2>3
<1> QED BY ZenonT(60), <1>1, <1>5, <1>6

\* Calling the receiver of an operation won keeps it.
LEMMA CompleteFinishInd ==
  ASSUME IndInv, NEW t \in Thread, CompleteFinish(t)
  PROVE  IndInv'
<1> USE DEF IndInv
<1> DEFINE o == Head(job[t].ready)
<1>1. /\ won[t] /\ NextWaiter(t) /\ won' = [won EXCEPT ![t] = FALSE]
      /\ ~ResetWouldBlock(o) /\ onStop' = onStop \ {o} /\ delivered' = delivered \cup {o}
      /\ UNCHANGED <<permits, closed, queue, issued, granted, pc, result, cb, stopReq, destroyed>>
  BY Zenon DEF CompleteFinish
<1>2. JobSound(t)
  BY SMTT(30) DEF JobInv
<1>3. job[t].ready # <<>> /\ result[o] \in {"true", "false"} /\ o \in Op
  BY Zenon, <1>1, <1>2, JobShape DEF JobSound
<1>4. QueueInv' /\ JobInv' /\ job' \in [Thread -> [ready : Seq(Op), grant : BOOLEAN]]
  BY Zenon, <1>1, <1>3, NextWaiterKept
<1>5. TypeOK'
  <2>1. late' \in SUBSET Op
    BY Zenon, <1>3 DEF TypeOK, CompleteFinish, Touch
  <2>2. won' \in [Thread -> BOOLEAN]
    BY SMTT(30), <1>1 DEF TypeOK
  <2> HIDE DEF o
  <2> QED BY Zenon, <1>1, <1>3, <1>4, <2>1, <2>2 DEF TypeOK
<1> HIDE DEF o
<1>6. StartInv' /\ FateInv' /\ PermitInv'
  BY SMTT(30), <1>1, <1>3 DEF StartInv, FateInv, PermitInv, NoIdlePermit, PermitsConserved
<1>7. CallbackInv'
  BY Zenon, <1>1, <1>3 DEF CallbackInv, ResetWouldBlock
<1> QED BY Zenon, <1>4, <1>5, <1>6, <1>7

\* No step of Next, and no stuttering step, breaks the inductive invariant.
LEMMA NextInd ==
  ASSUME CountFacts, RangeCount, IndInv, [Next]_vars
  PROVE  IndInv'
<1>1. CASE UNCHANGED vars
  <2>1. TypeOK' /\ QueueInv' /\ JobInv'
    BY Zenon, <1>1 DEF IndInv, TypeOK, QueueInv, JobInv, JobSound
  <2> QED BY SMTT(30), <1>1, <2>1 DEF IndInv, StartInv, FateInv, CallbackInv, PermitInv, NoIdlePermit,
                            PermitsConserved
<1>2. ASSUME NEW o \in Op, StartStopped(o) \/ StartCheck(o) \/ StartStep(o)
      PROVE  IndInv'
  BY Zenon, <1>2, StartInd, TakeInd, EnqueueInd, RegisterInd DEF StartStep
<1>3. ASSUME NEW o \in Op, RequestStop(o) \/ CallbackStep(o) \/ Destroy(o)
      PROVE  IndInv'
  BY Zenon, <1>3, RegisterInd, DetachInd, CallbackFinishInd DEF CallbackStep
<1>4. ASSUME NEW t \in Thread, NEW n \in 1..(MaxIssued - issued), Release(t, n)
      PROVE  IndInv'
  <2>1. n \in Nat
    BY SMTT(30), MaxIssuedIsNat DEF IndInv, TypeOK
  <2> QED BY Zenon, <1>4, <2>1, ReleaseInd
<1>5. ASSUME NEW t \in Thread, Close(t) \/ CompleteStep(t)
      PROVE  IndInv'
  BY Zenon, <1>5, CloseInd, CompleteMarkInd, CompleteFinishInd DEF CompleteStep
<1> QED BY SMTT(30), <1>1, <1>2, <1>3, <1>4, <1>5 DEF Next

-----------------------------------------------------------------------------
(* The refinement of Semaphore.                                            *)

\* The status of an operation changes only with what it is read off.
LEMMA StatusStays ==
  ASSUME IndInv, NEW o \in Op,
         \/ pc'[o] = pc[o] /\ result'[o] = result[o]
         \/ pc[o] \in Linked /\ pc'[o] \in Linked /\ result'[o] = result[o]
         \/ pc[o] \in {"idle", "checked"} /\ pc'[o] \in {"idle", "checked"}
         \/ pc[o] = "imm_true" /\ pc'[o] \in Linked /\ result'[o] = "true"
         \/ pc[o] = "imm_false" /\ pc'[o] \in Linked /\ result'[o] = "false",
         (pc[o] \in Linked /\ result[o] = "none") =>
           /\ o \in Range(queue)' <=> o \in Range(queue)
           /\ PopGranted(o)' <=> PopGranted(o)
           /\ InJob(o)' <=> InJob(o)
  PROVE  AbstractStatus(o)' = AbstractStatus(o)
BY Zenon, Shape DEF AbstractStatus, Linked, PC

\* A step that decides the fate of one operation moves one status.
LEMMA StatusMap ==
  ASSUME NEW o \in Op, NEW s, AbstractStatus(o)' = s,
         \A q \in Op \ {o} : AbstractStatus(q)' = AbstractStatus(q)
  PROVE  AbstractSt' = [AbstractSt EXCEPT ![o] = s]
BY Zenon DEF AbstractSt

\* A step that decides nothing moves none.
LEMMA StatusSame ==
  ASSUME \A q \in Op : AbstractStatus(q)' = AbstractStatus(q)
  PROVE  AbstractSt' = AbstractSt
BY Zenon DEF AbstractSt

\* start() in its lock, and a start() that finds the stop requested.
LEMMA StartRefines ==
  ASSUME IndInv, NEW o \in Op,
         StartStopped(o) \/ StartClosed(o) \/ StartTake(o) \/ StartEnqueue(o)
  PROVE  Abstract!SemNext
<1>0. pc[o] \in {"idle", "checked"} /\ AbstractSt[o] = "idle" /\ result[o] = "none"
      /\ UNCHANGED job
  BY Zenon DEF StartStopped, StartClosed, StartTake, StartEnqueue, AbstractSt, AbstractStatus, IndInv,
         StartInv, Linked
<1>1. \A q \in Op \ {o} : pc'[q] = pc[q] /\ result'[q] = result[q]
  BY Zenon, Shape DEF StartStopped, StartClosed, StartTake, StartEnqueue, Complete
<1>2. CASE UNCHANGED queue
  <2>1. \A q \in Op \ {o} : AbstractStatus(q)' = AbstractStatus(q)
    BY SMTT(30), <1>0, <1>1, <1>2, StatusStays DEF PopGranted, InJob
  <2>2. CASE StartStopped(o)
    <3>1. AbstractStatus(o)' = "stopped"
      BY Zenon, <2>2, Shape DEF StartStopped, Complete, AbstractStatus
    <3> QED BY Zenon, <1>0, <2>1, <2>2, <3>1, StatusMap
           DEF StartStopped, Abstract!SemNext, Abstract!Stop, Abstract!StopUnqueued, Abstract!Goto
  <2>3. CASE StartClosed(o)
    <3>1. AbstractStatus(o)' = "refused"
      BY Zenon, <2>3, Shape DEF StartClosed, AbstractStatus
    <3> QED BY Zenon, <1>0, <2>1, <2>3, <3>1, StatusMap
           DEF StartClosed, Abstract!SemNext, Abstract!Acquire, Abstract!AcquireClosed, Abstract!Goto
  <2>4. CASE StartTake(o)
    <3>1. AbstractStatus(o)' = "acquired"
      BY Zenon, <2>4, Shape DEF StartTake, AbstractStatus
    <3> QED BY Zenon, <1>0, <2>1, <2>4, <3>1, StatusMap
           DEF StartTake, Abstract!SemNext, Abstract!Acquire, Abstract!AcquireNow, Abstract!Goto
  <2>5. CASE StartEnqueue(o)
    BY <1>2, <2>5, Shape, AppendDistinct DEF StartEnqueue, Enqueue
  <2> QED BY SMTT(30), <2>2, <2>3, <2>4, <2>5
<1>3. CASE StartEnqueue(o)
  <2>1. queue' = Append(queue, o) /\ pc' = [pc EXCEPT ![o] = "enqueued"] /\ UNCHANGED result
    BY SMTT(30), <1>3 DEF StartEnqueue, Enqueue
  <2>0. IsInjective(queue) /\ o \notin Range(queue)
    BY Zenon, <1>0 DEF IndInv, QueueInv, Linked
  <2>2. Range(queue') = Range(queue) \cup {o}
    BY <2>0, <2>1, Shape, AppendDistinct
  <2>3. AbstractStatus(o)' = "waiting"
    BY SMTT(30), <1>0, <2>1, <2>2, Shape DEF AbstractStatus
  <2>4. \A q \in Op \ {o} : AbstractStatus(q)' = AbstractStatus(q)
    BY Zenon, <1>0, <1>1, <2>2, StatusStays DEF PopGranted, InJob
  <2> QED BY Zenon, <1>0, <1>3, <2>1, <2>3, <2>4, StatusMap
         DEF StartEnqueue, Abstract!SemNext, Abstract!Acquire, Abstract!AcquireQueue, Abstract!Goto
<1> QED BY Zenon, <1>2, <1>3 DEF StartStopped, StartClosed, StartTake

\* Every other step of start() and the requests to stop leave the statuses
\* alone: the fate was decided in the lock, or is not decided yet.
LEMMA QuietRefines ==
  ASSUME IndInv, NEW o \in Op,
         \/ StartCheck(o) \/ StartFinish(o) \/ Emplace(o) \/ EmplaceReturn(o) \/ StartReturn(o)
         \/ RequestStop(o) \/ CallbackLoad(o) \/ Destroy(o)
  PROVE  UNCHANGED <<permits, closed, queue, AbstractSt, issued, granted>>
<1>1. UNCHANGED <<permits, closed, queue, issued, granted, job>>
  <2>1. CASE Destroy(o)
    <3>1. o \notin Range(queue)
      BY ZenonT(60), <2>1 DEF Destroy, IndInv, QueueInv, FateInv
    <3>2. UNCHANGED queue
      BY ZenonT(60), <2>1, <3>1 DEF Destroy, Detach, Range
    <3> QED BY SMTT(30), <2>1, <3>2 DEF Destroy
  <2>2. CASE ~Destroy(o)
    BY ZenonT(60), <2>2 DEF StartCheck, StartFinish, Emplace, EmplaceReturn, StartReturn, RequestStop, CallbackLoad
  <2> QED BY Zenon, <2>1, <2>2
<1>2. \A q \in Op \ {o} : pc'[q] = pc[q] /\ result'[q] = result[q]
  BY ZenonT(60), Shape DEF StartCheck, StartFinish, Complete, Emplace, EmplaceReturn, StartReturn, RequestStop,
               CallbackLoad, Destroy
<1>3. \/ pc'[o] = pc[o] /\ result'[o] = result[o]
      \/ pc[o] \in Linked /\ pc'[o] \in Linked /\ result'[o] = result[o]
      \/ pc[o] \in {"idle", "checked"} /\ pc'[o] \in {"idle", "checked"}
      \/ pc[o] = "imm_true" /\ pc'[o] \in Linked /\ result'[o] = "true"
      \/ pc[o] = "imm_false" /\ pc'[o] \in Linked /\ result'[o] = "false"
  BY ZenonT(60), Shape DEF StartCheck, StartFinish, Complete, Emplace, EmplaceReturn, StartReturn, RequestStop,
               CallbackLoad, Destroy, Linked
<1>4. \A q \in Op : AbstractStatus(q)' = AbstractStatus(q)
  BY Zenon, <1>1, <1>2, <1>3, StatusStays DEF PopGranted, InJob
<1> QED BY Zenon, <1>1, <1>4, StatusSame

\* What the stop callback unlinks is stopped there and then.
LEMMA DetachRefines ==
  ASSUME IndInv, NEW o \in Op, CallbackDetach(o)
  PROVE  Abstract!SemNext \/ UNCHANGED <<permits, closed, queue, AbstractSt, issued, granted>>
<1>1. UNCHANGED <<permits, closed, issued, granted, pc, result, job>> /\ Detach(o)
  BY Zenon DEF CallbackDetach
<1>2. Range(queue') = Range(queue) \ {o}
  BY SMTT(30), <1>1, DetachShape
<1>3. \A q \in Op \ {o} : AbstractStatus(q)' = AbstractStatus(q)
  BY Zenon, <1>1, <1>2, StatusStays DEF PopGranted, InJob
<1>4. CASE o \in Range(queue)
  <2>1. PICK i \in DOMAIN queue : queue[i] = o /\ queue' = Unlink(queue, i)
    BY Zenon, <1>1, <1>4 DEF Detach
  <2>2. /\ result[o] = "none" /\ pc[o] \in Linked
        /\ \A t \in Thread : o \notin Range(job[t].ready)
    BY Zenon, <1>4 DEF IndInv, QueueInv
  <2>3. AbstractStatus(o)' = "stopped"
    BY Zenon, <1>1, <1>2, <2>2 DEF AbstractStatus, Linked, PopGranted, InJob
  <2>4. AbstractSt' = [AbstractSt EXCEPT ![o] = "stopped"]
    BY Zenon, <1>3, <2>3, StatusMap
  <2> QED BY Zenon, <1>1, <2>1, <2>4
         DEF Abstract!SemNext, Abstract!Stop, Abstract!StopQueued, Abstract!Goto, Abstract!Unlink, Unlink
<1>5. CASE o \notin Range(queue)
  <2>1. UNCHANGED queue
    BY SMTT(30), <1>1, <1>5 DEF Detach, Range
  <2>2. \A q \in Op : AbstractStatus(q)' = AbstractStatus(q)
    BY Zenon, <1>1, <2>1, StatusStays DEF PopGranted, InJob
  <2> QED BY Zenon, <1>1, <2>1, <2>2, StatusSame
<1> QED BY Zenon, <1>4, <1>5

\* finish_stopped() gives up an operation that was popped and not completed.
LEMMA FinishRefines ==
  ASSUME IndInv, NEW o \in Op, CallbackFinish(o)
  PROVE  Abstract!SemNext \/ UNCHANGED <<permits, closed, queue, AbstractSt, issued, granted>>
<1>1. UNCHANGED <<permits, closed, queue, issued, granted, pc, job>> /\ cb[o] = "cas"
  BY Zenon DEF CallbackFinish
<1>2. \A q \in Op \ {o} : result'[q] = result[q]
  BY SMTT(30), Shape DEF CallbackFinish, Complete
<1>3. \A q \in Op \ {o} : AbstractStatus(q)' = AbstractStatus(q)
  BY SMTT(30), <1>1, <1>2, StatusStays DEF PopGranted, InJob
<1>4. pc[o] \in Linked /\ o \notin Range(queue)
  BY Zenon, <1>1 DEF IndInv, StartInv, QueueInv
<1>5. CASE result[o] = "none"
  <2>1. AbstractStatus(o)' = "stopped"
    BY Zenon, <1>1, <1>4, <1>5, Shape DEF CallbackFinish, Complete, AbstractStatus, Linked
  <2>2. AbstractStatus(o) \in {"handed", "dropped", "stopped"}
    BY Zenon, <1>4, <1>5 DEF AbstractStatus, Linked
  <2>3. CASE AbstractStatus(o) = "stopped"
    <3>1. \A q \in Op : AbstractStatus(q)' = AbstractStatus(q)
      BY Zenon, <1>3, <2>1, <2>3
    <3> QED BY Zenon, <1>1, <3>1, StatusSame
  <2>4. CASE AbstractStatus(o) \in {"handed", "dropped"}
    <3>1. AbstractSt[o] \in {"idle", "handed", "dropped"}
      BY Zenon, <2>4 DEF AbstractSt
    <3>2. AbstractSt' = [AbstractSt EXCEPT ![o] = "stopped"]
      BY Zenon, <1>3, <2>1, StatusMap
    <3> QED BY Zenon, <1>1, <3>1, <3>2
           DEF Abstract!SemNext, Abstract!Stop, Abstract!StopUnqueued, Abstract!Goto
  <2> QED BY Zenon, <2>2, <2>3, <2>4
<1>6. CASE result[o] # "none"
  <2>1. UNCHANGED result
    BY Zenon, <1>6 DEF CallbackFinish
  <2>2. \A q \in Op : AbstractStatus(q)' = AbstractStatus(q)
    BY Zenon, <1>1, <2>1, StatusStays DEF PopGranted, InJob
  <2> QED BY <1>1, <2>2, StatusSame
<1> QED BY Zenon, <1>5, <1>6

\* release(n): the waiters it pops are handed their permits, in one step.
LEMMA ReleaseRefines ==
  ASSUME IndInv, NEW t \in Thread, NEW n \in 1..(MaxIssued - issued), Release(t, n)
  PROVE  Abstract!SemNext
<1> DEFINE k     == IF n < Len(queue) THEN n ELSE Len(queue)
           ready == SubSeq(queue, 1, k)
           rest  == SubSeq(queue, k + 1, Len(queue))
           next  == {queue[i] : i \in 1..k}
<1>1. /\ job[t].ready = <<>> /\ ~closed
      /\ queue' = rest
      /\ permits' = permits + (n - k)
      /\ job' = [job EXCEPT ![t] = [ready |-> ready, grant |-> TRUE]]
      /\ issued' = issued + n
      /\ granted' = granted \cup Range(ready)
      /\ UNCHANGED <<closed, pc, result>>
  BY Zenon DEF Release
<1>2. queue \in Seq(Op) /\ IsInjective(queue)
  BY Zenon, Shape DEF IndInv, QueueInv
<1>3. k \in 0..Len(queue)
  <2>1. issued \in Nat /\ Len(queue) \in Nat
    BY <1>2 DEF IndInv, TypeOK
  <2>2. n \in Nat
    BY <2>1, MaxIssuedIsNat
  <2> QED BY <2>1, <2>2
<1>4. /\ Range(ready) \cup Range(rest) = Range(queue)
      /\ Range(ready) \cap Range(rest) = {}
      /\ Range(ready) = next
  <2> HIDE DEF k
  <2> QED BY SMTT(30), <1>2, <1>3, SplitDistinct
<1>5. job'[t].ready = ready /\ job'[t].grant /\ \A u \in Thread \ {t} : job'[u] = job[u]
  BY Zenon, <1>1 DEF IndInv, TypeOK
<1> HIDE DEF ready, rest, k
<1>6. ASSUME NEW q \in Op, q \in next PROVE AbstractStatus(q)' = "handed"
  <2>1. pc[q] \in Linked /\ result[q] = "none"
    BY Zenon, <1>4, <1>6 DEF IndInv, QueueInv
  <2>2. q \notin Range(queue')
    BY SMTT(30), <1>1, <1>4, <1>6
  <2>3. PopGranted(q)'
    BY ZenonT(60), <1>4, <1>5, <1>6 DEF PopGranted
  <2> QED BY Zenon, <1>1, <2>1, <2>2, <2>3 DEF AbstractStatus, Linked
<1>7. ASSUME NEW q \in Op, q \notin next PROVE AbstractStatus(q)' = AbstractStatus(q)
  <2>1. q \in Range(queue') <=> q \in Range(queue)
    BY SMTT(30), <1>1, <1>4, <1>7
  <2>2. q \notin Range(job[t].ready) /\ q \notin Range(job'[t].ready)
    BY SMTT(30), <1>1, <1>4, <1>5, <1>7, EmptyFacts
  <2>3. (PopGranted(q)' <=> PopGranted(q)) /\ (InJob(q)' <=> InJob(q))
    BY Zenon, <1>5, <2>2 DEF PopGranted, InJob
  <2> QED BY Zenon, <1>1, <2>1, <2>3, StatusStays
<1>8. AbstractSt' = [q \in Op |-> IF q \in next THEN "handed" ELSE AbstractSt[q]]
  BY Zenon, <1>6, <1>7 DEF AbstractSt
<1>9. Abstract!Release(n)
  BY Zenon, <1>1, <1>4, <1>8 DEF Abstract!Release, k, rest
<1> QED BY Zenon, <1>9 DEF Abstract!SemNext

\* close(): the waiters it pops are dropped, in one step.
LEMMA CloseRefines ==
  ASSUME IndInv, NEW t \in Thread, Close(t)
  PROVE  Abstract!SemNext
<1>1. /\ job[t].ready = <<>> /\ ~closed /\ closed' = TRUE /\ permits' = 0 /\ queue' = <<>>
      /\ job' = [job EXCEPT ![t] = [ready |-> queue, grant |-> FALSE]]
      /\ UNCHANGED <<issued, granted, pc, result>>
  BY Zenon DEF Close
<1>2. job'[t].ready = queue /\ ~job'[t].grant /\ \A u \in Thread \ {t} : job'[u] = job[u]
  BY Zenon, <1>1 DEF IndInv, TypeOK
<1>3. Range(queue') = {} /\ Range(job[t].ready) = {}
  BY Zenon, <1>1, EmptyFacts
<1>4. ASSUME NEW q \in Op, q \in Range(queue)
      PROVE  AbstractStatus(q) = "waiting" /\ AbstractStatus(q)' = "dropped"
  <2>1. /\ pc[q] \in Linked /\ result[q] = "none"
        /\ \A u \in Thread : q \notin Range(job[u].ready)
    BY Zenon, <1>4 DEF IndInv, QueueInv
  <2>2. ~PopGranted(q)' /\ InJob(q)'
    BY SMTT(30), <1>2, <1>4, <2>1 DEF PopGranted, InJob
  <2> QED BY Zenon, <1>1, <1>3, <1>4, <2>1, <2>2 DEF AbstractStatus, Linked
<1>5. ASSUME NEW q \in Op, q \notin Range(queue)
      PROVE  AbstractStatus(q) # "waiting" /\ AbstractStatus(q)' = AbstractStatus(q)
  <2>1. AbstractStatus(q) # "waiting"
    BY SMTT(30), <1>5 DEF AbstractStatus
  <2>2. (PopGranted(q)' <=> PopGranted(q)) /\ (InJob(q)' <=> InJob(q))
    BY Zenon, <1>2, <1>3, <1>5 DEF PopGranted, InJob
  <2> QED BY Zenon, <1>1, <1>3, <1>5, <2>1, <2>2, StatusStays
<1>6. AbstractSt' = [q \in Op |-> IF AbstractSt[q] = "waiting" THEN "dropped" ELSE AbstractSt[q]]
  BY Zenon, <1>4, <1>5 DEF AbstractSt
<1> QED BY Zenon, <1>1, <1>6 DEF Abstract!SemNext, Abstract!Close

\* Popping the head of a job concerns the head alone.
LEMMA HeadPopped ==
  ASSUME IndInv, NEW t \in Thread, job[t].ready # <<>>, NextWaiter(t),
         NEW q \in Op, q # Head(job[t].ready)
  PROVE  (PopGranted(q)' <=> PopGranted(q)) /\ (InJob(q)' <=> InJob(q))
<1>1. job \in [Thread -> [ready : Seq(Op), grant : BOOLEAN]]
  BY Zenon DEF IndInv, TypeOK
<1>2. /\ job'[t].ready = Tail(job[t].ready) /\ job'[t].grant = job[t].grant
      /\ \A u \in Thread \ {t} : job'[u] = job[u]
  BY SMTT(30), <1>1 DEF NextWaiter
<1>3. Range(Tail(job[t].ready)) = Range(job[t].ready) \ {Head(job[t].ready)}
  BY Zenon, JobShape, TailDistinct
<1> QED BY SMTT(30), <1>2, <1>3 DEF PopGranted, InJob

\* The completions outside the lock: winning the flag delivers the fate the
\* pop decided, and everything else was decided before.
LEMMA CompleteRefines ==
  ASSUME IndInv, NEW t \in Thread, CompleteMark(t) \/ CompleteFinish(t)
  PROVE  Abstract!SemNext \/ UNCHANGED <<permits, closed, queue, AbstractSt, issued, granted>>
<1>1. UNCHANGED <<permits, closed, queue, issued, granted, pc>>
  BY SMTT(30) DEF CompleteMark, CompleteFinish
<1>2. JobSound(t) /\ job[t].ready # <<>>
  BY ZenonT(60) DEF IndInv, JobInv, JobSound, CompleteMark, CompleteFinish
<1>0. PICK o \in Op : o = Head(job[t].ready)
  BY Zenon, <1>2, JobShape
<1>3. o \in Range(job[t].ready) /\ pc[o] \in Linked
  BY Zenon, <1>0, <1>2, JobShape DEF JobSound
<1>4. CASE CompleteMark(t) /\ result[o] = "none"
  <2>1. /\ result' = [result EXCEPT ![o] = IF job[t].grant THEN "true" ELSE "false"]
        /\ UNCHANGED job
    BY ZenonT(60), <1>0, <1>4 DEF CompleteMark
  <2>2. o \notin Range(queue) /\ \A u \in Thread \ {t} : o \notin Range(job[u].ready)
    BY Zenon, <1>2, <1>3 DEF IndInv, QueueInv, JobSound
  <2>3. \A q \in Op \ {o} : AbstractStatus(q)' = AbstractStatus(q)
    BY Zenon, <1>1, <2>1, Shape, StatusStays DEF PopGranted, InJob
  <2>4. CASE job[t].grant
    <3>1. AbstractStatus(o) = "handed"
      BY Zenon, <1>3, <1>4, <2>2, <2>4 DEF AbstractStatus, PopGranted, Linked
    <3>2. AbstractStatus(o)' = "acquired"
      BY Zenon, <1>1, <1>3, <2>1, <2>4, Shape DEF AbstractStatus, Linked
    <3>3. AbstractSt' = [AbstractSt EXCEPT ![o] = "acquired"] /\ AbstractSt[o] = "handed"
      BY Zenon, <1>3, <2>3, <3>1, <3>2, StatusMap DEF AbstractSt
    <3> QED BY Zenon, <1>1, <1>3, <3>3 DEF Abstract!SemNext, Abstract!Deliver, Abstract!Goto
  <2>5. CASE ~job[t].grant
    <3>1. AbstractStatus(o) = "dropped"
      BY Zenon, <1>3, <1>4, <2>2, <2>5 DEF AbstractStatus, PopGranted, InJob, Linked
    <3>2. AbstractStatus(o)' = "refused"
      BY Zenon, <1>1, <1>3, <2>1, <2>5, Shape DEF AbstractStatus, Linked
    <3>3. AbstractSt' = [AbstractSt EXCEPT ![o] = "refused"] /\ AbstractSt[o] = "dropped"
      BY Zenon, <1>3, <2>3, <3>1, <3>2, StatusMap DEF AbstractSt
    <3> QED BY Zenon, <1>1, <1>3, <3>3 DEF Abstract!SemNext, Abstract!Deliver, Abstract!Goto
  <2> QED BY SMTT(30), <2>4, <2>5
<1>5. CASE NextWaiter(t) /\ UNCHANGED result /\ result[o] # "none"
  <2>1. \A q \in Op \ {o} : AbstractStatus(q)' = AbstractStatus(q)
    BY ZenonT(60), <1>0, <1>1, <1>2, <1>5, HeadPopped, StatusStays
  <2>2. AbstractStatus(o)' = AbstractStatus(o)
    BY Zenon, <1>1, <1>5, StatusStays
  <2>3. \A q \in Op : AbstractStatus(q)' = AbstractStatus(q)
    BY SMTT(30), <2>1, <2>2
  <2> QED BY SMTT(30), <1>1, <2>3, StatusSame
<1>6. CompleteFinish(t) => NextWaiter(t) /\ UNCHANGED result /\ result[o] # "none"
  BY ZenonT(60), <1>0, <1>2 DEF CompleteFinish, JobSound
<1>7. CompleteMark(t) /\ result[o] # "none" => NextWaiter(t) /\ UNCHANGED result
  BY Zenon, <1>0 DEF CompleteMark
<1> QED BY SMTT(30), <1>4, <1>5, <1>6, <1>7

\* Nothing has happened yet on either level.
LEMMA InitRefines == Init => Abstract!SemInit
BY Zenon DEF Init, Abstract!SemInit, AbstractSt, AbstractStatus

\* Every step is a step of Semaphore or none.
LEMMA NextRefines ==
  ASSUME IndInv, [Next]_vars
  PROVE  [Abstract!SemNext]_(Abstract!semVars)
<1> DEFINE Same == UNCHANGED <<permits, closed, queue, AbstractSt, issued, granted>>
<1>1. CASE UNCHANGED vars
  <2>1. \A q \in Op : AbstractStatus(q)' = AbstractStatus(q)
    BY Zenon, <1>1, StatusStays DEF PopGranted, InJob
  <2> QED BY SMTT(30), <1>1, <2>1, StatusSame DEF Abstract!semVars
<1>2. ASSUME NEW o \in Op,
             \/ StartStopped(o) \/ StartCheck(o) \/ StartStep(o)
             \/ RequestStop(o) \/ CallbackStep(o) \/ Destroy(o)
      PROVE  Abstract!SemNext \/ Same
  <2> HIDE DEF Same
  <2>1. \/ StartStopped(o) \/ StartClosed(o) \/ StartTake(o) \/ StartEnqueue(o)
        \/ StartCheck(o) \/ StartFinish(o) \/ Emplace(o) \/ EmplaceReturn(o) \/ StartReturn(o)
        \/ RequestStop(o) \/ CallbackLoad(o) \/ Destroy(o)
        \/ CallbackDetach(o) \/ CallbackFinish(o)
    BY Zenon, <1>2 DEF StartStep, CallbackStep
  <2> QED BY Zenon, <2>1, StartRefines, QuietRefines, DetachRefines, FinishRefines DEF Same
<1>3. ASSUME NEW t \in Thread,
             \/ \E n \in 1..(MaxIssued - issued) : Release(t, n)
             \/ Close(t) \/ CompleteStep(t)
      PROVE  Abstract!SemNext \/ Same
  BY Zenon, <1>3, ReleaseRefines, CloseRefines, CompleteRefines DEF CompleteStep
<1> QED BY Zenon, <1>1, <1>2, <1>3 DEF Next, Abstract!semVars

-----------------------------------------------------------------------------
LOCAL INSTANCE FiniteSetTheorems

\* The copies of IsFiniteSet and Cardinality that the library comes with are the
\* ones of SequenceLemmas.
LEMMA CountsAgree == \A S : (Finite(S) <=> IsFiniteSet(S)) /\ Count(S) = Cardinality(S)
<1>1. \A S : Finite(S) <=> IsFiniteSet(S)
  BY Zenon, CountsByDefinition DEF IsFiniteSet
<1>2. \A S : Count(S) = Cardinality(S)
  BY Zenon, CountsByDefinition DEF Cardinality
<1> QED BY Zenon, <1>1, <1>2

\* The facts about finite sets hold.
LEMMA CountFactsHold == CountFacts
<1>1. Finite({}) /\ Count({}) = 0 /\ \A S : Finite(S) => Count(S) \in Nat
  BY ZenonT(60), CountsAgree, FS_EmptySet, FS_CardinalityType
<1>2. \A S, x : Finite(S) /\ x \notin S => Finite(S \cup {x}) /\ Count(S \cup {x}) = Count(S) + 1
  BY Zenon, CountsAgree, FS_AddElement
<1>3. \A S, x : Finite(S) /\ x \in S => Finite(S \ {x}) /\ Count(S \ {x}) = Count(S) - 1
  BY Zenon, CountsAgree, FS_RemoveElement
<1>4. \A S, T : Finite(S) /\ T \subseteq S => Finite(T) /\ Count(T) <= Count(S)
  BY Zenon, CountsAgree, FS_Subset
<1>5. \A S, T : Finite(S) /\ Finite(T) =>
                  Finite(S \cup T) /\ Count(S \cup T) = Count(S) + Count(T) - Count(S \cap T)
  BY Zenon, CountsAgree, FS_Union
<1> QED BY ZenonT(60), <1>1, <1>2, <1>3, <1>4, <1>5, CountFactsFollow

\* An injective list has as many elements as positions.
LEMMA RangeCountHolds == RangeCount
<1>1. ASSUME NEW n \in Nat, NEW R, NEW s, R = {s[i] : i \in 1..n},
             \A i, j \in 1..n : s[i] = s[j] => i = j
      PROVE  Finite(R) /\ Count(R) = n
  <2> DEFINE f == [i \in 1..n |-> s[i]]
  <2>1. f \in Bijection(1..n, R)
    BY Zenon, <1>1 DEF Bijection, Injection, Surjection, IsInjective
  <2>2. ExistsBijection(1..n, R)
    BY Zenon, <2>1 DEF ExistsBijection
  <2>3. IsFiniteSet(1..n) /\ Cardinality(1..n) = IF 1 > n THEN 0 ELSE n - 1 + 1
    BY SMTT(30), FS_Interval
  <2>4. Cardinality(1..n) = n
    BY <2>3
  <2>5. IsFiniteSet(R) /\ Cardinality(R) = n
    BY ZenonT(60), <2>2, <2>3, <2>4, FS_Bijection
  <2> QED BY Zenon, <2>5, CountsAgree
<1> QED BY Zenon, <1>1, ListNumbers DEF NumberedCount

-----------------------------------------------------------------------------
(* The theorems. *)

\* The inductive invariant holds in every reachable state, whatever the
\* number of acquires, of releasing or closing threads and of permits.
THEOREM InductiveInvariant == Spec => []IndInv
<1>1. Init => IndInv
  BY Zenon, InitInd, CountFactsHold
<1>2. IndInv /\ [Next]_vars => IndInv'
  BY Zenon, NextInd, CountFactsHold, RangeCountHolds
<1> QED BY <1>1, <1>2, PTL DEF Spec

\* permits_ never goes negative and every field keeps its type through any
\* interleaving of start(), stop callbacks, release(), close() and destructors.
THEOREM TypeCorrect == Spec => []TypeOK
<1>1. IndInv => TypeOK
  BY Zenon DEF IndInv
<1> QED BY <1>1, InductiveInvariant, PTL

\* The intrusive queue never links an operation twice, nor one that was
\* completed, destroyed or popped.
THEOREM QueueIsSound == Spec => []QueueSound
<1>1. IndInv => QueueSound
  <2> SUFFICES ASSUME IndInv PROVE QueueSound
    BY Zenon
  <2> QED BY Zenon, Shape DEF IndInv, QueueInv, FateInv, QueueSound, InJob
<1> QED BY <1>1, InductiveInvariant, PTL

\* No acquire waits beside a free permit, and close() leaves nothing behind.
THEOREM NoPermitIdles == Spec => []NoIdlePermit
<1>1. IndInv => NoIdlePermit
  BY ZenonT(60) DEF IndInv, PermitInv
<1> QED BY <1>1, InductiveInvariant, PTL

\* release() and start() never duplicate a permit or drop one while the
\* semaphore is open.
THEOREM PermitsAreConserved == Spec => []PermitsConserved
<1>1. IndInv => PermitsConserved
  BY ZenonT(60) DEF IndInv, PermitInv
<1> QED BY <1>1, InductiveInvariant, PTL

\* set_value(true) is sent only on a permit assigned to that acquire.
THEOREM TrueIsGranted == Spec => []TrueMeansGranted
<1>1. IndInv => TrueMeansGranted
  BY Zenon DEF IndInv, FateInv, TrueMeansGranted
<1> QED BY <1>1, InductiveInvariant, PTL

\* An operation whose start() has returned and that lost no race against a
\* stop request is never touched after its destructor.
THEOREM DestroyedStaysUntouched == Spec => NoTouchAfterDestroy
<1> DEFINE Untouched == \A o \in late' \ late : result[o] = "stopped" \/ pc[o] # "started"
<1>1. ASSUME IndInv, [Next]_vars PROVE Untouched \/ UNCHANGED vars
  <2>1. CASE UNCHANGED late
    BY SMTT(30), <2>1
  <2>2. ASSUME NEW o \in Op, Emplace(o) \/ EmplaceReturn(o) \/ StartReturn(o) PROVE Untouched
    BY Zenon, <2>2 DEF Emplace, EmplaceReturn, StartReturn, Touch
  <2>3. ASSUME NEW o \in Op, CallbackStep(o) PROVE Untouched
    <3>1. cb[o] # "none" /\ Touch(o)
      BY Zenon, <2>3 DEF CallbackStep, CallbackLoad, CallbackDetach, CallbackFinish
    <3>2. o \in destroyed => pc[o] # "started"
      BY ZenonT(60), <1>1, <3>1 DEF IndInv, CallbackInv
    <3> QED BY SMTT(30), <3>1, <3>2 DEF Touch
  <2>4. ASSUME NEW t \in Thread, CompleteStep(t) PROVE Untouched
    <3> DEFINE h == Head(job[t].ready)
    <3>1. JobSound(t) /\ Touch(h)
      BY ZenonT(60), <1>1, <2>4 DEF CompleteStep, CompleteMark, CompleteFinish, IndInv, JobInv
    <3>2. h \in destroyed => result[h] = "stopped"
      <4>1. h \in destroyed => h \in delivered /\ result[h] # "none"
        BY SMTT(30), <1>1 DEF IndInv, FateInv
      <4>2. CASE CompleteMark(t)
        BY ZenonT(60), <1>1, <3>1, <4>1, <4>2, JobShape DEF CompleteMark, JobSound
      <4>3. CASE CompleteFinish(t)
        BY ZenonT(60), <3>1, <4>1, <4>3 DEF CompleteFinish, JobSound
      <4> QED BY ZenonT(60), <2>4, <4>2, <4>3 DEF CompleteStep
    <3> HIDE DEF h
    <3> QED BY SMTT(30), <3>1, <3>2 DEF Touch
  <2>5. ASSUME NEW o \in Op,
               StartStopped(o) \/ StartCheck(o) \/ StartStep(o) \/ RequestStop(o) \/ Destroy(o)
        PROVE  UNCHANGED late \/ Emplace(o) \/ EmplaceReturn(o) \/ StartReturn(o)
    BY ZenonT(60), <2>5 DEF StartStopped, StartCheck, StartStep, RequestStop, Destroy, StartClosed, StartTake,
                StartEnqueue, Enqueue, StartFinish
  <2>6. ASSUME NEW t \in Thread, Close(t) \/ \E n \in 1..(MaxIssued - issued) : Release(t, n)
        PROVE  UNCHANGED late
    BY Zenon, <2>6 DEF Close, Release
  <2> HIDE DEF Untouched
  <2> QED BY ZenonT(60), <1>1, <2>1, <2>2, <2>3, <2>4, <2>5, <2>6 DEF Next
<1> QED BY <1>1, InductiveInvariant, PTL DEF Spec, NoTouchAfterDestroy

\* The semaphore with its locks, flags and callbacks implements Semaphore: what
\* a sequence of start(), stop requests, release() and close() does to permits,
\* queue and outcomes is what those calls would do if each were atomic.
THEOREM SemaphoreImplemented == Spec => Refines
<1>1. Init => Abstract!SemInit
  BY Zenon, InitRefines
<1>2. IndInv /\ [Next]_vars => [Abstract!SemNext]_(Abstract!semVars)
  BY Zenon, NextRefines
<1> QED BY <1>1, <1>2, InductiveInvariant, PTL DEF Spec, Refines, Abstract!SemSpec
=============================================================================
