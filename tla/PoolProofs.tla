----------------------------- MODULE PoolProofs -----------------------------
(***************************************************************************)
(* What the SQL and the Redis pool promise for any number of connections,  *)
(* requests and calls of close(): a connection is never handed out twice,  *)
(* indices do not run out while there are permits, permits are not lost,   *)
(* the busy_ flag has one owner, and the end of close() tells the truth.   *)
(* PoolInv, CapacityInv, GuardInv and WalkInv are inductive for the steps  *)
(* the two pools share; the lemmas on leases and on commands make SqlInv   *)
(* and RedisInv inductive.  The theorems are at the end.                   *)
(***************************************************************************)
EXTENDS SqlPool, RedisPool, SequenceLemmas

USE DEF vars, semVars, poolVars, reqVars, connVars, closeVars, Step, Finish, Goto

\* What the types say, one variable at a time.
LEMMA PoolShape ==
  ASSUME PoolInv
  PROVE  /\ permits \in Nat /\ closed \in BOOLEAN /\ waiting \in Seq(Op)
         /\ st \in [Op -> Status] /\ issued \in Nat /\ granted \in SUBSET Op
         /\ available \in Seq(Index) /\ poolClosed \in BOOLEAN
         /\ pc \in [Op -> PC] /\ idx \in [Op -> 0..N] /\ outcome \in [Op -> Outcome]
         /\ open \in SUBSET Index /\ busy \in SUBSET Index
         /\ cpc \in [Closer -> {"idle", "sem", "next", "closing", "done", "failed"}]
         /\ cpos \in [Closer -> 1..(N + 1)]
BY Zenon DEF PoolInv, PoolTypeOK, SemTypeOK

\* Sets of requests that only shrink stay finite and get no larger.
LEMMA CountShrinks ==
  ASSUME CountFacts, NEW S, IsFiniteSet(S), NEW T \in SUBSET S
  PROVE  IsFiniteSet(T) /\ Cardinality(T) \in Nat /\ Cardinality(S) \in Nat
         /\ Cardinality(T) <= Cardinality(S)
BY Zenon DEF CountFacts, SubsetCount, NatCount

\* A step that entitles nobody, pushes nothing and takes nothing keeps
\* CountInv.
LEMMA CountKept ==
  ASSUME CountFacts, PoolInv, Entitled' \subseteq Entitled, Signalling' \subseteq Signalling,
         permits' \in Nat, permits' <= permits,
         available' = available \/ poolClosed', poolClosed => poolClosed'
  PROVE  CountInv'
<1>1. /\ IsFiniteSet(Entitled') /\ Cardinality(Entitled') <= Cardinality(Entitled)
      /\ Cardinality(Entitled') \in Nat /\ Cardinality(Entitled) \in Nat
      /\ IsFiniteSet(Signalling') /\ Cardinality(Signalling') <= Cardinality(Signalling)
      /\ Cardinality(Signalling') \in Nat /\ Cardinality(Signalling) \in Nat
  BY Zenon, CountShrinks DEF PoolInv, CountInv
<1>2. ASSUME ~poolClosed'
      PROVE  permits' + Cardinality(Entitled') + Cardinality(Signalling') <= Len(available')
  <2>1. /\ permits + Cardinality(Entitled) + Cardinality(Signalling) <= Len(available)
        /\ available' = available
    BY Zenon, <1>2 DEF PoolInv, CountInv
  <2>2. permits \in Nat /\ Len(available) \in Nat
    BY SMTT(30), PoolShape
  <2> QED BY SMTT(30), <1>1, <2>1, <2>2
<1> QED BY Zenon, <1>1, <1>2 DEF CountInv

\* The pool as create() leaves it.
LEMMA PoolInitInv ==
  ASSUME CountFacts, PoolInit
  PROVE  PoolInv
<1> USE DEF PoolInit
<1>1. N \in Nat \ {0}
  BY Zenon, PoolAssumption
<1>2. available \in Seq(Index) /\ Len(available) = N /\ IsInjective(available)
  BY SMTT(30), <1>1 DEF Index, IsInjective
<1>3. PoolTypeOK
  <2>1. SemTypeOK
    BY Zenon, <1>1, EmptyFacts DEF SemTypeOK, Status
  <2>2. 0 \in 0..N /\ 1 \in 1..(N + 1)
    BY SMTT(30), <1>1
  <2>3. /\ idx \in [Op -> 0..N] /\ cpos \in [Closer -> 1..(N + 1)]
        /\ pc \in [Op -> PC] /\ outcome \in [Op -> Outcome]
    BY Zenon, <2>2 DEF PC, Outcome
  <2> QED BY Zenon, <1>2, <2>1, <2>3 DEF PoolTypeOK
<1>4. SemInv
  BY Zenon, EmptyFacts DEF SemInv
<1>5. Holders = {} /\ Entitled = {} /\ Signalling = {}
  BY Zenon DEF Holders, Entitled, Signalling, Holding, Checking, Using
<1>6. LeaseInv
  BY Zenon, <1>2, <1>5 DEF LeaseInv, LeaseExclusive
<1>7. CountInv
  BY SMTT(30), <1>1, <1>2, <1>5 DEF CountInv, CountFacts, EmptyCount
<1> QED BY Zenon, <1>3, <1>4, <1>6, <1>7 DEF PoolInv, NoInternalError

-----------------------------------------------------------------------------
(* Steps of a request that holds an index. *)

\* A request that goes on holding its index, or stops for good with it,
\* changes nothing that the invariant relates.
LEMMA HoldingInv ==
  ASSUME CountFacts, PoolInv, NEW r \in Op, pc[r] \in Holding,
         NEW l \in Holding \cup {"done"}, pc' = [pc EXCEPT ![r] = l],
         \/ UNCHANGED outcome
         \/ \E x \in Outcome \ {"internal"} : outcome' = [outcome EXCEPT ![r] = x],
         open' \in SUBSET Index, busy' \in SUBSET Index,
         UNCHANGED <<semVars, poolVars, idx, closeVars>>
  PROVE  PoolInv'
<1>1. l \in PC /\ l \notin {"won", "taking", "signalling"}
      /\ pc[r] \notin {"won", "taking", "signalling"}
  BY Zenon DEF PC, Holding, Checking, Using
<1>2. pc \in [Op -> PC] /\ pc' \in [Op -> PC] /\ \A q \in Op \ {r} : pc'[q] = pc[q]
  BY Zenon, <1>1, PoolShape
<1>3. /\ outcome' \in [Op -> Outcome]
      /\ NoInternalError'
  BY Zenon, PoolShape DEF PoolInv, NoInternalError
<1>4. PoolTypeOK'
  BY Zenon, <1>2, <1>3, PoolShape DEF PoolTypeOK, SemTypeOK
<1>5. Entitled' = Entitled /\ Signalling' = Signalling
  BY Zenon, <1>1, <1>2 DEF Entitled, Signalling
<1>6. Holders' \subseteq Holders
  BY Zenon, <1>2 DEF Holders
<1>7. SemInv'
  BY Zenon, <1>1, <1>2 DEF PoolInv, SemInv
<1>8. LeaseInv'
  BY Zenon, <1>6 DEF PoolInv, LeaseInv, LeaseExclusive
<1>9. CountInv'
  BY SMTT(30), <1>5, PoolShape, CountKept
<1> QED BY Zenon, <1>3, <1>4, <1>7, <1>8, <1>9 DEF PoolInv

\* ensure_healthy keeps it.
LEMMA HealthInv ==
  ASSUME CountFacts, PoolInv, NEW r \in Op, HealthStep(r)
  PROVE  PoolInv'
<1>1. pc[r] \in Checking /\ UNCHANGED <<semVars, poolVars, idx, closeVars>>
  BY Zenon DEF HealthStep, CheckOpen, HealthQueryEnds, ReopenClose, ReopenClosed, ReopenOpen,
         ReopenEnds, Checking
<1>2. idx[r] \in Index /\ r \in Holders
  BY Zenon, <1>1 DEF PoolInv, LeaseInv, Holders, Holding
<1>3. open' \in SUBSET Index /\ busy' \in SUBSET Index
  BY Zenon, <1>2, PoolShape DEF HealthStep, CheckOpen, HealthQueryEnds, ReopenClose, ReopenClosed,
         ReopenOpen, ReopenEnds, BeginGuarded, EndGuarded
<1>4. \E l \in Holding \cup {"done"} :
        /\ pc' = [pc EXCEPT ![r] = l]
        /\ \/ UNCHANGED outcome
           \/ \E x \in Outcome \ {"internal"} : outcome' = [outcome EXCEPT ![r] = x]
  BY Zenon DEF HealthStep, CheckOpen, HealthQueryEnds, ReopenClose, ReopenClosed,
         ReopenOpen, ReopenEnds, BeginGuarded, EndGuarded, Holding, Checking, Using, Outcome
<1> QED BY Zenon, <1>1, <1>3, <1>4, HoldingInv DEF Holding

-----------------------------------------------------------------------------
(* Steps of acquire_index. *)

\* A step of the semaphore and of where r is in acquire_index keeps what does
\* not concern the waiters and the counts.
LEMMA AcquiringInv ==
  ASSUME CountFacts, PoolInv, NEW r \in Op, pc[r] \notin Holding,
         NEW l \in PC \ Holding, pc' = [pc EXCEPT ![r] = l],
         \/ UNCHANGED outcome
         \/ \E x \in Outcome \ {"internal"} : outcome' = [outcome EXCEPT ![r] = x],
         UNCHANGED <<idx, poolVars, connVars, closeVars>>, SemTypeOK', SemInv', CountInv'
  PROVE  PoolInv'
<1>1. pc \in [Op -> PC] /\ pc' \in [Op -> PC] /\ Holders' = Holders
  BY Zenon, PoolShape DEF Holders
<1>2. /\ outcome' \in [Op -> Outcome]
      /\ NoInternalError'
  BY Zenon, PoolShape DEF PoolInv, NoInternalError
<1>3. PoolTypeOK'
  BY Zenon, <1>1, <1>2, PoolShape DEF PoolTypeOK
<1>4. LeaseInv'
  BY Zenon, <1>1 DEF PoolInv, LeaseInv, LeaseExclusive
<1> QED BY Zenon, <1>2, <1>3, <1>4 DEF PoolInv

\* Queueing keeps it.
LEMMA QueueingInv ==
  ASSUME CountFacts, PoolInv, NEW r \in Op, pc[r] = "idle", AcquireQueue(r),
         pc' = [pc EXCEPT ![r] = "acquiring"],
         UNCHANGED <<idx, outcome, poolVars, connVars, closeVars>>
  PROVE  PoolInv'
<1>1. /\ st[r] = "idle" /\ waiting' = Append(waiting, r) /\ st' = [st EXCEPT ![r] = "waiting"]
      /\ UNCHANGED <<permits, closed, issued, granted>>
  BY Zenon DEF AcquireQueue
<1>2. /\ waiting \in Seq(Op) /\ IsInjective(waiting) /\ Range(waiting) \subseteq Op
      /\ r \notin Range(waiting)
  BY Zenon, <1>1, PoolShape, RangeByPosition DEF PoolInv, SemInv
<1>3. /\ waiting' \in Seq(Op) /\ IsInjective(waiting') /\ Range(waiting') = Range(waiting) \cup {r}
  BY <1>1, <1>2, AppendDistinct
<1>4. /\ st' \in [Op -> Status] /\ st'[r] = "waiting" /\ \A q \in Op \ {r} : st'[q] = st[q]
      /\ pc' \in [Op -> PC] /\ pc'[r] = "acquiring" /\ \A q \in Op \ {r} : pc'[q] = pc[q]
  BY Zenon, <1>1, PoolShape DEF Status, PC
<1>5. SemTypeOK'
  BY Zenon, <1>1, <1>3, <1>4, PoolShape DEF SemTypeOK
<1>6. SemInv'
  BY Zenon, <1>1, <1>2, <1>3, <1>4 DEF PoolInv, SemInv
<1>7. Entitled' = Entitled /\ Signalling' = Signalling
  BY Zenon, <1>1, <1>4 DEF Entitled, Signalling
<1>8. CountInv'
  BY SMTT(30), <1>1, <1>7, PoolShape, CountKept
<1> QED BY Zenon, <1>5, <1>6, <1>8, AcquiringInv DEF PC, Holding, Checking, Using

\* Taking a permit at once, or being refused, keeps it.
LEMMA TakingInv ==
  ASSUME CountFacts, PoolInv, NEW r \in Op, pc[r] = "idle", AcquireNow(r) \/ AcquireClosed(r),
         NEW l \in {"won", "taking"}, pc' = [pc EXCEPT ![r] = l],
         UNCHANGED <<idx, outcome, poolVars, connVars, closeVars>>
  PROVE  PoolInv'
<1>1. /\ st[r] = "idle" /\ UNCHANGED <<closed, waiting, issued>>
      /\ \/ /\ permits > 0 /\ permits' = permits - 1 /\ granted' = granted \cup {r}
            /\ st' = [st EXCEPT ![r] = "acquired"]
         \/ UNCHANGED <<permits, granted>> /\ st' = [st EXCEPT ![r] = "refused"]
  BY Zenon DEF AcquireNow, AcquireClosed
<1>2. /\ st' \in [Op -> Status] /\ st'[r] \in {"acquired", "refused"}
      /\ \A q \in Op \ {r} : st'[q] = st[q]
      /\ pc' \in [Op -> PC] /\ pc'[r] = l /\ \A q \in Op \ {r} : pc'[q] = pc[q]
      /\ permits' \in Nat /\ permits' <= permits /\ granted' \in SUBSET Op
  <2>1. permits' \in Nat /\ permits' <= permits
    BY SMTT(30), <1>1, PoolShape
  <2>2. granted' \in SUBSET Op
    BY Zenon, <1>1, PoolShape
  <2>3. /\ st' \in [Op -> Status] /\ st'[r] \in {"acquired", "refused"}
        /\ \A q \in Op \ {r} : st'[q] = st[q]
    BY ZenonT(60), <1>1, PoolShape DEF Status
  <2>4. pc' \in [Op -> PC] /\ pc'[r] = l /\ \A q \in Op \ {r} : pc'[q] = pc[q]
    BY Zenon, PoolShape DEF PC
  <2> QED BY Zenon, <2>1, <2>2, <2>3, <2>4
<1>3. SemTypeOK'
  BY Zenon, <1>1, <1>2, PoolShape DEF SemTypeOK
<1>4. SemInv'
  <2>1. Range(waiting) \subseteq Op \ {r}
    BY Zenon, <1>1, PoolShape, RangeByPosition DEF PoolInv, SemInv
  <2> QED BY ZenonT(60), <1>1, <1>2, <2>1 DEF PoolInv, SemInv
<1>5. Signalling' = Signalling /\ r \notin Entitled
  BY Zenon, <1>1, <1>2 DEF Signalling, Entitled
<1>6. CountInv'
  <2>1. CASE UNCHANGED <<permits, granted>> /\ st' = [st EXCEPT ![r] = "refused"]
    <3>1. Entitled' = Entitled
      BY Zenon, <1>2, <1>1, <2>1, PoolShape DEF Entitled
    <3> QED BY Zenon, <1>2, <1>5, <2>1, <3>1, CountKept
  <2>2. CASE permits > 0 /\ permits' = permits - 1 /\ st' = [st EXCEPT ![r] = "acquired"]
    <3>1. Entitled' = Entitled \cup {r}
      BY Zenon, <1>2, <1>1, <2>2, PoolShape DEF Entitled
    <3>2. IsFiniteSet(Entitled') /\ Cardinality(Entitled') = Cardinality(Entitled) + 1
      BY Zenon, <1>5, <3>1 DEF CountFacts, AddCount, PoolInv, CountInv
    <3>3. Cardinality(Entitled) \in Nat /\ Cardinality(Signalling) \in Nat
          /\ permits \in Nat /\ Len(available) \in Nat
      BY SMTT(30), PoolShape DEF CountFacts, NatCount, PoolInv, CountInv
    <3>4. IsFiniteSet(Signalling') /\ Cardinality(Signalling') = Cardinality(Signalling)
      BY Zenon, <1>5 DEF PoolInv, CountInv
    <3> QED BY SMTT(30), <2>2, <3>2, <3>3, <3>4 DEF PoolInv, CountInv
  <2> QED BY Zenon, <1>1, <2>1, <2>2
<1> QED BY Zenon, <1>3, <1>4, <1>6, AcquiringInv DEF PC, Holding, Checking, Using

\* The completion of a popped waiter keeps it: a permit handed becomes one
\* acquired by the same request, or by one that gave up.
LEMMA DeliverInv ==
  ASSUME CountFacts, PoolInv, NEW r \in Op, Deliver(r), pc[r] \notin Holding,
         NEW l \in {"won", "taking", "done"}, pc' = [pc EXCEPT ![r] = l],
         \/ UNCHANGED outcome
         \/ \E x \in Outcome \ {"internal"} : outcome' = [outcome EXCEPT ![r] = x],
         UNCHANGED <<idx, poolVars, connVars, closeVars>>
  PROVE  PoolInv'
<1>1. /\ UNCHANGED <<permits, closed, waiting, issued, granted>>
      /\ \/ st[r] = "handed" /\ st' = [st EXCEPT ![r] = "acquired"]
         \/ st[r] = "dropped" /\ st' = [st EXCEPT ![r] = "refused"]
  BY Zenon DEF Deliver
<1>2. /\ st' \in [Op -> Status] /\ st'[r] \in {"acquired", "refused"}
      /\ \A q \in Op \ {r} : st'[q] = st[q]
      /\ pc' \in [Op -> PC] /\ pc'[r] = l /\ \A q \in Op \ {r} : pc'[q] = pc[q]
  BY ZenonT(60), <1>1, PoolShape DEF Status, PC
<1>3. SemTypeOK'
  BY Zenon, <1>1, <1>2, PoolShape DEF SemTypeOK
<1>4. SemInv'
  <2>1. Range(waiting) \subseteq Op \ {r}
    BY Zenon, <1>1, PoolShape, RangeByPosition DEF PoolInv, SemInv
  <2> QED BY ZenonT(60), <1>1, <1>2, <2>1 DEF PoolInv, SemInv
<1>5. Entitled' \subseteq Entitled /\ Signalling' \subseteq Signalling
  BY Zenon, <1>1, <1>2, PoolShape DEF Entitled, Signalling
<1>6. CountInv'
  BY SMTT(30), <1>1, <1>5, PoolShape, CountKept
<1> QED BY Zenon, <1>3, <1>4, <1>6, AcquiringInv DEF PC, Holding, Checking, Using

\* Giving up an acquire keeps it, whether its waiter was still queued, popped
\* or never started.
LEMMA StoppedInv ==
  ASSUME CountFacts, PoolInv, NEW r \in Op, Stop(r), pc[r] \notin Holding,
         pc' = [pc EXCEPT ![r] = "done"],
         NEW x \in Outcome \ {"internal"}, outcome' = [outcome EXCEPT ![r] = x],
         UNCHANGED <<idx, poolVars, connVars, closeVars>>
  PROVE  PoolInv'
<1>1. /\ UNCHANGED <<permits, closed, issued, granted>> /\ st' = [st EXCEPT ![r] = "stopped"]
      /\ \/ \E i \in DOMAIN waiting : waiting[i] = r /\ waiting' = Unlink(waiting, i)
         \/ st[r] # "waiting" /\ UNCHANGED waiting
  BY Zenon DEF Stop, StopQueued, StopUnqueued
<1>2. waiting \in Seq(Op) /\ IsInjective(waiting) /\ Range(waiting) \subseteq Op
  BY Zenon, PoolShape, RangeByPosition DEF PoolInv, SemInv
<1>3. waiting' \in Seq(Op) /\ IsInjective(waiting') /\ Range(waiting') \subseteq Range(waiting) \ {r}
  <2>1. CASE \E i \in DOMAIN waiting : waiting[i] = r /\ waiting' = Unlink(waiting, i)
    <3>1. PICK i \in DOMAIN waiting : waiting[i] = r /\ waiting' = Unlink(waiting, i)
      BY Zenon, <2>1
    <3> QED BY Zenon, <1>2, <3>1, UnlinkDistinct DEF Unlink
  <2>2. CASE st[r] # "waiting" /\ UNCHANGED waiting
    BY Zenon, <1>2, <2>2 DEF PoolInv, SemInv
  <2> QED BY Zenon, <1>1, <2>1, <2>2
<1>4. /\ st' \in [Op -> Status] /\ st'[r] = "stopped" /\ \A q \in Op \ {r} : st'[q] = st[q]
      /\ pc' \in [Op -> PC] /\ pc'[r] = "done" /\ \A q \in Op \ {r} : pc'[q] = pc[q]
  BY Zenon, <1>1, PoolShape DEF Status, PC
<1>5. SemTypeOK'
  BY Zenon, <1>1, <1>3, <1>4, PoolShape DEF SemTypeOK
<1>6. SemInv'
  BY Zenon, <1>1, <1>2, <1>3, <1>4 DEF PoolInv, SemInv
<1>7. Entitled' \subseteq Entitled /\ Signalling' \subseteq Signalling
  BY Zenon, <1>4 DEF Entitled, Signalling
<1>8. CountInv'
  BY SMTT(30), <1>1, <1>7, PoolShape, CountKept
<1> QED BY Zenon, <1>5, <1>6, <1>8, AcquiringInv DEF PC, Holding, Checking, Using

\* The timer, the caller and the joining of the two keep it: they move a
\* request that no index and no permit counts on.
LEMMA WaitingInv ==
  ASSUME CountFacts, PoolInv, NEW r \in Op, TimerWins(r) \/ CancelAcquire(r) \/ WonJoin(r)
  PROVE  PoolInv'
<1>1. /\ UNCHANGED <<semVars, idx, poolVars, connVars, closeVars>>
      /\ \/ pc[r] = "acquiring" /\ UNCHANGED outcome
            /\ \E m \in {"expired", "cancelled"} : pc' = [pc EXCEPT ![r] = m]
         \/ pc[r] = "won" /\ UNCHANGED outcome /\ pc' = [pc EXCEPT ![r] = "taking"]
         \/ pc[r] = "won" /\ outcome' = [outcome EXCEPT ![r] = "stopped"]
            /\ pc' = [pc EXCEPT ![r] = "done"]
  BY Zenon DEF TimerWins, CancelAcquire, WonJoin
<1>2. PICK l \in {"expired", "cancelled", "taking", "done"} : pc' = [pc EXCEPT ![r] = l]
  BY Zenon, <1>1
<1>3. /\ pc' \in [Op -> PC] /\ pc'[r] = l /\ \A q \in Op \ {r} : pc'[q] = pc[q]
      /\ l = "taking" => pc[r] = "won"
  BY Zenon, <1>1, <1>2, PoolShape DEF PC
<1>4. SemTypeOK' /\ SemInv'
  BY Zenon, <1>1, <1>3, PoolShape DEF PoolInv, SemTypeOK, SemInv
<1>5. Entitled' \subseteq Entitled /\ Signalling' \subseteq Signalling
  BY Zenon, <1>1, <1>3 DEF Entitled, Signalling
<1>6. CountInv'
  BY SMTT(30), <1>1, <1>5, PoolShape, CountKept
<1>7. pc[r] \notin Holding /\ l \in PC \ Holding
  BY Zenon, <1>1 DEF PC, Holding, Checking, Using
<1>8. UNCHANGED outcome \/ \E x \in Outcome \ {"internal"} : outcome' = [outcome EXCEPT ![r] = x]
  BY Zenon, <1>1 DEF Outcome
<1> QED BY Zenon, <1>1, <1>2, <1>4, <1>6, <1>7, <1>8, AcquiringInv

\* take_index keeps it: the permit of r is one of those CountInv counts, so
\* the deque is not empty, and its head is held by nobody.
LEMMA TakeIndexInv ==
  ASSUME CountFacts, PoolInv, NEW r \in Op, TakeIndex(r)
  PROVE  PoolInv'
<1>1. /\ pc[r] = "taking" /\ UNCHANGED <<semVars, poolClosed, connVars, closeVars>>
  BY Zenon DEF TakeIndex
<1>2. CASE st[r] = "refused" \/ poolClosed
  <2>1. /\ UNCHANGED <<idx, available>> /\ pc' = [pc EXCEPT ![r] = "done"]
        /\ outcome' = [outcome EXCEPT ![r] = "closed"]
    BY Zenon, <1>2 DEF TakeIndex
  <2>2. /\ pc' \in [Op -> PC] /\ pc'[r] = "done" /\ \A q \in Op \ {r} : pc'[q] = pc[q]
    BY Zenon, <2>1, PoolShape DEF PC
  <2>3. SemTypeOK' /\ SemInv'
    BY Zenon, <1>1, <2>1, <2>2, PoolShape DEF PoolInv, SemTypeOK, SemInv
  <2>4. Entitled' \subseteq Entitled /\ Signalling' \subseteq Signalling
    BY Zenon, <1>1, <2>2 DEF Entitled, Signalling
  <2>5. CountInv'
    BY SMTT(30), <1>1, <2>1, <2>4, PoolShape, CountKept
  <2>6. pc[r] \notin Holding /\ "done" \in PC \ Holding /\ "closed" \in Outcome \ {"internal"}
    BY Zenon, <1>1 DEF PC, Holding, Checking, Using, Outcome
  <2> QED BY Zenon, <1>1, <2>1, <2>3, <2>5, <2>6, AcquiringInv
<1>3. CASE ~(st[r] = "refused" \/ poolClosed)
  <2>1. r \in Entitled
    BY Zenon, <1>1, <1>3 DEF PoolInv, SemInv, Entitled
  <2>2. /\ IsFiniteSet(Entitled \ {r})
        /\ Cardinality(Entitled \ {r}) = Cardinality(Entitled) - 1
        /\ Cardinality(Entitled) \in Nat /\ Cardinality(Entitled) >= 1
    <3>1. IsFiniteSet(Entitled)
      BY Zenon DEF PoolInv, CountInv
    <3>2. IsFiniteSet(Entitled \ {r}) /\ Cardinality(Entitled \ {r}) \in Nat
          /\ Cardinality(Entitled \ {r}) = Cardinality(Entitled) - 1 /\ Cardinality(Entitled) \in Nat
      BY Zenon, <2>1, <3>1 DEF CountFacts, RemoveCount, NatCount
    <3> QED BY SMTT(30), <3>2
  <2>3. /\ permits + Cardinality(Entitled) + Cardinality(Signalling) <= Len(available)
        /\ permits \in Nat /\ Len(available) \in Nat /\ Cardinality(Signalling) \in Nat
    BY SMTT(30), <1>3, PoolShape DEF CountFacts, NatCount, PoolInv, CountInv
  <2>4. available # <<>>
    BY SMTT(30), <2>2, <2>3
  <2>5. /\ idx' = [idx EXCEPT ![r] = Head(available)] /\ available' = Tail(available)
        /\ pc' = [pc EXCEPT ![r] = "checking"] /\ UNCHANGED outcome
    BY Zenon, <1>3, <2>4 DEF TakeIndex
  <2>6. /\ available' \in Seq(Index) /\ IsInjective(available')
        /\ Len(available') = Len(available) - 1
        /\ Head(available) \in Range(available) /\ Range(available) \subseteq Index
        /\ Range(available') = Range(available) \ {Head(available)}
    <3>1. available \in Seq(Index) /\ IsInjective(available)
      BY Zenon, PoolShape DEF PoolInv, LeaseInv, LeaseExclusive
    <3>2. Len(Tail(available)) = Len(available) - 1
      BY SMTT(30), <3>1, <2>4
    <3> QED BY Zenon, <2>4, <2>5, <3>1, <3>2, TailDistinct, RangeByPosition
  <2> DEFINE h == Head(available)
  <2>7. Index \subseteq 0..N
    BY SMTT(30), PoolAssumption DEF Index
  <2> HIDE DEF h
  <2>8. /\ pc' \in [Op -> PC] /\ pc'[r] = "checking" /\ \A q \in Op \ {r} : pc'[q] = pc[q]
        /\ idx' \in [Op -> 0..N] /\ idx'[r] = h /\ \A q \in Op \ {r} : idx'[q] = idx[q]
    BY Zenon, <2>5, <2>6, <2>7, PoolShape DEF PC, Holding, Checking, h
  <2>9. PoolTypeOK'
    BY Zenon, <1>1, <2>5, <2>6, <2>8, PoolShape DEF PoolTypeOK, SemTypeOK
  <2>10. SemInv'
    BY Zenon, <1>1, <2>5, <2>8 DEF PoolInv, SemInv
  <2>11. Holders' = Holders \cup {r} /\ r \notin Holders
    BY Zenon, <1>1, <2>8 DEF Holders, Holding, Checking, Using
  <2>12. LeaseInv'
    <3>1. h \in Index /\ h \in Range(available) /\ h \notin Range(available')
      BY Zenon, <2>6 DEF h
    <3>2. \A q \in Holders : idx[q] # h /\ idx[q] \in Index /\ idx[q] \notin Range(available)
      BY Zenon, <3>1 DEF PoolInv, LeaseInv, LeaseExclusive
    <3>3. \A q \in Holders : idx'[q] = idx[q] /\ q # r
      BY Zenon, <2>8, <2>11 DEF Holders
    <3>4. \A q \in Holders' : idx'[q] \in Index /\ idx'[q] \notin Range(available')
      BY Zenon, <2>6, <2>8, <2>11, <3>1, <3>2, <3>3
    <3>5. \A p, q \in Holders' : idx'[p] = idx'[q] => p = q
      BY SMTT(30), <2>8, <2>11, <3>2, <3>3 DEF PoolInv, LeaseInv, LeaseExclusive
    <3> QED BY Zenon, <2>6, <3>4, <3>5 DEF LeaseInv, LeaseExclusive
  <2>13. CountInv'
    <3>1. Signalling' = Signalling /\ Entitled' = Entitled \ {r}
      BY ZenonT(60), <1>1, <1>3, <2>8 DEF Signalling, Entitled, PoolInv, SemInv
    <3>2. IsFiniteSet(Signalling)
      BY Zenon DEF PoolInv, CountInv
    <3> QED BY SMTT(30), <1>1, <2>2, <2>3, <2>6, <3>1, <3>2 DEF CountInv
  <2>14. NoInternalError'
    BY Zenon, <2>5 DEF PoolInv, NoInternalError
  <2> QED BY Zenon, <2>9, <2>10, <2>12, <2>13, <2>14 DEF PoolInv
<1> QED BY Zenon, <1>2, <1>3

\* Every step of acquire_index keeps it.
LEMMA AcquireInv ==
  ASSUME CountFacts, PoolInv, NEW r \in Op,
         \/ StartAcquire(r) \/ StartCancelled(r) \/ TimerWins(r) \/ CancelAcquire(r) \/ AcquireStep(r)
  PROVE  PoolInv'
<1>1. CASE StartAcquire(r)
  BY Zenon, <1>1, QueueingInv, TakingInv DEF StartAcquire
<1>2. CASE StartCancelled(r)
  BY Zenon, <1>2, StoppedInv DEF StartCancelled, Stop, Outcome, Holding, Checking, Using
<1>3. CASE TimerWins(r) \/ CancelAcquire(r) \/ WonJoin(r)
  BY Zenon, <1>3, WaitingInv
<1>4. CASE SemaphoreWins(r)
  BY Zenon, <1>4, DeliverInv DEF SemaphoreWins, Holding, Checking, Using
<1>5. CASE AcquireGivenUp(r)
  <2>1. /\ pc[r] \in {"expired", "cancelled"} /\ UNCHANGED <<idx, poolVars, connVars, closeVars>>
        /\ \/ /\ Stop(r) /\ pc' = [pc EXCEPT ![r] = "done"]
              /\ \E x \in {"timeout", "stopped"} : outcome' = [outcome EXCEPT ![r] = x]
           \/ /\ Deliver(r) /\ \E l \in {"taking", "done"} : pc' = [pc EXCEPT ![r] = l]
              /\ \/ UNCHANGED outcome
                 \/ \E x \in {"timeout", "stopped"} : outcome' = [outcome EXCEPT ![r] = x]
    BY Zenon, <1>5 DEF AcquireGivenUp
  <2>2. pc[r] \notin Holding /\ {"timeout", "stopped"} \subseteq Outcome \ {"internal"}
    BY Zenon, <2>1 DEF Outcome, Holding, Checking, Using
  <2> QED BY Zenon, <2>1, <2>2, StoppedInv, DeliverInv
<1>6. CASE TakeIndex(r)
  BY Zenon, <1>6, TakeIndexInv
<1> QED BY Zenon, <1>1, <1>2, <1>3, <1>4, <1>5, <1>6 DEF AcquireStep

-----------------------------------------------------------------------------
(* Steps of release_index and of close(). *)

\* Pushing the index back keeps it: the deque grows with the requests that
\* still have to signal.
LEMMA PushIndexInv ==
  ASSUME CountFacts, PoolInv, NEW r \in Op, PushIndex(r)
  PROVE  PoolInv'
<1>1. /\ pc[r] = "returning" /\ UNCHANGED <<semVars, poolClosed, outcome, connVars, closeVars>>
  BY Zenon DEF PushIndex
<1>2. r \in Holders /\ idx[r] \in Index
  BY Zenon, <1>1 DEF PoolInv, LeaseInv, Holders, Holding
<1>3. CASE poolClosed
  <2>1. pc' = [pc EXCEPT ![r] = "done"] /\ UNCHANGED <<available, idx>>
    BY Zenon, <1>3 DEF PushIndex
  <2> QED BY Zenon, <1>1, <2>1, PoolShape, HoldingInv DEF Holding
<1>4. CASE ~poolClosed
  <2>1. /\ available' = Append(available, idx[r]) /\ idx' = [idx EXCEPT ![r] = 0]
        /\ pc' = [pc EXCEPT ![r] = "signalling"]
    BY Zenon, <1>4 DEF PushIndex
  <2>2. /\ available' \in Seq(Index) /\ IsInjective(available')
        /\ Len(available') = Len(available) + 1 /\ Len(available) \in Nat
        /\ Range(available') = Range(available) \cup {idx[r]}
    <3>1. available \in Seq(Index) /\ IsInjective(available) /\ idx[r] \notin Range(available)
      BY Zenon, <1>2, PoolShape DEF PoolInv, LeaseInv, LeaseExclusive
    <3> QED BY SMTT(30), <1>2, <2>1, <3>1, AppendDistinct
  <2>3. /\ pc' \in [Op -> PC] /\ pc'[r] = "signalling" /\ \A q \in Op \ {r} : pc'[q] = pc[q]
        /\ idx' \in [Op -> 0..N] /\ \A q \in Op \ {r} : idx'[q] = idx[q]
    <3>1. 0 \in 0..N
      BY SMTT(30), PoolAssumption
    <3> QED BY Zenon, <2>1, <3>1, PoolShape DEF PC
  <2>4. PoolTypeOK'
    BY SMTT(30), <1>1, <2>2, <2>3, PoolShape DEF PoolTypeOK, SemTypeOK
  <2>5. SemInv'
    BY Zenon, <1>1, <2>3 DEF PoolInv, SemInv
  <2>6. Holders' = Holders \ {r}
    BY Zenon, <2>3 DEF Holders, Holding, Checking, Using
  <2>7. LeaseInv'
    <3>1. \A q \in Holders' : q \in Op /\ q \in Holders /\ q # r /\ idx'[q] = idx[q]
      BY Zenon, <2>3, <2>6 DEF Holders
    <3>2. \A q \in Holders' : idx'[q] \in Index /\ idx'[q] \notin Range(available) /\ idx'[q] # idx[r]
      BY Zenon, <1>2, <3>1 DEF PoolInv, LeaseInv, LeaseExclusive
    <3>3. \A p, q \in Holders' : idx'[p] = idx'[q] => p = q
      BY Zenon, <3>1 DEF PoolInv, LeaseInv, LeaseExclusive
    <3> QED BY Zenon, <2>2, <3>2, <3>3 DEF LeaseInv, LeaseExclusive
  <2>8. CountInv'
    <3>1. /\ Entitled' = Entitled /\ Signalling' = Signalling \cup {r} /\ r \notin Signalling
      BY Zenon, <1>1, <2>3 DEF Signalling, Entitled
    <3>2. IsFiniteSet(Entitled) /\ IsFiniteSet(Signalling)
      BY Zenon DEF PoolInv, CountInv
    <3>3. /\ IsFiniteSet(Signalling') /\ Cardinality(Signalling') = Cardinality(Signalling) + 1
          /\ Cardinality(Signalling) \in Nat /\ Cardinality(Entitled) \in Nat /\ permits \in Nat
      BY Zenon, <3>1, <3>2, PoolShape DEF CountFacts, AddCount, NatCount
    <3>4. permits + Cardinality(Entitled) + Cardinality(Signalling) <= Len(available)
      BY Zenon, <1>4 DEF PoolInv, CountInv
    <3> QED BY SMTT(30), <1>1, <2>2, <3>1, <3>2, <3>3, <3>4 DEF CountInv
  <2>9. NoInternalError'
    BY Zenon, <1>1 DEF PoolInv, NoInternalError
  <2> QED BY <2>4, <2>5, <2>7, <2>8, <2>9 DEF PoolInv
<1> QED BY Zenon, <1>3, <1>4

\* Releasing one permit hands it to the first waiter or banks it.
LEMMA ReleaseOne ==
  ASSUME PoolInv, Release(1)
  PROVE  /\ UNCHANGED closed /\ issued' = issued + 1
         /\ \/ /\ permits' = permits + 1 /\ UNCHANGED <<waiting, st, granted>>
            \/ \E w \in Range(waiting) :
                 /\ w \in Op /\ st[w] = "waiting" /\ UNCHANGED permits
                 /\ st' = [st EXCEPT ![w] = "handed"] /\ granted' = granted \cup {w}
                 /\ waiting' \in Seq(Op) /\ IsInjective(waiting')
                 /\ Range(waiting') = Range(waiting) \ {w}
<1>1. /\ waiting \in Seq(Op) /\ IsInjective(waiting) /\ Len(waiting) \in Nat
      /\ permits \in Nat /\ st \in [Op -> Status]
  BY SMTT(30), PoolShape DEF PoolInv, SemInv
<1> DEFINE k    == IF 1 < Len(waiting) THEN 1 ELSE Len(waiting)
           next == {waiting[i] : i \in 1..k}
<1>2. /\ waiting' = SubSeq(waiting, k + 1, Len(waiting)) /\ permits' = permits + (1 - k)
      /\ st' = [o \in Op |-> IF o \in next THEN "handed" ELSE st[o]]
      /\ issued' = issued + 1 /\ granted' = granted \cup next /\ UNCHANGED closed
  BY Zenon DEF Release
<1>3. CASE Len(waiting) = 0
  <2>1. k = 0 /\ next = {}
    BY SMTT(30), <1>3
  <2>2. waiting = <<>>
    BY SMTT(30), <1>1, <1>3
  <2>3. waiting' = <<>>
    BY SMTT(30), <1>2, <2>1, <2>2
  <2>4. st' = st /\ granted' = granted
    BY Zenon, <1>1, <1>2, <2>1
  <2>5. permits' = permits + 1
    <3> HIDE DEF k, next
    <3> QED BY SMTT(30), <1>1, <1>2, <2>1
  <2> QED BY Zenon, <1>2, <2>2, <2>3, <2>4, <2>5
<1>4. CASE Len(waiting) >= 1
  <2> DEFINE w == waiting[1]
  <2>1. k = 1 /\ k \in 0..Len(waiting) /\ next = {w}
    <3>1. k = 1 /\ k \in 0..Len(waiting)
      <4>1. Len(waiting) \in Nat
        BY Zenon, <1>1
      <4>2. CASE 1 < Len(waiting)
        BY SMTT(30), <4>1, <4>2
      <4>3. CASE Len(waiting) = 1
        BY SMTT(30), <4>3
      <4> QED BY SMTT(30), <1>4, <4>1, <4>2, <4>3
    <3>2. 1..1 = {1}
      BY SMTT(30)
    <3> HIDE DEF k
    <3>3. next = {waiting[i] : i \in {1}}
      BY Zenon, <3>1, <3>2
    <3> QED BY Zenon, <3>1, <3>3
  <2>2. /\ w \in Range(waiting) /\ w \in Op
    BY SMTT(30), <1>1, <1>4, RangeByPosition
  <2>3. st[w] = "waiting"
    BY Zenon, <2>2 DEF PoolInv, SemInv
  <2>4. /\ waiting' \in Seq(Op) /\ IsInjective(waiting') /\ Range(waiting') = Range(waiting) \ {w}
    <3> DEFINE a == SubSeq(waiting, 1, k)
               b == SubSeq(waiting, k + 1, Len(waiting))
    <3>1. /\ b \in Seq(Op) /\ IsInjective(b)
          /\ Range(a) \cup Range(b) = Range(waiting) /\ Range(a) \cap Range(b) = {}
          /\ Range(a) = {waiting[i] : i \in 1..k}
      <4> HIDE DEF k
      <4> QED BY SMTT(30), <1>1, <2>1, SplitDistinct
    <3>2. Range(a) = {w} /\ waiting' = b
      BY Zenon, <1>2, <2>1, <3>1
    <3> HIDE DEF a, b, w
    <3> QED BY Zenon, <3>1, <3>2
  <2>5. UNCHANGED permits /\ granted' = granted \cup {w}
    <3> HIDE DEF k, next, w
    <3>1. permits' = permits + (1 - k) /\ 1 - k = 0 /\ permits \in Nat
      BY SMTT(30), <1>1, <1>2, <2>1
    <3> QED BY SMTT(30), <1>2, <2>1, <3>1
  <2>6. st' = [st EXCEPT ![w] = "handed"]
    <3> HIDE DEF k, w
    <3> QED BY Zenon, <1>1, <1>2, <2>1, <2>2
  <2> HIDE DEF w, k, next
  <2> QED BY Zenon, <1>2, <2>2, <2>3, <2>4, <2>5, <2>6
<1> QED BY SMTT(30), <1>1, <1>3, <1>4

\* Signalling keeps it: the index of the request was pushed before.
LEMMA SignalInv ==
  ASSUME CountFacts, PoolInv, NEW r \in Op, Signal(r)
  PROVE  PoolInv'
<1>1. /\ pc[r] = "signalling" /\ pc' = [pc EXCEPT ![r] = "done"]
      /\ UNCHANGED <<poolVars, idx, outcome, connVars, closeVars>>
      /\ IF closed THEN UNCHANGED semVars ELSE Release(1)
  BY Zenon DEF Signal
<1>2. /\ pc' \in [Op -> PC] /\ pc'[r] = "done" /\ \A q \in Op \ {r} : pc'[q] = pc[q]
  BY Zenon, <1>1, PoolShape DEF PC
<1>3. /\ Signalling' = Signalling \ {r} /\ r \in Signalling
      /\ pc[r] \notin Holding /\ "done" \in PC \ Holding
  BY Zenon, <1>1, <1>2 DEF Signalling, PC, Holding, Checking, Using
<1>4. CASE closed
  <2>1. UNCHANGED semVars
    BY Zenon, <1>1, <1>4
  <2>2. SemTypeOK' /\ SemInv'
    BY Zenon, <1>1, <1>2, <2>1, PoolShape DEF PoolInv, SemTypeOK, SemInv
  <2>3. Entitled' \subseteq Entitled
    BY Zenon, <1>2, <2>1 DEF Entitled
  <2>4. CountInv'
    BY SMTT(30), <1>1, <1>3, <2>1, <2>3, PoolShape, CountKept
  <2> QED BY Zenon, <1>1, <1>3, <2>2, <2>4, AcquiringInv
<1>5. CASE ~closed
  <2>1. /\ IsFiniteSet(Entitled) /\ IsFiniteSet(Signalling)
        /\ Cardinality(Entitled) \in Nat /\ Cardinality(Signalling) \in Nat
        /\ permits \in Nat /\ Len(available) \in Nat
        /\ IsFiniteSet(Signalling') /\ Cardinality(Signalling') = Cardinality(Signalling) - 1
    BY SMTT(30), <1>3, PoolShape DEF CountFacts, RemoveCount, NatCount, PoolInv, CountInv
  <2>2. Release(1) /\ UNCHANGED closed /\ issued' \in Nat
    BY SMTT(30), <1>1, <1>5, ReleaseOne, PoolShape
  <2>3. CASE permits' = permits + 1 /\ UNCHANGED <<waiting, st, granted>>
    <3>1. SemTypeOK' /\ SemInv'
      BY SMTT(30), <1>1, <1>2, <2>1, <2>2, <2>3, PoolShape DEF PoolInv, SemTypeOK, SemInv
    <3>2. Entitled' = Entitled
      BY Zenon, <1>1, <1>2, <2>3 DEF Entitled
    <3>3. CountInv'
      BY SMTT(30), <1>1, <2>1, <2>3, <3>2 DEF PoolInv, CountInv
    <3> QED BY Zenon, <1>1, <1>3, <3>1, <3>3, AcquiringInv
  <2>4. CASE \E w \in Range(waiting) :
               /\ w \in Op /\ st[w] = "waiting" /\ UNCHANGED permits
               /\ st' = [st EXCEPT ![w] = "handed"] /\ granted' = granted \cup {w}
               /\ waiting' \in Seq(Op) /\ IsInjective(waiting')
               /\ Range(waiting') = Range(waiting) \ {w}
    <3>1. PICK w \in Range(waiting) :
               /\ w \in Op /\ st[w] = "waiting" /\ UNCHANGED permits
               /\ st' = [st EXCEPT ![w] = "handed"] /\ granted' = granted \cup {w}
               /\ waiting' \in Seq(Op) /\ IsInjective(waiting')
               /\ Range(waiting') = Range(waiting) \ {w}
      BY Zenon, <2>4
    <3>2. /\ st' \in [Op -> Status] /\ st'[w] = "handed" /\ \A q \in Op \ {w} : st'[q] = st[q]
          /\ granted' \in SUBSET Op
      BY Zenon, <3>1, PoolShape DEF Status
    <3>3. Range(waiting) \subseteq Op
      BY Zenon, PoolShape, RangeByPosition
    <3>4. SemTypeOK'
      BY SMTT(30), <2>1, <2>2, <3>1, <3>2, PoolShape DEF SemTypeOK
    <3>5. SemInv'
      BY Zenon, <1>1, <1>2, <2>2, <3>1, <3>2, <3>3 DEF PoolInv, SemInv
    <3>6. Entitled' = Entitled \cup {w} /\ w \notin Entitled
      BY Zenon, <1>1, <1>2, <3>1, <3>2 DEF Entitled
    <3>7. IsFiniteSet(Entitled') /\ Cardinality(Entitled') = Cardinality(Entitled) + 1
      BY Zenon, <2>1, <3>6 DEF CountFacts, AddCount
    <3>8. CountInv'
      BY SMTT(30), <1>1, <2>1, <3>1, <3>7 DEF PoolInv, CountInv
    <3> QED BY Zenon, <1>1, <1>3, <3>4, <3>5, <3>8, AcquiringInv
  <2> QED BY Zenon, <2>2, <2>3, <2>4, ReleaseOne
<1> QED BY <1>4, <1>5

\* close() keeps it: nothing is counted any more once closed_ is set, and the
\* semaphore is closed after that.
LEMMA CloseInv ==
  ASSUME CountFacts, PoolInv, NEW c \in Closer, CloseMark(c) \/ CloseStep(c)
  PROVE  PoolInv'
<1>1. UNCHANGED reqVars
  BY Zenon DEF CloseMark, CloseStep, CloseSemaphore, CloseConnection, ConnectionClosed
<1>2. Signalling' = Signalling /\ Holders' = Holders /\ NoInternalError'
  BY Zenon, <1>1 DEF Signalling, Holders, PoolInv, NoInternalError
<1>3. CASE CloseMark(c)
  <2>1. /\ poolClosed' = TRUE /\ available' = <<>> /\ cpc' = [cpc EXCEPT ![c] = "sem"]
        /\ UNCHANGED <<semVars, connVars, cpos>>
    BY Zenon, <1>3 DEF CloseMark
  <2>2. /\ available' \in Seq(Index) /\ IsInjective(available') /\ Range(available') = {}
    BY Zenon, <2>1, EmptyFacts
  <2>3. cpc' \in [Closer -> {"idle", "sem", "next", "closing", "done", "failed"}]
    BY Zenon, <2>1, PoolShape
  <2>4. PoolTypeOK'
    BY Zenon, <1>1, <2>1, <2>2, <2>3, PoolShape DEF PoolTypeOK, SemTypeOK
  <2>5. SemInv'
    BY Zenon, <1>1, <2>1, PoolShape DEF PoolInv, SemInv
  <2>6. LeaseInv'
    BY Zenon, <1>1, <1>2, <2>2 DEF PoolInv, LeaseInv, LeaseExclusive
  <2>7. Entitled' = Entitled
    BY Zenon, <1>1, <2>1 DEF Entitled
  <2>8. CountInv'
    BY SMTT(30), <1>2, <2>1, <2>7, PoolShape, CountKept
  <2> QED BY Zenon, <1>2, <2>4, <2>5, <2>6, <2>8 DEF PoolInv
<1>4. CASE CloseSemaphore(c)
  <2>1. /\ cpc[c] = "sem" /\ cpc' = [cpc EXCEPT ![c] = "next"] /\ poolClosed
        /\ UNCHANGED <<poolVars, connVars, cpos, issued, granted>>
        /\ permits' \in Nat /\ permits' <= permits /\ closed' \in BOOLEAN
        /\ \/ UNCHANGED <<waiting, st>>
           \/ /\ waiting' = <<>>
              /\ st' = [o \in Op |-> IF st[o] = "waiting" THEN "dropped" ELSE st[o]]
    <3>1. poolClosed
      BY Zenon, <1>4 DEF CloseSemaphore, PoolInv, SemInv
    <3>2. CASE closed
      BY SMTT(30), <1>4, <3>1, <3>2, PoolShape DEF CloseSemaphore
    <3>3. CASE ~closed
      BY SMTT(30), <1>4, <3>1, <3>3, PoolShape DEF CloseSemaphore, Close
    <3> QED BY SMTT(30), <3>2, <3>3
  <2>2. cpc' \in [Closer -> {"idle", "sem", "next", "closing", "done", "failed"}]
    BY Zenon, <2>1, PoolShape
  <2>3. /\ st' \in [Op -> Status] /\ waiting' \in Seq(Op)
        /\ \A q \in Op : st'[q] = st[q] \/ (st[q] = "waiting" /\ st'[q] = "dropped")
    BY Zenon, <2>1, PoolShape, EmptyFacts DEF Status
  <2>4. PoolTypeOK'
    BY Zenon, <1>1, <2>1, <2>2, <2>3, PoolShape DEF PoolTypeOK, SemTypeOK
  <2>5. SemInv'
    <3>1. /\ IsInjective(waiting') /\ \A q \in Range(waiting') : st'[q] = "waiting"
      <4>1. CASE UNCHANGED <<waiting, st>>
        BY Zenon, <4>1 DEF PoolInv, SemInv
      <4>2. CASE waiting' = <<>>
        BY SMTT(30), <4>2, EmptyFacts
      <4> QED BY Zenon, <2>1, <4>1, <4>2
    <3>2. \A q \in Op : pc'[q] \in {"won", "taking"} => st'[q] \in {"acquired", "refused"}
      BY Zenon, <1>1, <2>3 DEF PoolInv, SemInv
    <3> QED BY Zenon, <2>1, <3>1, <3>2, PoolShape DEF PoolInv, SemInv
  <2>6. LeaseInv'
    BY Zenon, <1>1, <1>2, <2>1 DEF PoolInv, LeaseInv, LeaseExclusive
  <2>7. Entitled' = Entitled
    BY Zenon, <1>1, <2>3 DEF Entitled
  <2>8. CountInv'
    BY Zenon, <1>2, <2>1, <2>7, PoolShape, CountKept
  <2> QED BY <1>2, <2>4, <2>5, <2>6, <2>8 DEF PoolInv
<1>5. CASE CloseConnection(c) \/ ConnectionClosed(c)
  <2>1. /\ UNCHANGED <<semVars, poolVars>> /\ cpc[c] # "idle"
        /\ open' \in SUBSET Index /\ busy' \in SUBSET Index
    BY SMTT(30), <1>5, PoolShape DEF CloseConnection, ConnectionClosed
  <2>2. /\ cpc' \in [Closer -> {"idle", "sem", "next", "closing", "done", "failed"}]
        /\ cpos' \in [Closer -> 1..(N + 1)]
        /\ \A d \in Closer \ {c} : cpc'[d] = cpc[d] /\ cpos'[d] = cpos[d]
        /\ cpc'[c] = "closing" => cpos'[c] \in Index
    <3>1. CASE CloseConnection(c)
      BY Zenon, <3>1, PoolShape DEF CloseConnection
    <3>2. CASE ConnectionClosed(c)
      <4>1. cpos[c] \in Index /\ cpos' = [cpos EXCEPT ![c] = cpos[c] + 1]
            /\ cpc' = [cpc EXCEPT ![c] = "next"]
        BY Zenon, <3>2 DEF ConnectionClosed, PoolInv, SemInv
      <4>2. cpos[c] + 1 \in 1..(N + 1)
        BY SMTT(30), <4>1, PoolAssumption DEF Index
      <4> QED BY Zenon, <4>1, <4>2, PoolShape
    <3> QED BY Zenon, <1>5, <3>1, <3>2
  <2>3. PoolTypeOK'
    BY SMTT(30), <1>1, <2>1, <2>2, PoolShape DEF PoolTypeOK, SemTypeOK
  <2>4. SemInv'
    BY Zenon, <1>1, <2>1, <2>2 DEF PoolInv, SemInv
  <2>5. LeaseInv'
    BY Zenon, <1>1, <1>2, <2>1 DEF PoolInv, LeaseInv, LeaseExclusive
  <2>6. Entitled' = Entitled
    BY Zenon, <1>1, <2>1 DEF Entitled
  <2>7. CountInv'
    BY SMTT(30), <1>2, <2>1, <2>6, PoolShape, CountKept
  <2> QED BY <1>2, <2>3, <2>4, <2>5, <2>7 DEF PoolInv
<1> QED BY Zenon, <1>3, <1>4, <1>5 DEF CloseStep

\* The shared steps of the two pools keep the invariant.
LEMMA PoolNextInv ==
  ASSUME CountFacts, PoolInv, PoolNext
  PROVE  PoolInv'
BY Zenon, HealthInv, AcquireInv, PushIndexInv, SignalInv, CloseInv DEF PoolNext, ReleaseStep

\* So does a step that changes no variable of the pool but the busy_ flags.
LEMMA PoolStutterInv ==
  ASSUME CountFacts, PoolInv, busy' \in SUBSET Index,
         UNCHANGED <<semVars, poolVars, reqVars, open, closeVars>>
  PROVE  PoolInv'
<1>1. Entitled' = Entitled /\ Signalling' = Signalling /\ Holders' = Holders
  BY Zenon DEF Entitled, Signalling, Holders
<1>2. PoolTypeOK'
  BY SMTT(30), PoolShape DEF PoolTypeOK, SemTypeOK
<1>3. SemInv' /\ LeaseInv' /\ CountInv' /\ NoInternalError'
  BY Zenon, <1>1 DEF PoolInv, SemInv, LeaseInv, LeaseExclusive, CountInv, NoInternalError
<1> QED BY Zenon, <1>2, <1>3 DEF PoolInv

-----------------------------------------------------------------------------
(* The busy_ flags: what a step does to their owners.                      *)

GuardsStay ==
  /\ busy' = busy /\ ReqGuards' = ReqGuards /\ CloseGuards' = CloseGuards
  /\ \A r \in ReqGuards : idx'[r] = idx[r]
  /\ \A c \in CloseGuards : cpos'[c] = cpos[c]

ReqBegins(r) ==
  /\ r \in Op /\ pc[r] \in Holding /\ idx[r] \notin busy /\ busy' = busy \cup {idx[r]}
  /\ ReqGuards' = ReqGuards \cup {r}
  /\ UNCHANGED <<idx, closeVars>>

ReqEnds(r) ==
  /\ r \in ReqGuards /\ busy' = busy \ {idx[r]} /\ ReqGuards' = ReqGuards \ {r}
  /\ UNCHANGED <<idx, closeVars>>

CloseBegins(c) ==
  /\ c \in Closer /\ cpos[c] \notin busy /\ busy' = busy \cup {cpos[c]}
  /\ CloseGuards' = CloseGuards \cup {c}
  /\ UNCHANGED <<reqVars, cpos>>

CloseLeaves(c) ==
  /\ c \in CloseGuards /\ busy' = busy \ {cpos[c]} /\ CloseGuards' = CloseGuards \ {c}
  /\ \A d \in CloseGuards \ {c} : cpos'[d] = cpos[d]
  /\ UNCHANGED reqVars

GuardsMove ==
  \/ GuardsStay
  \/ \E r \in Op : ReqBegins(r) \/ ReqEnds(r)
  \/ \E c \in Closer : CloseBegins(c) \/ CloseLeaves(c)

\* A request's label says whether it owns a flag.
LEMMA LabelGuards ==
  ASSUME PoolInv, NEW r \in Op, NEW l, pc' = [pc EXCEPT ![r] = l]
  PROVE  /\ l \in Guarded => ReqGuards' = ReqGuards \cup {r}
         /\ l \notin Guarded => ReqGuards' = ReqGuards \ {r}
         /\ pc[r] \notin Guarded => r \notin ReqGuards
BY Zenon, PoolShape DEF ReqGuards

\* A step that moves a request between labels without a flag changes no owner.
LEMMA PlainStay ==
  ASSUME PoolInv, NEW r \in Op, NEW l, l \notin Guarded, pc[r] \notin Guarded,
         pc' = [pc EXCEPT ![r] = l], UNCHANGED <<busy, closeVars>>,
         \/ UNCHANGED idx
         \/ \E x : idx' = [idx EXCEPT ![r] = x]
  PROVE  GuardsStay
<1>0. ReqGuards' = ReqGuards \ {r} /\ r \notin ReqGuards
  BY Zenon, LabelGuards
<1>1. ReqGuards' = ReqGuards /\ r \notin ReqGuards
  BY Zenon, <1>0
<1>2. \A q \in ReqGuards : q \in Op /\ q # r
  BY Zenon, <1>1 DEF ReqGuards
<1>3. \A q \in ReqGuards : idx'[q] = idx[q]
  BY Zenon, <1>2, PoolShape
<1> QED BY Zenon, <1>1, <1>3 DEF GuardsStay, CloseGuards

\* Steps of acquire_index and of release_index run no operation of the
\* connection: they leave its flag alone.
LEMMA AcquireGuards ==
  ASSUME PoolInv, NEW r \in Op,
         \/ StartAcquire(r) \/ StartCancelled(r) \/ TimerWins(r) \/ CancelAcquire(r)
         \/ AcquireStep(r) \/ ReleaseStep(r)
  PROVE  GuardsMove
<1>1. UNCHANGED <<busy, closeVars>> /\ pc[r] \notin Guarded
  BY Zenon DEF StartAcquire, StartCancelled, TimerWins, CancelAcquire, AcquireStep, ReleaseStep,
         SemaphoreWins, AcquireGivenUp, WonJoin, TakeIndex, PushIndex, Signal, Guarded
<1>2. \E l : l \notin Guarded /\ pc' = [pc EXCEPT ![r] = l]
  BY ZenonT(60) DEF StartAcquire, StartCancelled, TimerWins, CancelAcquire, AcquireStep, ReleaseStep,
         SemaphoreWins, AcquireGivenUp, WonJoin, TakeIndex, PushIndex, Signal, Guarded
<1>3. UNCHANGED idx \/ \E x : idx' = [idx EXCEPT ![r] = x]
  BY Zenon DEF StartAcquire, StartCancelled, TimerWins, CancelAcquire, AcquireStep, ReleaseStep,
         SemaphoreWins, AcquireGivenUp, WonJoin, TakeIndex, PushIndex, Signal
<1> QED BY ZenonT(60), <1>1, <1>2, <1>3, PlainStay DEF GuardsMove

\* The constructor of an OperationGuard takes the flag or throws.
LEMMA BeginGuards ==
  ASSUME PoolInv, NEW r \in Op, NEW l \in Guarded, BeginGuarded(r, l),
         pc[r] \in Holding \ Guarded, UNCHANGED <<idx, closeVars>>
  PROVE  GuardsMove
<1>1. CASE idx[r] \notin busy /\ busy' = busy \cup {idx[r]} /\ pc' = [pc EXCEPT ![r] = l]
  BY Zenon, <1>1, LabelGuards DEF GuardsMove, ReqBegins
<1>2. CASE busy' = busy /\ pc' = [pc EXCEPT ![r] = "returning"]
  <2>1. "returning" \notin Guarded
    BY Zenon DEF Guarded
  <2> QED BY Zenon, <1>2, <2>1, PlainStay DEF GuardsMove
<1> QED BY Zenon, <1>1, <1>2 DEF BeginGuarded

\* Its destructor clears it.
LEMMA EndGuards ==
  ASSUME PoolInv, NEW r \in Op, pc[r] \in Guarded, NEW l, l \notin Guarded,
         pc' = [pc EXCEPT ![r] = l], busy' = busy \ {idx[r]}, UNCHANGED <<idx, closeVars>>
  PROVE  GuardsMove
BY Zenon, LabelGuards DEF GuardsMove, ReqEnds, ReqGuards

\* Every operation of ensure_healthy takes the flag when it starts and clears
\* it when it ends.
LEMMA HealthGuards ==
  ASSUME PoolInv, NEW r \in Op, HealthStep(r)
  PROVE  GuardsMove
<1> USE DEF Holding, Checking, Guarded
<1>0. UNCHANGED <<idx, closeVars>>
  BY Zenon DEF HealthStep, CheckOpen, HealthQueryEnds, ReopenClose, ReopenClosed, ReopenOpen, ReopenEnds
<1>1. CASE CheckOpen(r)
  <2>1. pc[r] \in Holding \ Guarded
    BY Zenon, <1>1 DEF CheckOpen
  <2>2. CASE BeginGuarded(r, "closing") \/ BeginGuarded(r, "querying")
    BY Zenon, <1>0, <2>1, <2>2, BeginGuards
  <2>3. CASE pc' = [pc EXCEPT ![r] = "healthy"] /\ busy' = busy
    BY Zenon, <1>0, <2>1, <2>3, PlainStay DEF GuardsMove
  <2> QED BY Zenon, <1>1, <2>2, <2>3 DEF CheckOpen
<1>2. CASE ReopenClose(r) \/ ReopenOpen(r)
  BY Zenon, <1>0, <1>2, BeginGuards DEF ReopenClose, ReopenOpen
<1>3. CASE HealthQueryEnds(r) \/ ReopenClosed(r) \/ ReopenEnds(r)
  <2>1. pc[r] \in Guarded /\ busy' = busy \ {idx[r]}
    BY Zenon, <1>3 DEF HealthQueryEnds, ReopenClosed, ReopenEnds, EndGuarded
  <2>2. \E l : l \notin Guarded /\ pc' = [pc EXCEPT ![r] = l]
    BY Zenon, <1>3 DEF HealthQueryEnds, ReopenClosed, ReopenEnds, EndGuarded
  <2> QED BY Zenon, <1>0, <2>1, <2>2, EndGuards
<1> QED BY SMTT(30), <1>1, <1>2, <1>3 DEF HealthStep

\* So does the close of a connection in the walk of close().
LEMMA CloseGuardsMove ==
  ASSUME PoolInv, NEW c \in Closer, CloseMark(c) \/ CloseStep(c)
  PROVE  GuardsMove
<1>0. UNCHANGED reqVars /\ ReqGuards' = ReqGuards
  BY Zenon DEF CloseMark, CloseStep, CloseSemaphore, CloseConnection, ConnectionClosed, ReqGuards
<1>1. ASSUME NEW l, l # "closing", cpc' = [cpc EXCEPT ![c] = l], cpc[c] # "closing",
             UNCHANGED <<busy, cpos>>
      PROVE  GuardsMove
  BY Zenon, <1>0, <1>1, PoolShape DEF GuardsMove, GuardsStay, CloseGuards
<1>2. CASE CloseMark(c) \/ CloseSemaphore(c)
  BY Zenon, <1>1, <1>2 DEF CloseMark, CloseSemaphore
<1>3. CASE CloseConnection(c)
  <2>1. CASE cpc' = [cpc EXCEPT ![c] = "closing"]
    <3>1. cpos[c] \notin busy /\ busy' = busy \cup {cpos[c]} /\ UNCHANGED cpos
      BY Zenon, <1>3, <2>1, PoolShape DEF CloseConnection
    <3>2. CloseGuards' = CloseGuards \cup {c}
      BY Zenon, <2>1, PoolShape DEF CloseGuards
    <3> QED BY Zenon, <1>0, <3>1, <3>2 DEF GuardsMove, CloseBegins
  <2>2. CASE \E l \in {"done", "failed"} : cpc' = [cpc EXCEPT ![c] = l] /\ UNCHANGED busy
    BY Zenon, <1>1, <1>3, <2>2 DEF CloseConnection
  <2> QED BY Zenon, <1>3, <2>1, <2>2 DEF CloseConnection
<1>4. CASE ConnectionClosed(c)
  <2>1. CloseGuards' = CloseGuards \ {c} /\ c \in CloseGuards
    BY Zenon, <1>4, PoolShape DEF ConnectionClosed, CloseGuards
  <2>2. \A d \in CloseGuards \ {c} : cpos'[d] = cpos[d]
    BY Zenon, <1>4, PoolShape DEF ConnectionClosed, CloseGuards
  <2> QED BY Zenon, <1>0, <1>4, <2>1, <2>2 DEF GuardsMove, CloseLeaves, ConnectionClosed
<1> QED BY Zenon, <1>2, <1>3, <1>4 DEF CloseStep

\* A step of the pool takes one flag, gives one back, or changes no owner.
LEMMA PoolGuardsMove ==
  ASSUME PoolInv, PoolNext
  PROVE  GuardsMove
BY Zenon, AcquireGuards, HealthGuards, CloseGuardsMove DEF PoolNext

\* No two requests own the same flag.
LEMMA ReqGuardsApart ==
  ASSUME PoolInv
  PROVE  \A r, q \in ReqGuards : r \in Op /\ (idx[r] = idx[q] => r = q)
<1>1. ReqGuards \subseteq Holders
  BY Zenon DEF ReqGuards, Holders, Guarded, Holding, Checking, Using
<1> QED BY Zenon, <1>1 DEF PoolInv, LeaseInv, LeaseExclusive, ReqGuards

\* ... and such a step keeps the owners apart.
LEMMA GuardInvKept ==
  ASSUME PoolInv, GuardInv, GuardsMove
  PROVE  GuardInv'
<1>1. CASE GuardsStay
  BY <1>1 DEF GuardsStay, GuardInv
<1>2. ASSUME NEW r \in Op, ReqBegins(r) PROVE GuardInv'
  <2>1. CloseGuards' = CloseGuards
    BY Zenon, <1>2 DEF ReqBegins, CloseGuards
  <2> QED BY ZenonT(60), <1>2, <2>1 DEF ReqBegins, GuardInv
<1>3. ASSUME NEW r \in Op, ReqEnds(r) PROVE GuardInv'
  <2>1. CloseGuards' = CloseGuards
    BY Zenon, <1>3 DEF ReqEnds, CloseGuards
  <2> QED BY ZenonT(60), <1>3, <2>1, ReqGuardsApart DEF ReqEnds, GuardInv
<1>4. ASSUME NEW c \in Closer, CloseBegins(c) PROVE GuardInv'
  <2>1. ReqGuards' = ReqGuards
    BY Zenon, <1>4 DEF CloseBegins, ReqGuards
  <2> QED BY <1>4, <2>1 DEF CloseBegins, GuardInv
<1>5. ASSUME NEW c \in Closer, CloseLeaves(c) PROVE GuardInv'
  <2>1. ReqGuards' = ReqGuards
    BY Zenon, <1>5 DEF CloseLeaves, ReqGuards
  <2> QED BY <1>5, <2>1 DEF CloseLeaves, GuardInv
<1> QED BY Zenon, <1>1, <1>2, <1>3, <1>4, <1>5 DEF GuardsMove

\* A flag that stays set keeps its owner, and one that is newly set has one;
\* a flag nobody owned is left alone and stays without an owner.
LEMMA OwnersKept ==
  ASSUME PoolInv, GuardInv, GuardsMove, NEW i
  PROVE  /\ i \in busy /\ i \in busy' => (BusyOwned(i) <=> BusyOwned(i)')
         /\ i \in busy' /\ i \notin busy => BusyOwned(i)'
         /\ i \in busy /\ ~BusyOwned(i) => i \in busy'
<1>1. CASE GuardsStay
  BY Zenon, <1>1 DEF GuardsStay, BusyOwned
<1>2. ASSUME NEW r \in Op, ReqBegins(r)
      PROVE  /\ i \in busy /\ i \in busy' => (BusyOwned(i) <=> BusyOwned(i)')
             /\ i \in busy' /\ i \notin busy => BusyOwned(i)'
             /\ i \in busy /\ ~BusyOwned(i) => i \in busy'
  <2>1. CloseGuards' = CloseGuards
    BY <1>2 DEF ReqBegins, CloseGuards
  <2> QED BY Zenon, <1>2, <2>1 DEF ReqBegins, BusyOwned
<1>3. ASSUME NEW r \in Op, ReqEnds(r)
      PROVE  /\ i \in busy /\ i \in busy' => (BusyOwned(i) <=> BusyOwned(i)')
             /\ i \in busy' /\ i \notin busy => BusyOwned(i)'
             /\ i \in busy /\ ~BusyOwned(i) => i \in busy'
  <2>1. CloseGuards' = CloseGuards
    BY <1>3 DEF ReqEnds, CloseGuards
  <2> QED BY Zenon, <1>3, <2>1 DEF ReqEnds, BusyOwned
<1>4. ASSUME NEW c \in Closer, CloseBegins(c)
      PROVE  /\ i \in busy /\ i \in busy' => (BusyOwned(i) <=> BusyOwned(i)')
             /\ i \in busy' /\ i \notin busy => BusyOwned(i)'
             /\ i \in busy /\ ~BusyOwned(i) => i \in busy'
  <2>1. ReqGuards' = ReqGuards
    BY <1>4 DEF CloseBegins, ReqGuards
  <2> QED BY Zenon, <1>4, <2>1 DEF CloseBegins, BusyOwned
<1>5. ASSUME NEW c \in Closer, CloseLeaves(c)
      PROVE  /\ i \in busy /\ i \in busy' => (BusyOwned(i) <=> BusyOwned(i)')
             /\ i \in busy' /\ i \notin busy => BusyOwned(i)'
             /\ i \in busy /\ ~BusyOwned(i) => i \in busy'
  <2>1. ReqGuards' = ReqGuards
    BY <1>5 DEF CloseLeaves, ReqGuards
  <2> QED BY Zenon, <1>5, <2>1 DEF CloseLeaves, BusyOwned
<1> QED BY Zenon, <1>1, <1>2, <1>3, <1>4, <1>5 DEF GuardsMove

-----------------------------------------------------------------------------
(* The walk of close(). *)

\* What a step of a request means to the walks of close(): a closed pool
\* gives no index and takes none back, and a request opens only a connection
\* whose index it has.
WalkStays ==
  /\ UNCHANGED closeVars
  /\ poolClosed => UNCHANGED idx
  /\ \A i \in open' : i \in open \/ \E r \in Op : idx[r] = i

\* A request's step is of that kind.
LEMMA RequestWalks ==
  ASSUME PoolInv, NEW r \in Op,
         \/ StartAcquire(r) \/ StartCancelled(r) \/ TimerWins(r) \/ CancelAcquire(r)
         \/ AcquireStep(r) \/ HealthStep(r) \/ ReleaseStep(r)
  PROVE  WalkStays
<1>1. CASE HealthStep(r)
  BY ZenonT(60), <1>1 DEF WalkStays, HealthStep, CheckOpen, HealthQueryEnds, ReopenClose, ReopenClosed,
              ReopenOpen, ReopenEnds
<1>2. CASE ~HealthStep(r)
  BY Zenon, <1>2 DEF WalkStays, StartAcquire, StartCancelled, TimerWins, CancelAcquire, AcquireStep,
              ReleaseStep, SemaphoreWins, AcquireGivenUp, WonJoin, TakeIndex, PushIndex, Signal
<1> QED BY SMTT(30), <1>1, <1>2

\* ... and keeps what the walks have achieved.
LEMMA WalkKept ==
  ASSUME PoolInv, WalkInv, WalkStays, open' \in SUBSET Index
  PROVE  WalkInv'
<1>1. ASSUME NEW c \in Closer, NEW i \in open', i < cpos'[c]
      PROVE  \E r \in Op : idx'[r] = i
  <2>1. cpos[c] \in 1..(N + 1) /\ cpos'[c] = cpos[c] /\ i \in 1..N /\ N \in Nat
    BY Zenon, PoolShape, PoolAssumption DEF WalkStays, Index
  <2>2. cpc[c] # "idle"
    BY <1>1, <2>1 DEF WalkInv
  <2>3. poolClosed /\ idx' = idx
    BY Zenon, <2>2 DEF PoolInv, SemInv, WalkStays
  <2> QED BY Zenon, <1>1, <2>1, <2>3 DEF WalkStays, WalkInv
<1> QED BY Zenon, <1>1 DEF WalkInv, WalkStays

\* A walk moves on past a connection only after shutting it.
LEMMA CloseWalks ==
  ASSUME PoolInv, WalkInv, NEW c \in Closer, CloseMark(c) \/ CloseStep(c)
  PROVE  WalkInv'
<1>0. N \in Nat /\ open \in SUBSET (1..N) /\ cpos \in [Closer -> 1..(N + 1)]
      /\ UNCHANGED idx
  BY Zenon, PoolShape, PoolAssumption DEF Index, CloseMark, CloseStep, CloseSemaphore, CloseConnection,
     ConnectionClosed
<1>1. CASE CloseMark(c) \/ CloseSemaphore(c) \/ CloseConnection(c)
  <2>1. /\ UNCHANGED <<open, cpos>>
        /\ \E l \in {"sem", "next", "closing", "done", "failed"} :
             /\ cpc' = [cpc EXCEPT ![c] = l]
             /\ l = "sem" => cpc[c] = "idle"
             /\ l = "done" => cpos[c] > N
    BY Zenon, <1>1 DEF CloseMark, CloseSemaphore, CloseConnection
  <2>2. \A d \in Closer : /\ cpc'[d] \in {"idle", "sem"} => cpos[d] = 1
                          /\ cpc'[d] = "done" => cpos[d] > N
    BY SMTT(30), <2>1, PoolShape DEF WalkInv
  <2> QED BY SMTT(30), <1>0, <2>1, <2>2 DEF WalkInv
<1>2. CASE ConnectionClosed(c)
  <2>1. /\ open' = open \ {cpos[c]} /\ cpc' = [cpc EXCEPT ![c] = "next"]
        /\ cpos' = [cpos EXCEPT ![c] = cpos[c] + 1]
    BY Zenon, <1>2 DEF ConnectionClosed
  <2>2. \A d \in Closer : /\ cpc'[d] \in {"idle", "sem"} => cpos'[d] = 1
                          /\ cpc'[d] = "done" => cpos'[d] > N
    BY SMTT(30), <1>0, <2>1, PoolShape DEF WalkInv
  <2>3. ASSUME NEW d \in Closer, NEW i \in open', i < cpos'[d]
        PROVE  \E r \in Op : idx[r] = i
    <3>1. i \in open /\ i \in 1..N /\ i # cpos[c] /\ cpos[c] \in 1..(N + 1)
          /\ cpos[d] \in 1..(N + 1)
      BY Zenon, <1>0, <2>1
    <3>2. i < cpos[d]
      BY <1>0, <2>1, <2>3, <3>1
    <3> QED BY Zenon, <3>1, <3>2 DEF WalkInv
  <2> QED BY Zenon, <1>0, <2>2, <2>3 DEF WalkInv
<1> QED BY SMTT(30), <1>1, <1>2 DEF CloseStep

\* A step of the pool keeps the invariant of the walks.
LEMMA PoolWalks ==
  ASSUME PoolInv, WalkInv, PoolNext, open' \in SUBSET Index
  PROVE  WalkInv'
BY Zenon, RequestWalks, WalkKept, CloseWalks DEF PoolNext

\* close() that has walked over all the connections left open only what a
\* request had taken.
LEMMA WalkShutsIdle ==
  ASSUME PoolInv, WalkInv
  PROVE  CloseShutsIdle
<1>1. N \in Nat /\ open \in SUBSET (1..N) /\ cpos \in [Closer -> 1..(N + 1)]
  BY ZenonT(60), PoolShape, PoolAssumption DEF Index
<1> QED BY <1>1 DEF WalkInv, CloseShutsIdle

\* Whoever made close() fail is still there: a request keeps its index in a
\* closed pool, and a close() that began has begun for good.
LEMMA RequestFailsBusy ==
  ASSUME PoolInv, CloseFailsBusy, WalkStays
  PROVE  CloseFailsBusy'
<1>1. ASSUME NEW c \in Closer, cpc[c] = "failed" PROVE idx' = idx
  BY Zenon, <1>1 DEF PoolInv, SemInv, WalkStays
<1> QED BY <1>1 DEF CloseFailsBusy, WalkStays

\* close() throws only at a connection whose flag is set, and that flag has an
\* owner.
LEMMA CloseFailsBusyKept ==
  ASSUME PoolInv, CloseFailsBusy, \A i \in busy : BusyOwned(i), NEW c \in Closer,
         CloseMark(c) \/ CloseStep(c)
  PROVE  CloseFailsBusy'
<1>1. \E l \in {"sem", "next", "closing", "done", "failed"} :
        /\ cpc' = [cpc EXCEPT ![c] = l]
        /\ l = "failed" => cpc[c] = "next" /\ cpos[c] \in busy /\ UNCHANGED cpos
  BY SMTT(30) DEF CloseMark, CloseStep, CloseSemaphore, CloseConnection, ConnectionClosed
<1>2. /\ UNCHANGED idx /\ \A d \in Closer \ {c} : cpos'[d] = cpos[d] /\ cpc'[d] = cpc[d]
      /\ cpc'[c] # "idle" /\ cpc[c] # "failed"
  BY SMTT(30), PoolShape DEF CloseMark, CloseStep, CloseSemaphore, CloseConnection, ConnectionClosed
<1>3. ASSUME cpc'[c] = "failed"
      PROVE  \/ \E r \in Op : idx'[r] = cpos'[c]
             \/ \E d \in Closer \ {c} : cpc'[d] # "idle"
  <2>1. cpc[c] = "next" /\ BusyOwned(cpos[c]) /\ UNCHANGED cpos
    BY SMTT(30), <1>1, <1>3, PoolShape
  <2>2. CASE \E r \in ReqGuards : idx[r] = cpos[c]
    BY SMTT(30), <1>2, <2>1, <2>2 DEF ReqGuards
  <2>3. CASE \E d \in CloseGuards : cpos[d] = cpos[c]
    <3>1. PICK d \in Closer : cpc[d] = "closing"
      BY Zenon, <2>3 DEF CloseGuards
    <3> QED BY Zenon, <1>2, <2>1, <3>1
  <2> QED BY Zenon, <2>1, <2>2, <2>3 DEF BusyOwned
<1>4. ASSUME NEW d \in Closer \ {c}, cpc'[d] = "failed"
      PROVE  \/ \E r \in Op : idx'[r] = cpos'[d]
             \/ \E e \in Closer \ {d} : cpc'[e] # "idle"
  BY SMTT(30), <1>2, <1>4
<1> QED BY SMTT(30), <1>3, <1>4 DEF CloseFailsBusy

-----------------------------------------------------------------------------
(* The capacity of the pool. *)

\* A step changes the account of the requests it moves only.
LEMMA OthersAccounted ==
  ASSUME NEW r, NEW w, \A q \in Op \ {r, w} : pc'[q] = pc[q] /\ st'[q] = st[q] /\ outcome'[q] = outcome[q]
  PROVE  /\ Accounted' \subseteq Accounted \cup {r, w}
         /\ Accounted \ {r, w} \subseteq Accounted'
<1>1. ASSUME NEW q \in Op \ {r, w} PROVE q \in Accounted <=> q \in Accounted'
  BY Zenon DEF Accounted, Entitled, Holders, Signalling, Lost
<1>2. Accounted \subseteq Op /\ Accounted' \subseteq Op
  BY Zenon DEF Accounted, Entitled, Holders, Signalling, Lost
<1> QED BY Zenon, <1>1, <1>2

\* The sum of the free permits and of those accounted for never falls.
LEMMA CapacityStays ==
  ASSUME CountFacts, PoolInv, CapacityInv, NEW r, Accounted' \subseteq Accounted \cup {r},
         poolClosed => poolClosed', WaitsQueued',
         \/ poolClosed'
         \/ permits' = permits /\ Accounted \subseteq Accounted'
         \/ permits' = permits - 1 /\ r \notin Accounted /\ Accounted' = Accounted \cup {r}
         \/ permits' = permits + 1 /\ Accounted \ {r} \subseteq Accounted'
  PROVE  CapacityInv'
<1>0. N \in Nat /\ permits \in Nat /\ IsFiniteSet(Accounted)
  BY Zenon, PoolShape, PoolAssumption DEF CapacityInv
<1>1. IsFiniteSet(Accounted \cup {r})
  <2>1. CASE r \in Accounted
    <3>1. Accounted \cup {r} = Accounted
      BY Zenon, <2>1
    <3> QED BY Zenon, <3>1, <1>0
  <2>2. CASE r \notin Accounted
    BY Zenon, <1>0, <2>2 DEF CountFacts, AddCount
  <2> QED BY Zenon, <2>1, <2>2
<1>2. IsFiniteSet(Accounted') /\ Cardinality(Accounted') \in Nat /\ Cardinality(Accounted) \in Nat
  BY Zenon, <1>0, <1>1, CountShrinks
<1>3. ASSUME ~poolClosed' PROVE permits' + Cardinality(Accounted') >= N
  <2>0. permits + Cardinality(Accounted) >= N
    BY Zenon, <1>3 DEF CapacityInv
  <2>1. CASE permits' = permits /\ Accounted \subseteq Accounted'
    <3>1. Cardinality(Accounted) <= Cardinality(Accounted')
      BY Zenon, <1>2, <2>1, CountShrinks
    <3> QED BY <1>0, <1>2, <2>0, <2>1, <3>1
  <2>2. CASE permits' = permits - 1 /\ r \notin Accounted /\ Accounted' = Accounted \cup {r}
    <3>1. Cardinality(Accounted') = Cardinality(Accounted) + 1
      BY Zenon, <1>0, <2>2 DEF CountFacts, AddCount
    <3> QED BY <1>0, <1>2, <2>0, <2>2, <3>1
  <2>3. CASE permits' = permits + 1 /\ Accounted \ {r} \subseteq Accounted'
    <3>1. Cardinality(Accounted \ {r}) <= Cardinality(Accounted') /\ Cardinality(Accounted \ {r}) \in Nat
      BY Zenon, <1>2, <2>3, CountShrinks
    <3>2. Cardinality(Accounted \ {r}) >= Cardinality(Accounted) - 1
      <4>1. CASE r \in Accounted
        BY <1>0, <1>2, <4>1 DEF CountFacts, RemoveCount
      <4>2. CASE r \notin Accounted
        <5>1. Accounted \ {r} = Accounted
          BY Zenon, <4>2
        <5>2. Cardinality(Accounted \ {r}) = Cardinality(Accounted)
          BY Zenon, <5>1
        <5> QED BY <5>2, <1>2
      <4> QED BY Zenon, <4>1, <4>2
    <3> QED BY SMTT(30), <1>0, <1>2, <2>0, <2>3, <3>1, <3>2
  <2> QED BY Zenon, <1>3, <2>1, <2>2, <2>3
<1> QED BY Zenon, <1>2, <1>3 DEF CapacityInv

\* A request that moves on without touching the free permits stays accounted
\* for, unless the pool is closed.
LEMMA MovingCapacity ==
  ASSUME CountFacts, PoolInv, CapacityInv, NEW r \in Op, NEW l, pc' = [pc EXCEPT ![r] = l],
         \/ UNCHANGED outcome
         \/ \E x : outcome' = [outcome EXCEPT ![r] = x],
         \/ UNCHANGED st
         \/ \E x \in Status \ {"waiting"} : st' = [st EXCEPT ![r] = x],
         st'[r] = "waiting" => l \in {"acquiring", "expired", "cancelled"},
         permits' = permits, poolClosed' = poolClosed,
         r \in Accounted => r \in Accounted' \/ poolClosed
  PROVE  CapacityInv'
<1>1. \A q \in Op \ {r, r} : pc'[q] = pc[q] /\ st'[q] = st[q] /\ outcome'[q] = outcome[q]
  BY Zenon, PoolShape
<1>2. /\ Accounted' \subseteq Accounted \cup {r, r}
      /\ Accounted \ {r, r} \subseteq Accounted'
  BY Zenon, <1>1, OthersAccounted
<1>3. WaitsQueued'
  BY Zenon, <1>1, PoolShape DEF WaitsQueued, CapacityInv
<1>4. Accounted' \subseteq Accounted \cup {r} /\ (Accounted \subseteq Accounted' \/ poolClosed')
  BY Zenon, <1>2
<1> QED BY Zenon, <1>3, <1>4, CapacityStays

\* A holder that goes on holding, or that was stopped.
LEMMA HoldingCapacity ==
  ASSUME CountFacts, PoolInv, CapacityInv, NEW r \in Op, pc[r] \in Holding,
         \/ /\ \E l \in Holding : pc' = [pc EXCEPT ![r] = l]
            /\ UNCHANGED outcome \/ \E x : outcome' = [outcome EXCEPT ![r] = x]
         \/ pc' = [pc EXCEPT ![r] = "done"] /\ outcome' = [outcome EXCEPT ![r] = "stopped"],
         UNCHANGED <<semVars, poolVars>>
  PROVE  CapacityInv'
<1>1. st[r] # "waiting"
  BY Zenon DEF CapacityInv, WaitsQueued, Holding, Checking, Using
<1>2. r \in Accounted'
  <2>1. pc'[r] \in Holding \/ (outcome'[r] \in {"timeout", "stopped"} /\ pc'[r] = "done")
    BY Zenon, PoolShape
  <2> QED BY Zenon, <2>1 DEF Accounted, Entitled, Holders, Signalling, Lost
<1> QED BY Zenon, <1>1, <1>2, MovingCapacity

\* ensure_healthy ends with the index or, stopped, as a loss.
LEMMA HealthCapacity ==
  ASSUME CountFacts, PoolInv, CapacityInv, NEW r \in Op, HealthStep(r)
  PROVE  CapacityInv'
<1>1. pc[r] \in Holding /\ UNCHANGED <<semVars, poolVars>>
  BY ZenonT(60) DEF HealthStep, CheckOpen, HealthQueryEnds, ReopenClose, ReopenClosed, ReopenOpen,
         ReopenEnds, Checking, Holding
<1>2. \/ /\ \E l \in Holding : pc' = [pc EXCEPT ![r] = l]
         /\ UNCHANGED outcome \/ \E x : outcome' = [outcome EXCEPT ![r] = x]
      \/ pc' = [pc EXCEPT ![r] = "done"] /\ outcome' = [outcome EXCEPT ![r] = "stopped"]
  BY Zenon DEF HealthStep, CheckOpen, HealthQueryEnds, ReopenClose, ReopenClosed, ReopenOpen,
         ReopenEnds, BeginGuarded, EndGuarded, Holding, Checking, Using
<1> QED BY SMTT(30), <1>1, <1>2, HoldingCapacity

\* A step of acquire_index: a permit taken becomes an entitlement, an
\* entitlement an index, or a loss when the request timed out or was stopped.
LEMMA AcquireCapacity ==
  ASSUME CountFacts, PoolInv, CapacityInv, NoInternalError', NEW r \in Op,
         \/ StartAcquire(r) \/ StartCancelled(r) \/ TimerWins(r) \/ CancelAcquire(r)
         \/ AcquireStep(r)
  PROVE  CapacityInv'
<1> USE DEF Status
<1>0. pc \in [Op -> PC] /\ st \in [Op -> Status] /\ outcome \in [Op -> Outcome] /\ permits \in Nat
  BY Zenon, PoolShape
<1>1. CASE StartAcquire(r)
  <2>0. pc[r] = "idle" /\ UNCHANGED <<outcome, poolVars>> /\ st[r] = "idle" /\ r \notin Accounted
    BY Zenon, <1>1 DEF StartAcquire, AcquireNow, AcquireQueue, AcquireClosed, Accounted, Entitled,
                Holders, Signalling, Lost, Holding, Checking, Using
  <2>1. CASE AcquireNow(r)
    <3>1. /\ permits' = permits - 1 /\ st' = [st EXCEPT ![r] = "acquired"]
          /\ \E l \in {"won", "taking"} : pc' = [pc EXCEPT ![r] = l]
      BY <1>1, <2>1 DEF StartAcquire, AcquireNow, AcquireQueue
    <3>2. \A q \in Op \ {r, r} : pc'[q] = pc[q] /\ st'[q] = st[q] /\ outcome'[q] = outcome[q]
      BY Zenon, <1>0, <2>0, <3>1
    <3>3. r \in Accounted'
      BY Zenon, <1>0, <3>1 DEF Accounted, Entitled
    <3>4. Accounted' = Accounted \cup {r}
      <4>1. /\ Accounted' \subseteq Accounted \cup {r, r}
            /\ Accounted \ {r, r} \subseteq Accounted'
        BY Zenon, <3>2, OthersAccounted
      <4> QED BY Zenon, <3>3, <4>1
    <3>5. WaitsQueued'
      BY Zenon, <1>0, <3>1, <3>2 DEF WaitsQueued, CapacityInv
    <3> QED BY SMTT(30), <2>0, <3>1, <3>4, <3>5, CapacityStays
  <2>2. CASE AcquireQueue(r)
    <3>1. /\ permits' = permits /\ st' = [st EXCEPT ![r] = "waiting"]
          /\ pc' = [pc EXCEPT ![r] = "acquiring"]
      BY <1>1, <2>2 DEF StartAcquire, AcquireNow, AcquireQueue, AcquireClosed
    <3>2. \A q \in Op \ {r, r} : pc'[q] = pc[q] /\ st'[q] = st[q] /\ outcome'[q] = outcome[q]
      BY SMTT(30), <1>0, <2>0, <3>1
    <3>3. Accounted' \subseteq Accounted \cup {r} /\ Accounted \subseteq Accounted'
      BY Zenon, <2>0, <3>2, OthersAccounted
    <3>5. WaitsQueued'
      BY Zenon, <1>0, <3>1, <3>2 DEF WaitsQueued, CapacityInv
    <3> QED BY ZenonT(60), <2>0, <3>1, <3>3, <3>5, CapacityStays
  <2>3. CASE AcquireClosed(r)
    <3>1. /\ permits' = permits /\ st' = [st EXCEPT ![r] = "refused"]
          /\ \E l \in {"won", "taking"} : pc' = [pc EXCEPT ![r] = l]
      BY Zenon, <1>1, <2>3 DEF StartAcquire, AcquireQueue, AcquireClosed
    <3>2. st'[r] = "refused"
      BY Zenon, <1>0, <3>1
    <3> QED BY Zenon, <2>0, <3>1, <3>2, MovingCapacity
  <2> QED BY SMTT(30), <1>1, <2>1, <2>2, <2>3 DEF StartAcquire
<1>2. CASE StartCancelled(r)
  <2>1. /\ permits' = permits /\ poolClosed' = poolClosed /\ st' = [st EXCEPT ![r] = "stopped"]
        /\ pc' = [pc EXCEPT ![r] = "done"] /\ outcome' = [outcome EXCEPT ![r] = "stopped"]
    BY Zenon, <1>2 DEF StartCancelled, StopUnqueued
  <2>2. r \in Accounted' /\ st'[r] = "stopped"
    BY Zenon, <1>0, <2>1 DEF Accounted, Lost
  <2> QED BY Zenon, <2>1, <2>2, MovingCapacity
<1>3. CASE TimerWins(r) \/ CancelAcquire(r)
  <2>1. /\ UNCHANGED <<semVars, poolVars, outcome>> /\ pc[r] = "acquiring"
        /\ \E l \in {"expired", "cancelled"} : pc' = [pc EXCEPT ![r] = l]
    BY Zenon, <1>3 DEF TimerWins, CancelAcquire
  <2>2. r \in Accounted => r \in Accounted'
    BY Zenon, <1>0, <2>1 DEF Accounted, Entitled, Holders, Signalling, Lost, Holding, Checking, Using
  <2> QED BY Zenon, <2>1, <2>2, MovingCapacity
<1>4. CASE SemaphoreWins(r)
  <2>1. /\ UNCHANGED <<permits, poolVars, outcome>> /\ pc[r] = "acquiring"
        /\ \E l \in {"won", "taking"} : pc' = [pc EXCEPT ![r] = l]
        /\ \/ st[r] = "handed" /\ st' = [st EXCEPT ![r] = "acquired"]
           \/ st[r] = "dropped" /\ st' = [st EXCEPT ![r] = "refused"]
    BY Zenon, <1>4 DEF SemaphoreWins, Deliver
  <2>2. (r \in Accounted => r \in Accounted') /\ st'[r] # "waiting"
    BY Zenon, <1>0, <2>1 DEF Accounted, Entitled, Holders, Signalling, Lost, Holding, Checking, Using
  <2> QED BY ZenonT(60), <2>1, <2>2, MovingCapacity
<1>5. CASE AcquireGivenUp(r)
  <2>1. /\ UNCHANGED <<permits, poolVars>> /\ pc[r] \in {"expired", "cancelled"}
        /\ \E x \in Status \ {"waiting"} : st' = [st EXCEPT ![r] = x]
    BY Zenon, <1>5 DEF AcquireGivenUp, Deliver, Stop, StopQueued, StopUnqueued
  <2>2. CASE /\ pc' = [pc EXCEPT ![r] = "done"]
             /\ \E x \in {"timeout", "stopped"} : outcome' = [outcome EXCEPT ![r] = x]
    <3>1. r \in Accounted' /\ st'[r] # "waiting"
      BY Zenon, <1>0, <2>1, <2>2 DEF Accounted, Lost
    <3> QED BY Zenon, <2>1, <2>2, <3>1, MovingCapacity
  <2>3. CASE Deliver(r) /\ pc' = [pc EXCEPT ![r] = "taking"] /\ UNCHANGED outcome
    <3>1. \/ st[r] = "handed" /\ st' = [st EXCEPT ![r] = "acquired"]
          \/ st[r] = "dropped" /\ st' = [st EXCEPT ![r] = "refused"]
      BY Zenon, <2>3 DEF Deliver
    <3>2. (r \in Accounted => r \in Accounted') /\ st'[r] # "waiting"
      BY Zenon, <1>0, <2>1, <2>3, <3>1
         DEF Accounted, Entitled, Holders, Signalling, Lost, Holding, Checking, Using
    <3> QED BY Zenon, <2>1, <2>3, <3>2, MovingCapacity
  <2> QED BY SMTT(30), <1>5, <2>2, <2>3 DEF AcquireGivenUp
<1>6. CASE WonJoin(r)
  <2>1. /\ UNCHANGED <<semVars, poolVars>> /\ pc[r] = "won"
        /\ \/ pc' = [pc EXCEPT ![r] = "taking"] /\ UNCHANGED outcome
           \/ pc' = [pc EXCEPT ![r] = "done"] /\ outcome' = [outcome EXCEPT ![r] = "stopped"]
    BY SMTT(30), <1>6 DEF WonJoin
  <2>2. (r \in Accounted => r \in Accounted') /\ st[r] # "waiting"
    BY Zenon, <1>0, <2>1 DEF Accounted, Entitled, Holders, Signalling, Lost, Holding, Checking, Using,
                      PoolInv, SemInv
  <2> QED BY Zenon, <2>1, <2>2, MovingCapacity
<1>7. CASE TakeIndex(r)
  <2>1. /\ UNCHANGED <<semVars, poolClosed>> /\ pc[r] = "taking"
        /\ \/ /\ st[r] = "refused" \/ poolClosed
              /\ pc' = [pc EXCEPT ![r] = "done"] /\ outcome' = [outcome EXCEPT ![r] = "closed"]
           \/ outcome' = [outcome EXCEPT ![r] = "internal"]
           \/ pc' = [pc EXCEPT ![r] = "checking"] /\ UNCHANGED outcome
    BY SMTT(30), <1>7 DEF TakeIndex
  <2>2. st[r] # "waiting"
    BY Zenon, <2>1 DEF PoolInv, SemInv
  <2>3. outcome' # [outcome EXCEPT ![r] = "internal"]
    BY Zenon, <1>0 DEF NoInternalError
  <2>4. r \in Accounted => r \in Accounted' \/ poolClosed
    BY Zenon, <1>0, <2>1, <2>3
       DEF Accounted, Entitled, Holders, Signalling, Lost, Holding, Checking, Using
  <2> QED BY Zenon, <2>1, <2>2, <2>3, <2>4, MovingCapacity
<1> QED BY Zenon, <1>1, <1>2, <1>3, <1>4, <1>5, <1>6, <1>7 DEF AcquireStep

\* The index goes back first and the permit after it: in between the request
\* itself accounts for the permit, which then is free or a waiter's.
LEMMA ReleaseCapacity ==
  ASSUME CountFacts, PoolInv, CapacityInv, NEW r \in Op, ReleaseStep(r)
  PROVE  CapacityInv'
<1> USE DEF Status
<1>0. pc \in [Op -> PC] /\ st \in [Op -> Status] /\ outcome \in [Op -> Outcome] /\ permits \in Nat
  BY Zenon, PoolShape
<1>1. CASE PushIndex(r)
  <2>1. /\ UNCHANGED <<semVars, poolClosed, outcome>> /\ pc[r] = "returning"
        /\ \/ pc' = [pc EXCEPT ![r] = "signalling"]
           \/ poolClosed /\ pc' = [pc EXCEPT ![r] = "done"]
    BY Zenon, <1>1 DEF PushIndex
  <2>2. st[r] # "waiting"
    BY Zenon, <2>1 DEF CapacityInv, WaitsQueued
  <2>3. r \in Accounted' \/ poolClosed
    BY Zenon, <1>0, <2>1 DEF Accounted, Signalling
  <2> QED BY Zenon, <2>1, <2>2, <2>3, MovingCapacity
<1>2. CASE Signal(r)
  <2>1. /\ pc[r] = "signalling" /\ pc' = [pc EXCEPT ![r] = "done"]
        /\ UNCHANGED <<poolVars, outcome>>
        /\ IF closed THEN UNCHANGED semVars ELSE Release(1)
    BY Zenon, <1>2 DEF Signal
  <2>2. st[r] # "waiting" /\ r \in Accounted
    BY Zenon, <2>1 DEF CapacityInv, WaitsQueued, Accounted, Signalling
  <2>3. CASE closed
    <3>1. poolClosed
      BY Zenon, <2>3 DEF PoolInv, SemInv
    <3> QED BY Zenon, <2>1, <2>2, <2>3, <3>1, MovingCapacity
  <2>4. CASE permits' = permits + 1 /\ UNCHANGED st
    <3>1. \A q \in Op \ {r, r} : pc'[q] = pc[q] /\ st'[q] = st[q] /\ outcome'[q] = outcome[q]
      BY SMTT(30), <1>0, <2>1, <2>4
    <3>2. /\ Accounted' \subseteq Accounted \cup {r, r}
          /\ Accounted \ {r, r} \subseteq Accounted'
      BY Zenon, <3>1, OthersAccounted
    <3>3. Accounted' \subseteq Accounted \cup {r} /\ Accounted \ {r} \subseteq Accounted'
      BY Zenon, <3>2
    <3>4. WaitsQueued'
      BY Zenon, <1>0, <2>1, <2>2, <2>4, <3>1 DEF WaitsQueued, CapacityInv
    <3> QED BY Zenon, <2>1, <2>4, <3>3, <3>4, CapacityStays
  <2>5. ASSUME NEW w \in Op, st[w] = "waiting", permits' = permits, st' = [st EXCEPT ![w] = "handed"]
        PROVE  CapacityInv'
    <3>1. w # r /\ w \notin Accounted
      BY Zenon, <2>2, <2>5 DEF CapacityInv, WaitsQueued, Accounted, Entitled, Holders, Signalling, Lost,
                        Holding, Checking, Using
    <3>2. \A q \in Op \ {r, w} : pc'[q] = pc[q] /\ st'[q] = st[q] /\ outcome'[q] = outcome[q]
      BY SMTT(30), <1>0, <2>1, <2>5
    <3>3. /\ Accounted' \subseteq Accounted \cup {r, w}
          /\ Accounted \ {r, w} \subseteq Accounted'
      BY Zenon, <3>2, OthersAccounted
    <3>4. w \in Accounted'
      BY Zenon, <1>0, <2>5 DEF Accounted, Entitled
    <3>5. WaitsQueued'
      BY Zenon, <1>0, <2>1, <2>2, <2>5, <3>2 DEF WaitsQueued, CapacityInv
    <3>6. N \in Nat /\ IsFiniteSet(Accounted)
      BY Zenon, PoolAssumption DEF CapacityInv
    <3>7. /\ IsFiniteSet(Accounted \ {r}) /\ Cardinality(Accounted \ {r}) = Cardinality(Accounted) - 1
          /\ Cardinality(Accounted) \in Nat
      BY Zenon, <2>2, <3>6 DEF CountFacts, RemoveCount, NatCount
    <3>8. /\ IsFiniteSet(Accounted \cup {w})
          /\ IsFiniteSet((Accounted \ {r}) \cup {w})
          /\ Cardinality((Accounted \ {r}) \cup {w}) = Cardinality(Accounted \ {r}) + 1
      BY Zenon, <3>1, <3>6, <3>7 DEF CountFacts, AddCount
    <3>9. Accounted' \subseteq Accounted \cup {w} /\ (Accounted \ {r}) \cup {w} \subseteq Accounted'
      BY Zenon, <2>2, <3>1, <3>3, <3>4
    <3>10. /\ IsFiniteSet(Accounted') /\ Cardinality(Accounted') \in Nat
           /\ Cardinality((Accounted \ {r}) \cup {w}) <= Cardinality(Accounted')
      BY Zenon, <3>8, <3>9, CountShrinks
    <3>11. ASSUME ~poolClosed PROVE permits' + Cardinality(Accounted') >= N
      BY SMTT(30), <1>0, <2>5, <3>6, <3>7, <3>8, <3>10, <3>11 DEF CapacityInv
    <3> QED BY SMTT(30), <2>1, <3>5, <3>10, <3>11 DEF CapacityInv
  <2>6. CASE ~closed
    BY SMTT(30), <2>1, <2>4, <2>5, <2>6, ReleaseOne
  <2> QED BY Zenon, <2>3, <2>6
<1> QED BY Zenon, <1>1, <1>2 DEF ReleaseStep

\* close() owes nobody a permit.
LEMMA CloseCapacity ==
  ASSUME CountFacts, PoolInv, CapacityInv, NEW c \in Closer, CloseMark(c) \/ CloseStep(c)
  PROVE  CapacityInv'
<1>0. pc \in [Op -> PC] /\ st \in [Op -> Status] /\ permits \in Nat
  BY SMTT(30), PoolShape
<1>1. UNCHANGED reqVars /\ (poolClosed => poolClosed')
  BY DEF CloseMark, CloseStep, CloseSemaphore, CloseConnection, ConnectionClosed
<1>2. CASE UNCHANGED semVars
  <2>1. Accounted' = Accounted /\ WaitsQueued'
    BY Zenon, <1>1, <1>2 DEF Accounted, Entitled, Holders, Signalling, Lost, WaitsQueued, CapacityInv
  <2> QED BY SMTT(30), <1>1, <1>2, <2>1 DEF CapacityInv
<1>3. CASE CloseSemaphore(c) /\ Close
  <2>1. poolClosed'
    BY Zenon, <1>3 DEF CloseSemaphore, PoolInv, SemInv
  <2>2. st' = [o \in Op |-> IF st[o] = "waiting" THEN "dropped" ELSE st[o]]
    BY Zenon, <1>3 DEF Close
  <2>3. Accounted' \subseteq Accounted \cup {c}
    <3>1. Accounted' \subseteq Op
      BY Zenon DEF Accounted, Entitled, Holders, Signalling, Lost
    <3>2. ASSUME NEW q \in Op PROVE q \in Accounted' => q \in Accounted
      BY Zenon, <1>0, <1>1, <2>2 DEF Accounted, Entitled, Holders, Signalling, Lost
    <3> QED BY SMTT(30), <3>1, <3>2
  <2>4. WaitsQueued'
    BY Zenon, <1>0, <2>2 DEF WaitsQueued
  <2> QED BY SMTT(30), <2>1, <2>3, <2>4, CapacityStays
<1> QED BY ZenonT(60), <1>2, <1>3 DEF CloseMark, CloseStep, CloseSemaphore, CloseConnection, ConnectionClosed

\* A step of the pool keeps its capacity.
LEMMA PoolCapacity ==
  ASSUME CountFacts, PoolInv, CapacityInv, PoolNext, NoInternalError'
  PROVE  CapacityInv'
BY Zenon, AcquireCapacity, HealthCapacity, ReleaseCapacity, CloseCapacity DEF PoolNext

\* ... which is what the requests that hold, wait for or lost a permit make up.
LEMMA CapacityMeans ==
  ASSUME CountFacts, PoolInv, CapacityInv
  PROVE  CapacityKept
<1> DEFINE live == Entitled \cup Holders \cup Signalling
<1> DEFINE left == Accounted \ live
<1>0. N \in Nat /\ permits \in Nat
  BY Zenon, PoolShape, PoolAssumption
<1>1. Accounted = live \cup left /\ live \cap left = {} /\ left \subseteq Lost
      /\ live \subseteq Accounted /\ left \subseteq Accounted /\ Lost \subseteq Accounted
  BY Zenon DEF Accounted
<1> HIDE DEF live, left
<1>2. IsFiniteSet(Accounted) /\ IsFiniteSet(Lost) /\ Cardinality(Lost) \in Nat
  BY Zenon, <1>1, CountShrinks DEF CapacityInv
<1>3. /\ IsFiniteSet(live) /\ Cardinality(live) \in Nat
      /\ IsFiniteSet(left) /\ Cardinality(left) \in Nat /\ Cardinality(left) <= Cardinality(Lost)
  BY Zenon, <1>1, <1>2, CountShrinks
<1>4. Cardinality(Accounted) = Cardinality(live) + Cardinality(left)
  BY Zenon, <1>1, <1>3 DEF CountFacts, UnionCount
<1>5. ~poolClosed => permits + Cardinality(live) + Cardinality(Lost) >= N
  BY <1>0, <1>2, <1>3, <1>4 DEF CapacityInv
<1> QED BY Zenon, <1>5 DEF CapacityKept, live

\* What holds at first.
LEMMA MoreInit ==
  ASSUME CountFacts, PoolInit
  PROVE  CapacityInv /\ GuardInv /\ WalkInv /\ busy = {} /\ CloseFailsBusy
<1> USE DEF PoolInit
<1>1. N \in Nat \ {0} /\ open \in SUBSET (1..N)
  BY Zenon, PoolAssumption DEF Index
<1>2. Accounted = {}
  BY Zenon DEF Accounted, Entitled, Holders, Signalling, Lost, Holding, Checking, Using
<1>3. IsFiniteSet(Accounted) /\ Cardinality(Accounted) = 0
  BY Zenon, <1>2 DEF CountFacts, EmptyCount
<1>4. CapacityInv
  BY <1>1, <1>3 DEF CapacityInv, WaitsQueued
<1>5. ReqGuards = {} /\ CloseGuards = {}
  BY Zenon DEF ReqGuards, CloseGuards, Guarded
<1>6. GuardInv /\ busy = {} /\ CloseFailsBusy
  BY Zenon, <1>5 DEF GuardInv, CloseFailsBusy
<1>7. WalkInv
  BY SMTT(30), <1>1 DEF WalkInv
<1> QED BY Zenon, <1>4, <1>6, <1>7

\* Who owns the flags, counted.
LEMMA GuardsCounted ==
  ASSUME CountFacts, PoolInv, GuardInv, LingerInv
  PROVE  RedisGuardExclusive
<1> SUFFICES ASSUME NEW i \in Index
             PROVE  Cardinality({r \in Op : pc[r] \in Guarded /\ idx[r] = i})
                      + Cardinality({c \in Closer : cpc[c] = "closing" /\ cpos[c] = i})
                      + Cardinality(lingering \cap {i})
                    = IF i \in busy THEN 1 ELSE 0
  BY Zenon DEF RedisGuardExclusive
<1> DEFINE R == {r \in Op : pc[r] \in Guarded /\ idx[r] = i}
           C == {c \in Closer : cpc[c] = "closing" /\ cpos[c] = i}
           L == lingering \cap {i}
<1>0. /\ Cardinality({}) = 0
      /\ \A x : Cardinality({x}) = 1
  <2>1. \A x : {} \cup {x} = {x}
    BY Zenon
  <2> QED BY <2>1 DEF CountFacts, EmptyCount, AddCount
<1>1. /\ R = {r \in ReqGuards : idx[r] = i}
      /\ C = {c \in CloseGuards : cpos[c] = i}
  BY Zenon DEF ReqGuards, CloseGuards
<1> HIDE DEF R, C
<1>2. \A r, q \in R : r = q
  BY Zenon, <1>1, ReqGuardsApart
<1>3. \A c, d \in C : c = d
  BY Zenon, <1>1 DEF GuardInv
<1>4. CASE i \notin busy
  <2>1. R = {} /\ C = {} /\ L = {}
    BY ZenonT(60), <1>1, <1>4 DEF GuardInv, LingerInv
  <2> QED BY SMTT(30), <1>0, <1>4, <2>1 DEF R, C
<1>5. CASE i \in lingering
  <2>1. R = {} /\ C = {} /\ L = {i} /\ i \in busy
    BY Zenon, <1>1, <1>5 DEF LingerInv, BusyOwned
  <2>2. Cardinality(R) = 0 /\ Cardinality(C) = 0 /\ Cardinality(L) = 1
    BY Zenon, <1>0, <2>1
  <2> QED BY <2>1, <2>2 DEF R, C
<1>6. ASSUME NEW r \in R PROVE R = {r} /\ C = {} /\ L = {} /\ i \in busy
  BY SMTT(30), <1>1, <1>2, <1>6 DEF GuardInv, LingerInv, BusyOwned
<1>7. ASSUME NEW c \in C PROVE R = {} /\ C = {c} /\ L = {} /\ i \in busy
  BY SMTT(30), <1>1, <1>3, <1>7 DEF GuardInv, LingerInv, BusyOwned
<1>8. CASE i \in busy /\ i \notin lingering
  <2>1. (\E r : r \in R) \/ (\E c : c \in C)
    BY Zenon, <1>1, <1>8 DEF LingerInv, BusyOwned
  <2>2. \/ \E r : R = {r} /\ C = {} /\ L = {}
        \/ \E c : R = {} /\ C = {c} /\ L = {}
    BY Zenon, <2>1, <1>6, <1>7
  <2>3. \/ Cardinality(R) = 1 /\ Cardinality(C) = 0 /\ Cardinality(L) = 0
        \/ Cardinality(R) = 0 /\ Cardinality(C) = 1 /\ Cardinality(L) = 0
    BY <2>2, <1>0, Zenon
  <2> QED BY <1>8, <2>3 DEF R, C
<1> QED BY SMTT(30), <1>4, <1>5, <1>8

-----------------------------------------------------------------------------
(* The SQL pool. *)

\* The use and the return of a lease keep the invariant.
LEMMA LeaseStepInv ==
  ASSUME CountFacts, PoolInv, NEW r \in Op, LeaseStep(r) \/ LeaseUse(r) \/ LeaseRelease(r)
  PROVE  PoolInv'
<1>1. pc[r] \in Using /\ UNCHANGED <<semVars, poolVars, idx, closeVars>>
  BY Zenon DEF LeaseStep, Lease, LeaseUse, LeaseUsed, LeaseRelease, Using
<1>2. idx[r] \in Index
  BY Zenon, <1>1 DEF PoolInv, LeaseInv, Holders, Holding
<1>3. open' \in SUBSET Index /\ busy' \in SUBSET Index
  BY SMTT(30), <1>2, PoolShape DEF LeaseStep, Lease, LeaseUse, LeaseUsed, LeaseRelease, EndGuarded
<1>4. \E l \in Holding \cup {"done"} :
        /\ pc' = [pc EXCEPT ![r] = l]
        /\ \/ UNCHANGED outcome
           \/ \E x \in Outcome \ {"internal"} : outcome' = [outcome EXCEPT ![r] = x]
  BY Zenon DEF LeaseStep, Lease, LeaseUse, LeaseUsed, LeaseRelease, EndGuarded, Holding, Using, Outcome
<1> QED BY ZenonT(60), <1>1, <1>3, <1>4, HoldingInv DEF Holding

\* ... and what the pool promises beyond it: a lease in use owns the flag.
LEMMA LeaseStepMore ==
  ASSUME CountFacts, PoolInv, CapacityInv, NEW r \in Op,
         LeaseStep(r) \/ LeaseUse(r) \/ LeaseRelease(r)
  PROVE  GuardsMove /\ WalkStays /\ CapacityInv'
<1> USE DEF Using, Holding, Guarded
<1>0. pc[r] \in Holding /\ UNCHANGED <<semVars, poolVars, idx, closeVars>>
  BY SMTT(30) DEF LeaseStep, Lease, LeaseUse, LeaseUsed, LeaseRelease
<1>1. WalkStays
  BY Zenon, <1>0 DEF WalkStays, LeaseStep, Lease, LeaseUse, LeaseUsed, LeaseRelease
<1>2. CapacityInv'
  <2>1. /\ \E l \in Holding : pc' = [pc EXCEPT ![r] = l]
        /\ UNCHANGED outcome \/ \E x : outcome' = [outcome EXCEPT ![r] = x]
    BY Zenon DEF LeaseStep, Lease, LeaseUse, LeaseUsed, LeaseRelease, EndGuarded
  <2> QED BY Zenon, <1>0, <2>1, HoldingCapacity
<1>3. GuardsMove
  <2>1. CASE Lease(r) \/ LeaseRelease(r)
    <3>1. /\ pc[r] \notin Guarded /\ busy' = busy
          /\ \E l : l \notin Guarded /\ pc' = [pc EXCEPT ![r] = l]
      BY Zenon, <2>1 DEF Lease, LeaseRelease
    <3> QED BY Zenon, <1>0, <3>1, PlainStay DEF GuardsMove
  <2>2. CASE LeaseUse(r)
    <3>1. "using" \in Guarded /\ idx[r] \notin busy /\ busy' = busy \cup {idx[r]}
          /\ pc' = [pc EXCEPT ![r] = "using"]
      BY Zenon, <2>2 DEF LeaseUse
    <3> QED BY Zenon, <1>0, <3>1, LabelGuards DEF GuardsMove, ReqBegins
  <2>3. CASE LeaseUsed(r)
    <3>1. "leased" \notin Guarded /\ pc[r] \in Guarded /\ busy' = busy \ {idx[r]}
          /\ pc' = [pc EXCEPT ![r] = "leased"]
      BY Zenon, <2>3 DEF LeaseUsed, EndGuarded
    <3> QED BY Zenon, <1>0, <3>1, EndGuards
  <2> QED BY Zenon, <2>1, <2>2, <2>3 DEF LeaseStep
<1> QED BY SMTT(30), <1>1, <1>2, <1>3

\* The invariant of the SQL pool holds when create() has succeeded.
LEMMA SqlInvInit ==
  ASSUME CountFacts, PoolInit
  PROVE  SqlInv
BY Zenon, PoolInitInv, MoreInit DEF SqlInv

\* Every step of the SQL pool keeps its invariant.
LEMMA SqlInvStep ==
  ASSUME CountFacts, SqlInv, [SqlNext]_vars
  PROVE  SqlInv'
<1>0. PoolInv /\ CapacityInv /\ GuardInv /\ WalkInv /\ CloseFailsBusy
      /\ \A i \in busy : BusyOwned(i)
  BY Zenon DEF SqlInv
<1>1. ASSUME GuardsMove PROVE GuardInv' /\ \A i \in busy' : BusyOwned(i)'
  BY Zenon, <1>0, <1>1, GuardInvKept, OwnersKept
<1>2. CASE UNCHANGED vars
  <2>1. PoolInv'
    BY SMTT(30), <1>0, <1>2, PoolShape, PoolStutterInv
  <2>2. GuardsStay /\ WalkStays
    BY ZenonT(60), <1>2 DEF GuardsStay, WalkStays, ReqGuards, CloseGuards
  <2>3. Accounted' = Accounted /\ WaitsQueued'
    BY Zenon, <1>0, <1>2 DEF Accounted, Entitled, Holders, Signalling, Lost, WaitsQueued, CapacityInv
  <2>4. CapacityInv'
    BY Zenon, <1>0, <1>2, <2>3 DEF CapacityInv
  <2>5. open' \in SUBSET Index
    BY Zenon, <1>0, <1>2, PoolShape
  <2> QED BY SMTT(30), <1>0, <1>1, <2>1, <2>2, <2>4, <2>5, WalkKept, RequestFailsBusy DEF SqlInv, GuardsMove
<1>3. CASE PoolNext
  <2>1. PoolInv'
    BY Zenon, <1>0, <1>3, PoolNextInv
  <2>2. NoInternalError' /\ open' \in SUBSET Index
    BY Zenon, <2>1 DEF PoolInv, PoolTypeOK
  <2>3. CapacityInv' /\ GuardsMove /\ WalkInv'
    BY SMTT(30), <1>0, <1>3, <2>2, PoolCapacity, PoolGuardsMove, PoolWalks
  <2>4. CloseFailsBusy'
    BY Zenon, <1>0, <1>3, RequestWalks, RequestFailsBusy, CloseFailsBusyKept DEF PoolNext
  <2> QED BY Zenon, <1>1, <2>1, <2>3, <2>4 DEF SqlInv
<1>4. ASSUME NEW r \in Op, LeaseStep(r) \/ LeaseUse(r) \/ LeaseRelease(r) PROVE SqlInv'
  <2>1. PoolInv'
    BY Zenon, <1>0, <1>4, LeaseStepInv
  <2>2. open' \in SUBSET Index
    BY Zenon, <2>1 DEF PoolInv, PoolTypeOK
  <2>3. GuardsMove /\ WalkStays /\ CapacityInv'
    BY Zenon, <1>0, <1>4, LeaseStepMore
  <2> QED BY Zenon, <1>0, <1>1, <2>1, <2>2, <2>3, WalkKept, RequestFailsBusy DEF SqlInv
<1> QED BY Zenon, <1>2, <1>3, <1>4 DEF SqlNext

-----------------------------------------------------------------------------
(* The Redis pool, whose commands may hold their busy_ flag a little longer *)
(* than the index.                                                          *)

\* A command keeps the invariant.
LEMMA CommandStepInv ==
  ASSUME CountFacts, PoolInv, NEW r \in Op, CommandStep(r)
  PROVE  PoolInv'
<1>1. pc[r] \in Using /\ UNCHANGED <<semVars, poolVars, idx, closeVars>>
  BY Zenon DEF CommandStep, Command, CommandEnds, Using
<1>2. idx[r] \in Index
  BY SMTT(30), <1>1 DEF PoolInv, LeaseInv, Holders, Holding
<1>3. open' \in SUBSET Index /\ busy' \in SUBSET Index
  BY SMTT(30), <1>2, PoolShape DEF CommandStep, Command, CommandEnds, BeginGuarded
<1>4. \E l \in Holding \cup {"done"} :
        /\ pc' = [pc EXCEPT ![r] = l]
        /\ \/ UNCHANGED outcome
           \/ \E x \in Outcome \ {"internal"} : outcome' = [outcome EXCEPT ![r] = x]
  BY Zenon DEF CommandStep, Command, CommandEnds, BeginGuarded, Holding, Using, Outcome
<1> QED BY Zenon, <1>1, <1>3, <1>4, HoldingInv DEF Holding

\* A step that moves the flags as the shared code does leaves the flags of
\* finished commands alone.
LEMMA LingerKept ==
  ASSUME PoolInv, GuardInv, LingerInv, GuardsMove, UNCHANGED lingering
  PROVE  GuardInv' /\ LingerInv'
<1>1. GuardInv'
  BY Zenon, GuardInvKept
<1>2. \A i \in lingering : i \in busy /\ ~BusyOwned(i) /\ i \in busy'
  BY Zenon, OwnersKept DEF LingerInv
<1>3. \A i \in lingering : ~BusyOwned(i)'
  BY Zenon, <1>2, OwnersKept
<1>4. \A i \in busy' \ lingering : BusyOwned(i)'
  BY Zenon, OwnersKept DEF LingerInv
<1> QED BY Zenon, <1>1, <1>2, <1>3, <1>4 DEF LingerInv

\* The flag of a command that ended passes from the request to the operation
\* state that is still to be destroyed.
LEMMA CommandLingers ==
  ASSUME PoolInv, GuardInv, LingerInv, NEW r \in ReqGuards, ReqGuards' = ReqGuards \ {r},
         lingering' = lingering \cup {idx[r]}, UNCHANGED <<busy, idx, closeVars>>
  PROVE  GuardInv' /\ LingerInv'
<1>1. CloseGuards' = CloseGuards
  BY Zenon DEF CloseGuards
<1>2. GuardInv'
  BY SMTT(30), <1>1 DEF GuardInv
<1>3. lingering' \subseteq busy'
  BY SMTT(30) DEF GuardInv, LingerInv
<1>4. ASSUME NEW i \in lingering' PROVE ~BusyOwned(i)'
  BY SMTT(30), <1>1, ReqGuardsApart DEF GuardInv, LingerInv, BusyOwned
<1>5. ASSUME NEW i \in busy' \ lingering' PROVE BusyOwned(i)'
  BY Zenon, <1>1 DEF LingerInv, BusyOwned
<1> QED BY Zenon, <1>2, <1>3, <1>4, <1>5 DEF LingerInv

\* ... and is cleared with it.
LEMMA GuardDropped ==
  ASSUME PoolInv, GuardInv, LingerInv, NEW i, DropGuard(i)
  PROVE  GuardInv' /\ LingerInv'
<1>1. ReqGuards' = ReqGuards /\ CloseGuards' = CloseGuards
  BY SMTT(30) DEF DropGuard, ReqGuards, CloseGuards
<1>2. \A j : BusyOwned(j)' <=> BusyOwned(j)
  BY SMTT(30), <1>1 DEF DropGuard, BusyOwned
<1>3. GuardInv'
  BY Zenon, <1>1 DEF DropGuard, GuardInv, LingerInv, BusyOwned
<1>4. LingerInv'
  BY Zenon, <1>2 DEF DropGuard, LingerInv
<1> QED BY Zenon, <1>3, <1>4

\* A command owns the flag from its start to the destruction of its operation
\* state, stays accounted for, and opens nothing.
LEMMA CommandStepMore ==
  ASSUME CountFacts, PoolInv, CapacityInv, GuardInv, LingerInv, NEW r \in Op, CommandStep(r)
  PROVE  GuardInv' /\ LingerInv' /\ WalkStays /\ CapacityInv'
<1> USE DEF Using, Holding, Guarded
<1>0. pc[r] \in Holding /\ UNCHANGED <<semVars, poolVars, idx, closeVars>>
  BY SMTT(30) DEF CommandStep, Command, CommandEnds
<1>1. WalkStays
  BY Zenon, <1>0 DEF WalkStays, CommandStep, Command, CommandEnds
<1>2. CapacityInv'
  <2>1. \/ /\ \E l \in Holding : pc' = [pc EXCEPT ![r] = l]
           /\ UNCHANGED outcome \/ \E x : outcome' = [outcome EXCEPT ![r] = x]
        \/ pc' = [pc EXCEPT ![r] = "done"] /\ outcome' = [outcome EXCEPT ![r] = "stopped"]
    BY SMTT(30) DEF CommandStep, Command, CommandEnds, BeginGuarded
  <2> QED BY SMTT(30), <1>0, <2>1, HoldingCapacity
<1>3. GuardInv' /\ LingerInv'
  <2>1. CASE Command(r)
    <3>1. "commanding" \in Guarded /\ BeginGuarded(r, "commanding") /\ UNCHANGED lingering
          /\ pc[r] \notin Guarded
      BY Zenon, <2>1 DEF Command
    <3> QED BY Zenon, <1>0, <3>1, BeginGuards, LingerKept
  <2>2. CASE CommandEnds(r) /\ busy' = busy \ {idx[r]} /\ UNCHANGED lingering
             /\ pc' = [pc EXCEPT ![r] = "done"]
    <3>1. "done" \notin Guarded /\ pc[r] \in Guarded
      BY Zenon, <2>2 DEF CommandEnds
    <3> QED BY Zenon, <1>0, <2>2, <3>1, EndGuards, LingerKept
  <2>3. CASE CommandEnds(r) /\ UNCHANGED busy /\ lingering' = lingering \cup {idx[r]}
             /\ pc' = [pc EXCEPT ![r] = "returning"]
    <3>1. "returning" \notin Guarded /\ pc[r] \in Guarded
      BY Zenon, <2>3 DEF CommandEnds
    <3>2. r \in ReqGuards /\ ReqGuards' = ReqGuards \ {r}
      BY Zenon, <2>3, <3>1, LabelGuards DEF ReqGuards
    <3> QED BY Zenon, <1>0, <2>3, <3>2, CommandLingers
  <2> QED BY Zenon, <2>1, <2>2, <2>3 DEF CommandStep, CommandEnds
<1> QED BY ZenonT(60), <1>1, <1>2, <1>3

\* The invariant of the Redis pool holds when create() has succeeded.
LEMMA RedisInvInit ==
  ASSUME CountFacts, RedisInit
  PROVE  RedisInv
BY Zenon, PoolInitInv, MoreInit DEF RedisInv, RedisInit, LingerInv

\* Every step of the Redis pool keeps its invariant.
LEMMA RedisInvStep ==
  ASSUME CountFacts, RedisInv, [RedisNext]_redisVars
  PROVE  RedisInv'
<1>0. PoolInv /\ CapacityInv /\ GuardInv /\ WalkInv /\ LingerInv
  BY Zenon DEF RedisInv
<1>1. ASSUME UNCHANGED <<semVars, poolVars, reqVars, open, closeVars>>, busy' \in SUBSET Index
      PROVE  PoolInv' /\ CapacityInv' /\ WalkInv'
  <2>1. PoolInv'
    BY Zenon, <1>0, <1>1, PoolStutterInv
  <2>2. WalkStays /\ open' \in SUBSET Index
    BY SMTT(30), <1>0, <1>1, PoolShape DEF WalkStays
  <2>3. Accounted' = Accounted /\ WaitsQueued'
    BY Zenon, <1>0, <1>1 DEF Accounted, Entitled, Holders, Signalling, Lost, WaitsQueued, CapacityInv
  <2>4. CapacityInv'
    BY ZenonT(60), <1>0, <1>1, <2>3 DEF CapacityInv
  <2> QED BY Zenon, <1>0, <2>1, <2>2, <2>4, WalkKept
<1>2. CASE UNCHANGED redisVars
  <2>1. GuardsStay
    BY Zenon, <1>2 DEF redisVars, GuardsStay, ReqGuards, CloseGuards
  <2>2. GuardInv' /\ LingerInv'
    BY Zenon, <1>0, <1>2, <2>1, LingerKept DEF redisVars, GuardsMove
  <2>3. busy' \in SUBSET Index
    BY Zenon, <1>0, <1>2, PoolShape DEF redisVars
  <2> QED BY SMTT(30), <1>1, <1>2, <2>2, <2>3 DEF redisVars, RedisInv
<1>3. CASE PoolNext /\ UNCHANGED lingering
  <2>1. PoolInv'
    BY Zenon, <1>0, <1>3, PoolNextInv
  <2>2. NoInternalError' /\ open' \in SUBSET Index
    BY Zenon, <2>1 DEF PoolInv, PoolTypeOK
  <2>3. CapacityInv' /\ GuardsMove /\ WalkInv'
    BY ZenonT(60), <1>0, <1>3, <2>2, PoolCapacity, PoolGuardsMove, PoolWalks
  <2> QED BY Zenon, <1>0, <1>3, <2>1, <2>3, LingerKept DEF RedisInv
<1>4. ASSUME NEW r \in Op, CommandStep(r) PROVE RedisInv'
  <2>1. PoolInv'
    BY Zenon, <1>0, <1>4, CommandStepInv
  <2>2. open' \in SUBSET Index
    BY Zenon, <2>1 DEF PoolInv, PoolTypeOK
  <2>3. GuardInv' /\ LingerInv' /\ WalkStays /\ CapacityInv'
    BY Zenon, <1>0, <1>4, CommandStepMore
  <2> QED BY Zenon, <1>0, <2>1, <2>2, <2>3, WalkKept DEF RedisInv
<1>5. ASSUME NEW i \in Index, DropGuard(i) PROVE RedisInv'
  <2>1. UNCHANGED <<semVars, poolVars, reqVars, open, closeVars>> /\ busy' \in SUBSET Index
    BY Zenon, <1>0, <1>5, PoolShape DEF DropGuard
  <2> QED BY Zenon, <1>0, <1>1, <1>5, <2>1, GuardDropped DEF RedisInv
<1> QED BY Zenon, <1>2, <1>3, <1>4, <1>5
       DEF RedisNext, PoolNext, AcquireIndex, EnsureHealthy, ReleaseIndex, ClosePool

-----------------------------------------------------------------------------
LOCAL INSTANCE FiniteSetTheorems

\* The copies of IsFiniteSet and Cardinality that the library comes with are the
\* ones of SequenceLemmas.
LEMMA CountsAgree == \A S : (Finite(S) <=> IsFiniteSet(S)) /\ Count(S) = Cardinality(S)
<1>1. \A S : Finite(S) <=> IsFiniteSet(S)
  BY Zenon, CountsByDefinition DEF IsFiniteSet
<1>2. \A S : Count(S) = Cardinality(S)
  BY Zenon, CountsByDefinition DEF Cardinality
<1> QED BY ZenonT(60), <1>1, <1>2

\* The facts about finite sets hold.
LEMMA CountFactsHold == CountFacts
<1>1. Finite({}) /\ Count({}) = 0 /\ \A S : Finite(S) => Count(S) \in Nat
  BY ZenonT(60), CountsAgree, FS_EmptySet, FS_CardinalityType
<1>2. \A S, x : Finite(S) /\ x \notin S => Finite(S \cup {x}) /\ Count(S \cup {x}) = Count(S) + 1
  BY Zenon, CountsAgree, FS_AddElement
<1>3. \A S, x : Finite(S) /\ x \in S => Finite(S \ {x}) /\ Count(S \ {x}) = Count(S) - 1
  BY Zenon, CountsAgree, FS_RemoveElement
<1>4. \A S, T : Finite(S) /\ T \subseteq S => Finite(T) /\ Count(T) <= Count(S)
  BY ZenonT(60), CountsAgree, FS_Subset
<1>5. \A S, T : Finite(S) /\ Finite(T) =>
                  Finite(S \cup T) /\ Count(S \cup T) = Count(S) + Count(T) - Count(S \cap T)
  BY ZenonT(60), CountsAgree, FS_Union
<1> QED BY ZenonT(60), <1>1, <1>2, <1>3, <1>4, <1>5, CountFactsFollow

-----------------------------------------------------------------------------
(* The SQL pool. *)

\* The inductive invariant of the pool holds throughout.
THEOREM SqlPoolInvariant == SqlSpec => []SqlInv
<1>1. ASSUME SqlInv, [SqlNext]_vars PROVE SqlInv'
  BY ZenonT(60), <1>1, SqlInvStep, CountFactsHold
<1>2. PoolInit => SqlInv
  BY Zenon, SqlInvInit, CountFactsHold
<1> QED BY <1>1, <1>2, PTL DEF SqlSpec

\* Every field of the pool, of its requests and of its close() calls keeps
\* its type; the walk of close() stays within connections_.
THEOREM SqlPoolTypeCorrect == SqlSpec => []PoolTypeOK
<1>1. SqlInv => PoolTypeOK
  BY ZenonT(60) DEF SqlInv, PoolInv
<1> QED BY <1>1, SqlPoolInvariant, PTL

\* take_index never throws "connection pool internal state invalid".
THEOREM SqlPoolNoInternalError == SqlSpec => []NoInternalError
<1>1. SqlInv => NoInternalError
  BY ZenonT(60) DEF SqlInv, PoolInv
<1> QED BY <1>1, SqlPoolInvariant, PTL

\* No two leases share a connection and no leased connection is in the deque.
THEOREM SqlPoolLeaseExclusive == SqlSpec => []LeaseExclusive
<1>1. SqlInv => LeaseExclusive
  BY ZenonT(60) DEF SqlInv, PoolInv, LeaseInv
<1> QED BY <1>1, SqlPoolInvariant, PTL

\* A permit is lost only to a request that timed out or was stopped, and each
\* of those loses one at most: the pool of max_connections permits never
\* shrinks otherwise.
THEOREM SqlPoolCapacity == SqlSpec => []CapacityKept
<1>1. SqlInv => CapacityKept
  BY Zenon, CapacityMeans, CountFactsHold DEF SqlInv
<1> QED BY <1>1, SqlPoolInvariant, PTL

\* How close() ended says what it left behind: one that ended well leaves no
\* idle connection open, one that threw met a request that holds the
\* connection or another close(), and that reason is still there.
THEOREM SqlPoolClose == SqlSpec => [](CloseShutsIdle /\ CloseFailsBusy)
<1>1. SqlInv => CloseShutsIdle /\ CloseFailsBusy
  BY Zenon, WalkShutsIdle DEF SqlInv
<1> QED BY <1>1, SqlPoolInvariant, PTL

-----------------------------------------------------------------------------
(* The Redis pool. *)

\* The inductive invariant of the pool holds throughout.
THEOREM RedisPoolInvariant == RedisSpec => []RedisInv
<1>1. ASSUME RedisInv, [RedisNext]_redisVars PROVE RedisInv'
  BY ZenonT(60), <1>1, RedisInvStep, CountFactsHold
<1>2. RedisInit => RedisInv
  BY ZenonT(60), RedisInvInit, CountFactsHold
<1> QED BY <1>1, <1>2, PTL DEF RedisSpec

\* take_index never throws "redis pool internal state invalid".
THEOREM RedisPoolNoInternalError == RedisSpec => []NoInternalError
<1>1. RedisInv => NoInternalError
  BY ZenonT(60) DEF RedisInv, PoolInv
<1> QED BY <1>1, RedisPoolInvariant, PTL

\* No two commands run on the same client and no client in use is in the
\* deque.
THEOREM RedisPoolLeaseExclusive == RedisSpec => []LeaseExclusive
<1>1. RedisInv => LeaseExclusive
  BY ZenonT(60) DEF RedisInv, PoolInv, LeaseInv
<1> QED BY <1>1, RedisPoolInvariant, PTL

\* A command costs the pool a permit only if it timed out or was stopped.
THEOREM RedisPoolCapacity == RedisSpec => []CapacityKept
<1>1. RedisInv => CapacityKept
  BY Zenon, CapacityMeans, CountFactsHold DEF RedisInv
<1> QED BY <1>1, RedisPoolInvariant, PTL

\* The busy_ flag of a client is set exactly while one of a health check, a
\* command, a finished command not yet destroyed and a close() owns it, and
\* never two of them.
THEOREM RedisPoolGuards == RedisSpec => []RedisGuardExclusive
<1>1. RedisInv => RedisGuardExclusive
  BY ZenonT(60), GuardsCounted, CountFactsHold DEF RedisInv
<1> QED BY <1>1, RedisPoolInvariant, PTL

\* A close() that ended well leaves open only clients a request had taken.
THEOREM RedisPoolClose == RedisSpec => []CloseShutsIdle
<1>1. RedisInv => CloseShutsIdle
  BY Zenon, WalkShutsIdle DEF RedisInv
<1> QED BY <1>1, RedisPoolInvariant, PTL
=============================================================================
