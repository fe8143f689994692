------------------------------ MODULE Mailbox ------------------------------
(***************************************************************************)
(* flux::Mailbox: a bounded deque under a mutex and an atomic closed flag  *)
(* that close() stores without the mutex.  So the flag can change while a  *)
(* sender or a receiver is inside its critical section: a critical section *)
(* is cut at the load of the flag.  Receivers and send_for poll, with a    *)
(* sleep of 1 ms between two looks at the queue.                           *)
(*                                                                         *)
(* A message stands for the one call that sends it.                        *)
(***************************************************************************)
EXTENDS Naturals, Sequences, FiniteSets, Functions

CONSTANTS
  Message,    \* calls of try_send and send_for
  Receiver,   \* those who call recv(), one call at a time each
  Capacity,   \* capacity of the queue
  Nobody      \* the mutex is free

ASSUME MailboxAssumption ==
  /\ Capacity \in Nat \ {0}
  /\ Nobody \notin Message \cup Receiver
  /\ Message \cap Receiver = {}

VARIABLES
  queue,      \* State::queue
  closed,     \* State::closed
  holder,     \* who is inside a critical section
  send,       \* where each send is, or its result
  recv,       \* where each receiver is
  delivered,  \* history: the messages recv() returned, in order
  earlier     \* history: the messages accepted before a send was called

vars == <<queue, closed, holder, send, recv, delivered, earlier>>

TrySending == {"try", "trying"}            \* before, in the critical section
Waiting == {"loop", "looking", "asleep"}   \* send_for
Sent == {"true", "false", "stopped"}

Accepted == {m \in Message : send[m] = "true"}

\* create() clamps the capacity, so it is positive.
Init ==
  /\ queue = <<>>
  /\ closed = FALSE
  /\ holder = Nobody
  /\ send = [m \in Message |-> "idle"]
  /\ recv = [r \in Receiver |-> "idle"]
  /\ delivered = <<>>
  /\ earlier = [m \in Message |-> {}]

(***************************************************************************)
(* try_send and send_for                                                   *)
(***************************************************************************)

\* The call and its first look at closed, without the mutex.
Call(m, next) ==
  /\ send[m] = "idle"
  /\ send' = [send EXCEPT ![m] = IF closed THEN "false" ELSE next]
  /\ earlier' = [earlier EXCEPT ![m] = Accepted]
  /\ UNCHANGED <<queue, closed, holder, recv, delivered>>

TrySend(m) == Call(m, "try")
SendFor(m) == Call(m, "loop")

\* The while condition of send_for: the deadline has passed.
Expire(m) ==
  /\ send[m] = "loop"
  /\ send' = [send EXCEPT ![m] = "false"]
  /\ UNCHANGED <<queue, closed, holder, recv, delivered, earlier>>

\* Locking the mutex and loading closed.
SendClosed(m) ==
  /\ holder = Nobody
  /\ closed
  /\ \/ send[m] = "try"  /\ send' = [send EXCEPT ![m] = "false"]
     \/ send[m] = "loop" /\ send' = [send EXCEPT ![m] = "asleep"]
  /\ UNCHANGED <<queue, closed, holder, recv, delivered, earlier>>

SendOpen(m) ==
  /\ holder = Nobody
  /\ ~closed
  /\ \/ send[m] = "try"  /\ send' = [send EXCEPT ![m] = "trying"]
     \/ send[m] = "loop" /\ send' = [send EXCEPT ![m] = "looking"]
  /\ holder' = m
  /\ UNCHANGED <<queue, closed, recv, delivered, earlier>>

\* Mutant: send_for tries again after it has queued its message.
PushAgain(m) ==
  /\ holder = m
  /\ Len(queue) < Capacity
  /\ queue' = Append(queue, m)
  /\ send' = [send EXCEPT ![m] = IF @ = "looking" THEN "asleep" ELSE "true"]
  /\ holder' = Nobody
  /\ UNCHANGED <<closed, recv, delivered, earlier>>

\* The queue has room: push_back, unlock, return true.
Push(m) ==
  /\ holder = m
  /\ Len(queue) < Capacity
  /\ queue' = Append(queue, m)
  /\ send' = [send EXCEPT ![m] = "true"]
  /\ holder' = Nobody
  /\ UNCHANGED <<closed, recv, delivered, earlier>>

Full(m) ==
  /\ holder = m
  /\ Len(queue) >= Capacity
  /\ send' = [send EXCEPT ![m] = IF @ = "trying" THEN "false" ELSE "asleep"]
  /\ holder' = Nobody
  /\ UNCHANGED <<queue, closed, recv, delivered, earlier>>

\* sleep_for ends, or the coroutine is stopped in it.
SendWake(m) ==
  /\ send[m] = "asleep"
  /\ send' = [send EXCEPT ![m] = "loop"]
  /\ UNCHANGED <<queue, closed, holder, recv, delivered, earlier>>

SendStopped(m) ==
  /\ send[m] = "asleep"
  /\ send' = [send EXCEPT ![m] = "stopped"]
  /\ UNCHANGED <<queue, closed, holder, recv, delivered, earlier>>

(***************************************************************************)
(* recv                                                                    *)
(***************************************************************************)

RecvCall(r) ==
  /\ recv[r] = "idle"
  /\ recv' = [recv EXCEPT ![r] = "called"]
  /\ UNCHANGED <<queue, closed, holder, send, delivered, earlier>>

\* Locking the mutex: take the first message and return it ...
RecvMessage(r) ==
  /\ recv[r] = "called"
  /\ holder = Nobody
  /\ queue # <<>>
  /\ delivered' = Append(delivered, Head(queue))
  /\ queue' = Tail(queue)
  /\ recv' = [recv EXCEPT ![r] = "idle"]
  /\ UNCHANGED <<closed, holder, send, earlier>>

\* ... or, the queue being empty, go on to look at closed.
RecvLook(r) ==
  /\ recv[r] = "called"
  /\ holder = Nobody
  /\ queue = <<>>
  /\ recv' = [recv EXCEPT ![r] = "looking"]
  /\ holder' = r
  /\ UNCHANGED <<queue, closed, send, delivered, earlier>>

\* Mutant: a receiver that finds the mailbox empty sleeps, closed or not.
RecvSleepClosed(r) ==
  /\ holder = r
  /\ recv' = [recv EXCEPT ![r] = "asleep"]
  /\ holder' = Nobody
  /\ UNCHANGED <<queue, closed, send, delivered, earlier>>

\* closed: return nullopt.  Not closed: unlock and sleep.
RecvDecide(r) ==
  /\ holder = r
  /\ recv' = [recv EXCEPT ![r] = IF closed THEN "ended" ELSE "asleep"]
  /\ holder' = Nobody
  /\ UNCHANGED <<queue, closed, send, delivered, earlier>>

RecvWake(r) ==
  /\ recv[r] = "asleep"
  /\ recv' = [recv EXCEPT ![r] = "called"]
  /\ UNCHANGED <<queue, closed, holder, send, delivered, earlier>>

\* The coroutine is stopped in sleep_for (recv under a timeout).
RecvStopped(r) ==
  /\ recv[r] = "asleep"
  /\ recv' = [recv EXCEPT ![r] = "idle"]
  /\ UNCHANGED <<queue, closed, holder, send, delivered, earlier>>

\* close() stores the flag without the mutex.
Close ==
  /\ ~closed
  /\ closed' = TRUE
  /\ UNCHANGED <<queue, holder, send, recv, delivered, earlier>>

SendStep(m) ==
  Expire(m) \/ SendClosed(m) \/ SendOpen(m) \/ Push(m) \/ Full(m)
    \/ SendWake(m)

RecvStep(r) ==
  RecvMessage(r) \/ RecvLook(r) \/ RecvDecide(r) \/ RecvWake(r)

Next ==
  \/ \E m \in Message : TrySend(m) \/ SendFor(m) \/ SendStep(m) \/ SendStopped(m)
  \/ \E r \in Receiver : RecvCall(r) \/ RecvStep(r) \/ RecvStopped(r)
  \/ Close

Spec == Init /\ [][Next]_vars

\* A call that has begun goes on.  The mutex is free most of the time, since
\* everyone who polls sleeps between two looks, so nobody waits for it for
\* ever.  A deadline that has passed is noticed.
Fairness ==
  /\ \A m \in Message :
       /\ WF_vars(Push(m) \/ Full(m) \/ SendWake(m))
       /\ SF_vars(SendClosed(m) \/ SendOpen(m))
       /\ SF_vars(Expire(m))
  /\ \A r \in Receiver :
       /\ WF_vars(RecvDecide(r) \/ RecvWake(r))
       /\ SF_vars(RecvMessage(r) \/ RecvLook(r))

FairSpec == Spec /\ Fairness

-----------------------------------------------------------------------------

\* Every part of the state has its type, and the queue is bounded.
TypeOK ==
  /\ queue \in Seq(Message) /\ Len(queue) <= Capacity
  /\ closed \in BOOLEAN
  /\ holder \in Message \cup Receiver \cup {Nobody}
  /\ send \in [Message -> {"idle"} \cup TrySending \cup Waiting \cup Sent]
  /\ recv \in [Receiver -> {"idle", "called", "looking", "asleep", "ended"}]
  /\ delivered \in Seq(Message)
  /\ earlier \in [Message -> SUBSET Message]

\* "recv() returns nullopt only after close and queue drain": once a recv()
\* has returned nullopt the mailbox is closed, its queue is empty, and no
\* sender that saw it open can still put a message into it.
EndIsFinal ==
  (\E r \in Receiver : recv[r] = "ended") =>
    closed /\ queue = <<>> /\ holder \notin Message

\* What the sends said is what the receivers get: the messages delivered and
\* queued are those whose send returned true, each of them once.  In
\* particular a send that timed out, was refused or stopped left nothing.
AcceptedOnce ==
  /\ IsInjective(delivered \o queue)
  /\ Range(delivered \o queue) = Accepted

\* A message whose send returned true before another send was called is ahead
\* of that other one.
FirstInFirstOut ==
  LET line == delivered \o queue
  IN  \A i, j \in DOMAIN line : line[i] \in earlier[line[j]] => i < j

\* A recv() under way returns once the mailbox is closed (or is stopped).
CloseEndsRecv ==
  \A r \in Receiver :
    (closed /\ recv[r] \in {"called", "looking", "asleep"})
      ~> recv[r] \in {"idle", "ended"}

\* A send that was called returns, on a full or a closed mailbox too.
SendReturns ==
  \A m \in Message : send[m] \in TrySending \cup Waiting ~> send[m] \in Sent
=============================================================================
