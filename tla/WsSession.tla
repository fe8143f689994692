----------------------------- MODULE WsSession -----------------------------
(***************************************************************************)
(* WebSocketSession and EventQueue of layer2/src/ws.cpp: one session per   *)
(* connection, its reader thread, the threads on which send() and close()  *)
(* run (the blocking pool), and the queue of events that next() drains.    *)
(*                                                                         *)
(* A thread is a list of steps still to take on one session.  Every step   *)
(* is one atomic operation of the code (an exchange of stopped_ or         *)
(* close_reported_, a section under the owner's mutex, a push), so the     *)
(* interleavings of the threads are those of the program.  What on_close   *)
(* does under the owner's mutex, the step "unlist", is the owner's: see    *)
(* WsServer and WsClient.                                                  *)
(***************************************************************************)
EXTENDS Naturals, Sequences, FiniteSets

CONSTANTS Ids,        \* connection ids of a server, generations of a client
          Callers,    \* blocking threads that run send() and close()
          MaxFrames   \* bound on the frames a peer sends on one connection

ASSUME IdsAssumption == Ids \subseteq Nat \ {0}

VARIABLES sess,       \* the sessions, by id
          thread,     \* the steps each thread has still to take
          log,        \* the events the queue accepted, oldest first
          closed      \* closed_ of the queue

sessVars == <<sess, thread, log, closed>>

Reader(i) == <<"reader", i>>
Caller(c) == <<"caller", c>>
Stopper == <<"stop", 0>>
Threads == {Reader(i) : i \in Ids} \cup {Caller(c) : c \in Callers} \cup {Stopper}

Idle == [id |-> 0, todo |-> <<>>]

Fresh == [made |-> FALSE, opened |-> FALSE, stopped |-> FALSE,
          reported |-> FALSE, frames |-> 0, peer |-> TRUE]

SessionInit ==
  /\ sess = [i \in Ids |-> Fresh]
  /\ thread = [t \in Threads |-> Idle]
  /\ log = <<>> /\ closed = FALSE

At(t, step) == thread[t].todo # <<>> /\ Head(thread[t].todo) = step
Run(t, i, steps) == thread' = [thread EXCEPT ![t] = [id |-> i, todo |-> steps]]
Then(t, steps) ==
  Run(t, thread[t].id, steps \o Tail(thread[t].todo))

\* EventQueue::push: dropped once the queue is closed.
Push(event) == log' = IF closed THEN log ELSE Append(log, event)

\* next() hands the events out in their order and can do so as soon as one is
\* pushed: the connections its caller may know.
Known(i) == \E n \in DOMAIN log : log[n].kind = "open" /\ log[n].id = i

\* WebSocketSession::start, called once its open event is pushed.
StartReader(i) == Run(Reader(i), i, <<"loop">>)

\* read_loop, the loop's condition.
LoopCheck(t) ==
  /\ At(t, "loop")
  /\ LET i == thread[t].id
     IN  Run(t, i, IF sess[i].stopped THEN <<>> ELSE <<"read">>)
  /\ UNCHANGED <<sess, log, closed>>

\* read_some returns a frame, which on_message pushes.
ReadFrame(t) ==
  /\ At(t, "read")
  /\ LET i == thread[t].id
     IN  /\ ~sess[i].stopped /\ sess[i].peer /\ sess[i].frames < MaxFrames
         /\ sess' = [sess EXCEPT ![i].frames = @ + 1]
         /\ Run(t, i, <<"deliver", "loop">>)
  /\ UNCHANGED <<log, closed>>

Deliver(t) ==
  /\ At(t, "deliver")
  /\ Push([kind |-> "message", id |-> thread[t].id])
  /\ Then(t, <<>>)
  /\ UNCHANGED <<sess, closed>>

\* Mutant: the reader ends without reporting the close.
ReadErrorSilent(t) ==
  /\ At(t, "read")
  /\ LET i == thread[t].id
     IN  /\ sess[i].stopped \/ ~sess[i].peer
         /\ Run(t, i, <<"stop">>)
  /\ UNCHANGED <<sess, log, closed>>

\* read_some fails: the peer closed or vanished, or the transport was stopped.
ReadError(t) ==
  /\ At(t, "read")
  /\ LET i == thread[t].id
     IN  /\ sess[i].stopped \/ ~sess[i].peer
         /\ Run(t, i, <<"report", "stop">>)
  /\ UNCHANGED <<sess, log, closed>>

\* The peer closes the connection or goes away.
PeerGoes(i) ==
  /\ sess[i].made /\ sess[i].peer
  /\ sess' = [sess EXCEPT ![i].peer = FALSE]
  /\ UNCHANGED <<thread, log, closed>>

\* The first test of stopped_ in send() and in close().
CheckStopped(t) ==
  /\ At(t, "check")
  /\ IF sess[thread[t].id].stopped
     THEN thread' = [thread EXCEPT ![t] = Idle]
     ELSE Then(t, <<>>)
  /\ UNCHANGED <<sess, log, closed>>

\* send() under write_mutex_: stopped_ again, then write_some; a failed write
\* stops the transport before the mutex is released and reports the close.
Write(t) ==
  /\ At(t, "write")
  /\ LET i == thread[t].id
     IN  \/ /\ sess[i].stopped
            /\ thread' = [thread EXCEPT ![t] = Idle]
            /\ UNCHANGED sess
         \/ /\ ~sess[i].stopped
            /\ Then(t, <<>>)
            /\ UNCHANGED sess
         \/ /\ ~sess[i].stopped /\ ~sess[i].peer
            /\ sess' = [sess EXCEPT ![i].stopped = TRUE]
            /\ Then(t, <<"report">>)
  /\ UNCHANGED <<log, closed>>

\* report_close_once: the thread that wins the exchange calls on_close.
Report(t) ==
  /\ At(t, "report")
  /\ LET i == thread[t].id
     IN  /\ sess' = [sess EXCEPT ![i].reported = TRUE]
         /\ Then(t, IF sess[i].reported THEN <<>> ELSE <<"unlist">>)
  /\ UNCHANGED <<log, closed>>

\* on_close pushes the close event after it released the owner's mutex.
Tell(t) ==
  /\ At(t, "tell")
  /\ Push([kind |-> "close", id |-> thread[t].id])
  /\ Then(t, <<>>)
  /\ UNCHANGED <<sess, closed>>

\* request_transport_stop.
StopTransport(t) ==
  /\ At(t, "stop")
  /\ sess' = [sess EXCEPT ![thread[t].id].stopped = TRUE]
  /\ Then(t, <<>>)
  /\ UNCHANGED <<log, closed>>

ThreadStep(t) ==
  \/ LoopCheck(t)
  \/ ReadFrame(t) \/ Deliver(t) \/ ReadError(t)
  \/ CheckStopped(t) \/ Write(t)
  \/ Report(t) \/ Tell(t) \/ StopTransport(t)

\* The steps of send() and of close() on a session.
SendSteps == <<"check", "write">>
CloseSteps == <<"check", "report", "stop">>

\* A thread with steps left that end the session i.
Ending(i) ==
  \E t \in Threads : thread[t].id = i /\
    \E n \in DOMAIN thread[t].todo :
      thread[t].todo[n] \in {"report", "unlist", "tell", "stop"}

Event(i, kind) == \E n \in DOMAIN log : log[n] = [kind |-> kind, id |-> i]
NoEvent(i) == \A n \in DOMAIN log : log[n].id # i

\* What next() shows of each connection is well formed: before any event of a
\* connection comes its "open", it is opened once and closed at most once,
\* whichever of the reader, a failing send(), close() and stop() comes to end
\* it (ws.cpp:549, 279).
EventsWellFormed ==
  \A n \in DOMAIN log :
    /\ \E m \in 1..n : log[m] = [kind |-> "open", id |-> log[n].id]
    /\ \A m \in DOMAIN log : log[m] = log[n] /\ log[n].kind \in {"open", "close"} => m = n

-----------------------------------------------------------------------------
(* The inductive invariant behind the properties of sessions: what the     *)
(* threads that are at work on a session say of it.                        *)

Reporting == {<<"report">>, <<"report", "stop">>}
Unlisting == {<<"unlist">>, <<"unlist", "stop">>}
Leaving   == Unlisting \cup {<<"tell">>, <<"tell", "stop">>}
Todo == {<<>>, <<"loop">>, <<"read">>, <<"deliver", "loop">>, SendSteps, <<"write">>, CloseSteps,
         <<"stop">>} \cup Reporting \cup Leaving

SessionTypeOK ==
  /\ sess \in [Ids -> [made : BOOLEAN, opened : BOOLEAN, stopped : BOOLEAN, reported : BOOLEAN,
                       frames : Nat, peer : BOOLEAN]]
  /\ thread \in [Threads -> [id : Nat, todo : Todo]]
  /\ log \in Seq([kind : {"open", "message", "close"}, id : Ids])
  /\ closed \in BOOLEAN

\* A thread at work is at work on a session that next() was told of, unless
\* the queue was closed; a reader reads its own session.
ThreadInv ==
  /\ \A t \in Threads : thread[t].todo # <<>> =>
       thread[t].id \in Ids /\ (Event(thread[t].id, "open") \/ closed)
  /\ \A i \in Ids : thread[Reader(i)].todo # <<>> =>
       /\ thread[Reader(i)].id = i /\ sess[i].opened
       /\ thread[Reader(i)].todo \notin {SendSteps, <<"write">>}

\* A thread that leaves the transport running has stopped it, the close is
\* reported by one thread, which is at it until the event is pushed.
ReportInv ==
  /\ \A t \in Threads :
       LET s == sess[thread[t].id] IN
         /\ thread[t].todo \in {<<"report">>, <<"unlist">>, <<"tell">>} => s.stopped
         /\ thread[t].todo \in Leaving \cup {<<"stop">>} => s.reported
         /\ thread[t].todo \in Leaving => ~Event(thread[t].id, "close")
  /\ \A t, u \in Threads :
       thread[t].todo \in Leaving /\ thread[u].todo \in Leaving /\ thread[t].id = thread[u].id
         => t = u
  /\ \A i \in Ids : ~sess[i].reported => ~Event(i, "close")

\* A session nobody but the thread that makes it knows of.
Untouched(i) ==
  /\ ~sess[i].opened /\ ~sess[i].stopped /\ ~sess[i].reported
  /\ \A t \in Threads : thread[t].todo # <<>> => thread[t].id # i
  /\ NoEvent(i)

SessionInv == SessionTypeOK /\ ThreadInv /\ ReportInv /\ EventsWellFormed
=============================================================================
