----------------------------- MODULE WsServer ------------------------------
(***************************************************************************)
(* flux::ws::Server of layer2/src/ws.cpp: the accept thread, start(),      *)
(* stop(), send_stream() and close(), over the sessions of WsSession.      *)
(***************************************************************************)
EXTENDS WsSession

CONSTANT MaxStarts   \* bound on the calls of start()

VARIABLES started, stopping, connections, nextId,
          accept,    \* the accept thread: where it is, the id it works on
          stopper,   \* stop(): where it is, the sessions it still has to close
          starts

serverVars == <<started, stopping, connections, nextId, accept, stopper, starts>>

ServerInit ==
  /\ started = FALSE /\ stopping = FALSE
  /\ connections = {} /\ nextId = 1
  /\ accept = [at |-> "none", id |-> 0]
  /\ stopper = [at |-> "none", left |-> {}]
  /\ starts = 0

\* start() returns at once when started; it throws before it changes anything
\* when the acceptor cannot be set up, and after it set started when the TLS
\* context cannot be built: then no accept thread runs.
Start(tlsFails) ==
  /\ ~started /\ stopper.at = "none" /\ starts < MaxStarts
  /\ starts' = starts + 1
  /\ started' = TRUE /\ stopping' = FALSE
  /\ accept' = IF tlsFails THEN accept ELSE [at |-> "loop", id |-> 0]
  /\ UNCHANGED <<connections, nextId, stopper>> /\ UNCHANGED sessVars

Running == started /\ ~stopping
AcceptAt(where) == accept.at = where
AcceptGoes(where) == accept' = [accept EXCEPT !.at = where]

\* The head of run_accept_loop, under the mutex.
AcceptCheck ==
  /\ AcceptAt("loop")
  /\ AcceptGoes(IF Running THEN "socket" ELSE "ended")
  /\ UNCHANGED <<started, stopping, connections, nextId, stopper, starts>>
  /\ UNCHANGED sessVars

\* accept(): a socket, nothing yet, or an error because stop() closed it.
AcceptSocket ==
  /\ AcceptAt("socket")
  /\ \/ Running /\ nextId \in Ids /\ AcceptGoes("number")
     \/ Running /\ AcceptGoes("loop")
     \/ ~Running /\ AcceptGoes("ended")
  /\ UNCHANGED <<started, stopping, connections, nextId, stopper, starts>>
  /\ UNCHANGED sessVars

\* The connection gets its id, unless stop() came first.
AcceptNumber ==
  /\ AcceptAt("number")
  /\ IF Running
     THEN accept' = [at |-> "handshake", id |-> nextId] /\ nextId' = nextId + 1
     ELSE AcceptGoes("ended") /\ UNCHANGED nextId
  /\ UNCHANGED <<started, stopping, connections, stopper, starts>>
  /\ UNCHANGED sessVars

\* make_server_plain_session / make_server_tls_session, without the lock.
AcceptHandshake ==
  /\ AcceptAt("handshake")
  /\ \/ AcceptGoes("list") /\ sess' = [sess EXCEPT ![accept.id].made = TRUE]
     \/ AcceptGoes("loop") /\ UNCHANGED sess
  /\ UNCHANGED <<started, stopping, connections, nextId, stopper, starts>>
  /\ UNCHANGED <<thread, log, closed>>

\* Mutant: a stop() during the handshake goes unseen.
AcceptListUnchecked ==
  /\ AcceptAt("list")
  /\ connections' = connections \cup {accept.id}
  /\ AcceptGoes("open")
  /\ UNCHANGED <<started, stopping, nextId, stopper, starts>>
  /\ UNCHANGED sessVars

\* Mutant: the reader starts before the open event is pushed.
AcceptListEarly ==
  /\ AcceptAt("list") /\ Running
  /\ connections' = connections \cup {accept.id}
  /\ StartReader(accept.id)
  /\ AcceptGoes("open")
  /\ UNCHANGED <<started, stopping, nextId, stopper, starts>>
  /\ UNCHANGED <<sess, log, closed>>

\* The session is listed, or stopped when stop() came during the handshake.
AcceptList ==
  /\ AcceptAt("list")
  /\ IF Running
     THEN /\ connections' = connections \cup {accept.id}
          /\ AcceptGoes("open") /\ UNCHANGED sess
     ELSE /\ sess' = [sess EXCEPT ![accept.id].stopped = TRUE]
          /\ AcceptGoes("ended") /\ UNCHANGED connections
  /\ UNCHANGED <<started, stopping, nextId, stopper, starts>>
  /\ UNCHANGED <<thread, log, closed>>

AcceptOpen ==
  /\ AcceptAt("open")
  /\ Push([kind |-> "open", id |-> accept.id])
  /\ AcceptGoes("start")
  /\ UNCHANGED <<started, stopping, connections, nextId, stopper, starts>>
  /\ UNCHANGED <<sess, thread, closed>>

AcceptStart ==
  /\ AcceptAt("start")
  /\ StartReader(accept.id)
  /\ sess' = [sess EXCEPT ![accept.id].opened = TRUE]
  /\ AcceptGoes("loop")
  /\ UNCHANGED <<started, stopping, connections, nextId, stopper, starts>>
  /\ UNCHANGED <<log, closed>>

Accept == AcceptCheck \/ AcceptSocket \/ AcceptNumber \/ AcceptHandshake
          \/ AcceptList \/ AcceptOpen \/ AcceptStart

\* remove_server_connection: only the thread that finds the connection in
\* the table reports its close.
Unlist(t) ==
  /\ At(t, "unlist")
  /\ connections' = connections \ {thread[t].id}
  /\ Then(t, IF thread[t].id \in connections THEN <<"tell">> ELSE <<>>)
  /\ UNCHANGED <<started, stopping, nextId, accept, stopper, starts>>
  /\ UNCHANGED <<sess, log, closed>>

\* send_stream() and close(): the session is looked up under the mutex; the
\* session's own steps run on a blocking thread.
SendStream(c, i) ==
  /\ thread[Caller(c)].todo = <<>> /\ Known(i)
  /\ started /\ i \in connections
  /\ Run(Caller(c), i, SendSteps)
  /\ UNCHANGED <<sess, log, closed>> /\ UNCHANGED serverVars

Close(c, i) ==
  /\ thread[Caller(c)].todo = <<>> /\ Known(i)
  /\ i \in connections
  /\ Run(Caller(c), i, CloseSteps)
  /\ UNCHANGED <<sess, log, closed>> /\ UNCHANGED serverVars

\* stop() of a server that is not started only closes the queue.
StopIdle ==
  /\ ~started /\ stopper.at = "none"
  /\ closed' = TRUE
  /\ UNCHANGED <<sess, thread, log>> /\ UNCHANGED serverVars

StopBegin ==
  /\ started /\ stopper.at = "none"
  /\ started' = FALSE /\ stopping' = TRUE
  /\ stopper' = [at |-> "join", left |-> connections]
  /\ connections' = {}
  /\ UNCHANGED <<nextId, accept, starts>> /\ UNCHANGED sessVars

StopJoin ==
  /\ stopper.at = "join" /\ accept.at \in {"none", "ended"}
  /\ stopper' = [stopper EXCEPT !.at = "sessions"]
  /\ accept' = [at |-> "none", id |-> 0]
  /\ UNCHANGED <<started, stopping, connections, nextId, starts>>
  /\ UNCHANGED sessVars

StopSession(i) ==
  /\ stopper.at = "sessions" /\ i \in stopper.left
  /\ thread[Stopper].todo = <<>>
  /\ stopper' = [stopper EXCEPT !.left = @ \ {i}]
  /\ Run(Stopper, i, CloseSteps)
  /\ UNCHANGED <<started, stopping, connections, nextId, accept, starts>>
  /\ UNCHANGED <<sess, log, closed>>

StopEnd ==
  /\ stopper.at = "sessions" /\ stopper.left = {}
  /\ thread[Stopper].todo = <<>>
  /\ stopper' = [stopper EXCEPT !.at = "none"]
  /\ closed' = TRUE
  /\ UNCHANGED <<started, stopping, connections, nextId, accept, starts>>
  /\ UNCHANGED <<sess, thread, log>>

Stop == StopIdle \/ StopBegin \/ StopJoin \/ StopEnd
        \/ \E i \in Ids : StopSession(i)

ServerThread(t) ==
  Unlist(t) \/ (ThreadStep(t) /\ UNCHANGED serverVars)

ServerNext ==
  \/ \E f \in BOOLEAN : Start(f)
  \/ Accept \/ Stop
  \/ \E t \in Threads : ServerThread(t)
  \/ \E c \in Callers, i \in Ids : SendStream(c, i) \/ Close(c, i)
  \/ \E i \in Ids : PeerGoes(i) /\ UNCHANGED serverVars

\* A session that a server still answers for.
ServerOwns(i) ==
  \/ started /\ i \in connections
  \/ accept.id = i /\ accept.at \in {"list", "open", "start"}
  \/ i \in stopper.left

-----------------------------------------------------------------------------
(* The inductive invariant of a server.                                    *)

AcceptTypeOK ==
  /\ started \in BOOLEAN /\ stopping \in BOOLEAN
  /\ connections \subseteq Ids /\ nextId \in Nat
  /\ accept \in [at : {"none", "loop", "socket", "number", "handshake", "list", "open", "start",
                       "ended"}, id : Nat]
  /\ stopper \in [at : {"none", "join", "sessions"}, left : SUBSET Ids]

\* The id the accept thread works on, and the ids still to be given.
Unlisted(i) == i >= nextId \/ (accept.id = i /\ accept.at \in {"handshake", "list"})

AcceptInv ==
  /\ accept.at \in {"handshake", "list", "open", "start"} =>
       accept.id \in Ids /\ accept.id < nextId
  /\ accept.at \in {"open", "start"} => ~sess[accept.id].opened
  /\ accept.at = "number" => nextId \in Ids
  /\ \A i \in Ids : Unlisted(i) => Untouched(i) /\ i \notin connections \cup stopper.left

\* The open event is pushed before anybody can look the session up.
OpenInv ==
  /\ accept.at = "open" => NoEvent(accept.id)
  /\ \A i \in connections \cup stopper.left :
       Event(i, "open") \/ closed \/ (accept.id = i /\ accept.at = "open")
  /\ accept.at = "start" => Event(accept.id, "open") \/ closed

\* stop() empties the table, and only a started server fills it.
StopInv ==
  /\ connections # {} => started
  /\ stopper.at # "none" => ~started
  /\ stopper.at = "sessions" => accept.at = "none"
  /\ ~started /\ stopper.at = "none" => accept.at = "none"
  /\ stopper.at = "none" => stopper.left = {}

\* A session that is open, or about to be, can be reached from the table or
\* from stop(), or some thread is ending it.
ReachInv ==
  \A i \in Ids :
    /\ sess[i].opened \/ (accept.id = i /\ accept.at \in {"open", "start"})
    /\ ~sess[i].stopped
    => Ending(i) \/ i \in connections \cup stopper.left

\* A listed session is watched, or its close is being reported.
Watched(i) ==
  \/ \E t \in Threads : thread[t].id = i /\ thread[t].todo \in Unlisting
  \/ /\ ~sess[i].reported
     /\ \/ \E t \in Threads : thread[t].id = i /\ thread[t].todo \in Reporting
        \/ thread[Reader(i)].todo = <<"read">>
        \/ /\ ~sess[i].stopped
           /\ thread[Reader(i)].todo # <<>> \/
              (accept.id = i /\ accept.at \in {"open", "start"})

ListInv == \A i \in connections : Watched(i)

ServerInv ==
  SessionInv /\ AcceptTypeOK /\ AcceptInv /\ OpenInv /\ StopInv /\ ReachInv /\ ListInv
=============================================================================
