--------------------------- MODULE SqlConnection ---------------------------
(***************************************************************************)
(* flux::sql::Connection: open, query, close and cancel of one connection, *)
(* with the three drivers, the connect and query timers and the session    *)
(* the connection holds at the server.  A statement is a record; what it   *)
(* does at the server (Effect) is the database's own behaviour.            *)
(***************************************************************************)
EXTENDS Integers, Sequences, FiniteSets

CONSTANTS
  Conn,        \* connections
  Drivers,     \* the drivers of options_ that are explored
  MaxFaults    \* how many statements fail, time out or are cancelled

ASSUME DriversAssumption == Drivers \subseteq {"sqlite", "postgres", "mysql"}

VARIABLES
  driver,      \* ConnectionOptions::driver, the same for every connection
  handle,      \* pg_, mysql_conn_ or sqlite_ : "null", "half" or "open"
  op,          \* the operation that holds busy_, or NoOp
  left,        \* libpq holds results of an earlier statement
  stray,       \* statements sent to the server and given up
  signal,      \* a cancel request on its way to the server
  session,     \* the server's side of the connection
  durable,     \* the writes that are committed
  faults       \* faults so far

connVars == <<driver, handle, op, left, stray, signal, session, durable, faults>>

\* An operation in progress; late: its timer won; hit: a cancel reached it.
Operation(kind, phase, st, timed, res) ==
  [kind |-> kind, phase |-> phase, st |-> st, timed |-> timed, res |-> res,
   late |-> FALSE, hit |-> FALSE]

NoStatement == [do |-> "none"]
NoOp == Operation("none", "none", NoStatement, FALSE, "none")
NoSession == [levels |-> <<>>, aborted |-> FALSE, qonly |-> FALSE]

ConnInit ==
  /\ driver \in Drivers
  /\ handle = [c \in Conn |-> "null"]
  /\ op = [c \in Conn |-> NoOp]
  /\ left = [c \in Conn |-> FALSE]
  /\ stray = [c \in Conn |-> {}]
  /\ signal = [c \in Conn |-> FALSE]
  /\ session = [c \in Conn |-> NoSession]
  /\ durable = {}
  /\ faults = 0

Fault == faults < MaxFaults /\ faults' = faults + 1
-----------------------------------------------------------------------------
(* The database, as the statements of the ORM drive it.  levels is the     *)
(* stack of BEGIN and the savepoints, each with the writes made under it.  *)

InTx(s) == s.levels # <<>>
Pending(s) == UNION {s.levels[i].writes : i \in 1..Len(s.levels)}

\* The position of the savepoint a RELEASE or ROLLBACK TO names.
LevelOf(s, name) == {i \in 1..Len(s.levels) : s.levels[i].name = name}

\* Whether the server takes the statement.
Accepts(s, st) ==
  CASE st.do = "begin"    -> driver = "sqlite" => ~InTx(s)
    [] st.do \in {"commit", "rollback"} -> driver = "sqlite" => InTx(s)
    [] st.do = "save"     -> (driver = "postgres" => InTx(s)) /\ ~s.aborted
    [] st.do = "release"  -> LevelOf(s, st.name) # {} /\ ~s.aborted
    [] st.do = "rollto"   -> LevelOf(s, st.name) # {}
    [] st.do = "write"    -> ~s.qonly /\ ~s.aborted
    [] st.do = "set"      -> driver = "mysql" => ~InTx(s)   \* SET TRANSACTION
    [] OTHER -> ~s.aborted

\* The session after the statement, and the writes it makes durable.
Effect(s, st) ==
  LET n == Len(s.levels)
      at == CHOOSE i \in LevelOf(s, st.name) : \A j \in LevelOf(s, st.name) : j <= i
      Open(name) == [s EXCEPT !.levels = Append(@, [name |-> name, writes |-> {}])]
      ended == [s EXCEPT !.levels = <<>>, !.aborted = FALSE]
  IN CASE st.do = "begin" ->
            IF ~InTx(s) THEN [to |-> Open(0), commits |-> {}]
            ELSE IF driver = "mysql"
                 THEN [to |-> [s EXCEPT !.levels = <<[name |-> 0, writes |-> {}]>>],
                       commits |-> Pending(s)]
                 ELSE [to |-> s, commits |-> {}]
       [] st.do = "commit" ->
            [to |-> ended, commits |-> IF s.aborted THEN {} ELSE Pending(s)]
       [] st.do = "rollback" -> [to |-> ended, commits |-> {}]
       [] st.do = "save" ->
            [to |-> IF InTx(s) \/ driver = "sqlite" THEN Open(st.name) ELSE s,
             commits |-> {}]
       [] st.do = "release" ->
            IF at = 1 THEN [to |-> ended, commits |-> Pending(s)]
            ELSE LET freed == UNION {s.levels[i].writes : i \in at..n}
                 IN [to |-> [s EXCEPT !.levels =
                               [i \in 1..(at - 1) |->
                                  IF i < at - 1 THEN s.levels[i]
                                  ELSE [s.levels[i] EXCEPT !.writes = @ \cup freed]]],
                     commits |-> {}]
       [] st.do = "rollto" ->
            [to |-> [s EXCEPT !.levels = [i \in 1..at |->
                                            IF i < at THEN s.levels[i]
                                            ELSE [s.levels[i] EXCEPT !.writes = {}]],
                              !.aborted = FALSE],
             commits |-> {}]
       [] st.do = "write" ->
            IF InTx(s) THEN [to |-> [s EXCEPT !.levels[n].writes = @ \cup {st.id}],
                             commits |-> {}]
            ELSE [to |-> s, commits |-> {st.id}]
       [] st.do = "qonly" -> [to |-> [s EXCEPT !.qonly = st.on], commits |-> {}]
       [] OTHER -> [to |-> s, commits |-> {}]

\* A statement that fails at the server: postgres refuses what follows in the
\* transaction; sqlite and mysql drop the statement, or the whole transaction.
Failed(s) ==
  IF driver = "postgres" THEN {[s EXCEPT !.aborted = InTx(s)]}
  ELSE {s, [s EXCEPT !.levels = <<>>]}
-----------------------------------------------------------------------------
\* close_sync(): every driver's handle is finished; the server drops the
\* session, and with it what was not committed.
CloseSync(c) ==
  /\ handle' = [handle EXCEPT ![c] = "null"]
  /\ left' = [left EXCEPT ![c] = FALSE]
  /\ stray' = [stray EXCEPT ![c] = {}]
  /\ signal' = [signal EXCEPT ![c] = FALSE]
  /\ session' = [session EXCEPT ![c] = NoSession]

\* OperationGuard: an operation starts only on a connection that is not busy.
Guard(c) == op[c] = NoOp

\* open_task up to the first wait: the old connection is closed first.
OpenTask(c) ==
  /\ Guard(c)
  /\ CloseSync(c)
  /\ op' = [op EXCEPT ![c] = Operation("open", "sent", NoStatement, TRUE, "none")]
  /\ UNCHANGED <<driver, durable, faults>>

Ended(c, res) == op' = [op EXCEPT ![c] = Operation(@.kind, "done", NoStatement, FALSE, res)]

\* The driver's open ends well; a connect timer that fired first has already
\* decided the outcome, and the handle stays although open() reports a failure.
OpenDone(c) ==
  /\ op[c].kind = "open" /\ op[c].phase = "sent"
  /\ handle' = [handle EXCEPT ![c] = "open"]
  /\ Ended(c, IF op[c].late THEN "err" ELSE "ok")
  /\ UNCHANGED <<driver, left, stray, signal, session, durable, faults>>

\* The driver's open fails: close_sync and the error.
OpenFails(c) ==
  /\ op[c].kind = "open" /\ op[c].phase = "sent"
  /\ Fault
  /\ CloseSync(c)
  /\ Ended(c, "err")
  /\ UNCHANGED <<driver, durable>>

\* with_connect_timeout: the timer wins.  sqlite and mysql go on to the end;
\* the libpq loop stops where it is, with pg_ set and not connected.
OpenTimeout(c) ==
  /\ op[c].kind = "open" /\ op[c].phase = "sent" /\ ~op[c].late
  /\ Fault
  /\ IF driver = "postgres"
     THEN Ended(c, "err") /\ handle' = [handle EXCEPT ![c] = "half"]
     ELSE op' = [op EXCEPT ![c].late = TRUE] /\ UNCHANGED handle
  /\ UNCHANGED <<driver, left, stray, signal, session, durable>>

\* close_task, in one step: every path ends in closed handles.
CloseTask(c) ==
  /\ Guard(c)
  /\ CloseSync(c)
  /\ op' = [op EXCEPT ![c] = Operation("close", "done", NoStatement, FALSE, "ok")]
  /\ UNCHANGED <<driver, durable, faults>>

\* query_task: no handle, a half-open one and unread results are refused
\* (not_connected, or PQsendQuery returns 0); otherwise the statement is sent.
QueryTask(c, st, timed) ==
  /\ Guard(c)
  /\ op' = [op EXCEPT ![c] =
              IF handle[c] # "open" \/ left[c]
              THEN Operation("query", "done", NoStatement, FALSE, "err")
              ELSE Operation("query", "sent", st, timed, "none")]
  /\ UNCHANGED <<driver, handle, left, stray, signal, session, durable, faults>>

Querying(c) == op[c].kind = "query" /\ op[c].phase = "sent"

\* The server carries out the statement and takes it, or refuses it.
ServerRuns(c) ==
  /\ Querying(c)
  /\ IF Accepts(session[c], op[c].st)
     THEN LET e == Effect(session[c], op[c].st)
          IN /\ session' = [session EXCEPT ![c] = e.to]
             /\ durable' = durable \cup e.commits
             /\ op' = [op EXCEPT ![c].phase = "ran", ![c].res = "ok"]
     ELSE /\ session' \in {[session EXCEPT ![c] = s] : s \in
                              IF driver = "postgres" THEN Failed(session[c])
                              ELSE {session[c]}}
          /\ op' = [op EXCEPT ![c].phase = "ran", ![c].res = "err"]
          /\ UNCHANGED durable
  /\ UNCHANGED <<driver, handle, left, stray, signal, faults>>

\* The statement fails at the server, by itself or because a cancel hit it.
ServerFails(c) ==
  /\ Querying(c)
  /\ IF op[c].hit THEN UNCHANGED faults ELSE Fault
  /\ session' \in {[session EXCEPT ![c] = s] : s \in Failed(session[c])}
  /\ op' = [op EXCEPT ![c].phase = "ran", ![c].res = "err"]
  /\ UNCHANGED <<driver, handle, left, stray, signal, durable>>

\* The answer reaches the client.  The libpq drain loop throws at an error
\* result and leaves the rest unread; a timer that fired first wins.
Answer(c) ==
  /\ op[c].kind = "query" /\ op[c].phase = "ran"
  /\ Ended(c, IF op[c].late THEN "err" ELSE op[c].res)
  /\ left' = [left EXCEPT ![c] = driver = "postgres" /\ op[c].res = "err"]
  /\ UNCHANGED <<driver, handle, stray, signal, session, durable, faults>>

\* The query timer wins.  sqlite and mysql wait for the statement all the
\* same; libpq gives the statement up and never reads its results.
QueryTimeout(c) ==
  /\ op[c].kind = "query" /\ op[c].phase \in {"sent", "ran"}
  /\ op[c].timed /\ ~op[c].late
  /\ Fault
  /\ IF driver = "postgres"
     THEN /\ Ended(c, "err")
          /\ left' = [left EXCEPT ![c] = TRUE]
          /\ stray' = [stray EXCEPT ![c] =
                        IF op[c].phase = "sent" THEN {op[c].st} ELSE {}]
     ELSE op' = [op EXCEPT ![c].late = TRUE] /\ UNCHANGED <<left, stray>>
  /\ UNCHANGED <<driver, handle, signal, session, durable>>

\* A statement that was given up is carried out all the same.
StrayRuns(c) ==
  /\ \E st \in stray[c] :
       IF Accepts(session[c], st)
       THEN LET e == Effect(session[c], st)
            IN /\ session' = [session EXCEPT ![c] = e.to]
               /\ durable' = durable \cup e.commits
       ELSE UNCHANGED <<session, durable>>
  /\ stray' = [stray EXCEPT ![c] = {}]
  /\ UNCHANGED <<driver, handle, op, left, signal, faults>>

\* cancel_task takes no guard.  sqlite3_interrupt stops the statement that
\* runs now; PQcancel sends a request that may arrive during a later one;
\* mysql does nothing while busy and otherwise closes the connection.
CancelTask(c) ==
  /\ handle[c] # "null"
  /\ Fault
  /\ CASE driver = "sqlite" ->
            /\ op' = IF Querying(c) THEN [op EXCEPT ![c].hit = TRUE] ELSE op
            /\ UNCHANGED <<handle, left, stray, signal, session>>
       [] driver = "postgres" ->
            /\ signal' = [signal EXCEPT ![c] = TRUE]
            /\ UNCHANGED <<handle, op, left, stray, session>>
       [] driver = "mysql" ->
            /\ IF Guard(c) THEN CloseSync(c)
               ELSE UNCHANGED <<handle, left, stray, signal, session>>
            /\ UNCHANGED op
  /\ UNCHANGED <<driver, durable>>

\* The request reaches the server: whatever runs is hit, or nothing is.
SignalLands(c) ==
  /\ signal[c]
  /\ signal' = [signal EXCEPT ![c] = FALSE]
  /\ op' = IF Querying(c) THEN [op EXCEPT ![c].hit = TRUE] ELSE op
  /\ UNCHANGED <<driver, handle, left, stray, session, durable, faults>>

ConnStep(c) ==
  \/ OpenDone(c) \/ OpenFails(c) \/ OpenTimeout(c)
  \/ ServerRuns(c) \/ ServerFails(c) \/ Answer(c) \/ QueryTimeout(c)
  \/ StrayRuns(c) \/ CancelTask(c) \/ SignalLands(c)
=============================================================================
