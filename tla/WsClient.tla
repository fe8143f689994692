----------------------------- MODULE WsClient ------------------------------
(***************************************************************************)
(* flux::ws::Client of layer2/src/ws.cpp: connect(), close() and           *)
(* send_stream() over the sessions of WsSession, and the generation count  *)
(* by which a client tells its newest connection from the older ones.      *)
(***************************************************************************)
EXTENDS WsSession

CONSTANT Connectors    \* coroutines that call connect()

VARIABLES connected, generation, session,
          connecting   \* by coroutine: where its connect() is, its generation

clientVars == <<connected, generation, session, connecting>>

Out == [at |-> "out", id |-> 0]

ClientInit ==
  /\ connected = FALSE /\ generation = 0 /\ session = 0
  /\ connecting = [c \in Connectors |-> Out]

ConnectBegin(c) ==
  /\ connecting[c] = Out /\ ~connected
  /\ generation + 1 \in Ids
  /\ generation' = generation + 1
  /\ connecting' = [connecting EXCEPT ![c] = [at |-> "making", id |-> generation + 1]]
  /\ UNCHANGED <<connected, session>> /\ UNCHANGED sessVars

\* make_client_plain_session / make_client_tls_session on a blocking thread.
ConnectMade(c) ==
  /\ connecting[c].at = "making"
  /\ connecting' = [connecting EXCEPT ![c].at = "made"]
  /\ sess' = [sess EXCEPT ![connecting[c].id].made = TRUE]
  /\ UNCHANGED <<connected, generation, session>>
  /\ UNCHANGED <<thread, log, closed>>

ConnectFails(c) ==
  /\ connecting[c].at = "making"
  /\ connecting' = [connecting EXCEPT ![c] = Out]
  /\ UNCHANGED <<connected, generation, session>> /\ UNCHANGED sessVars

\* Back on the loop: a connect() that a newer one overtook stops its session
\* and throws; otherwise the session is the client's, open is pushed and the
\* reader starts.
ConnectEnd(c) ==
  /\ connecting[c].at = "made"
  /\ connecting' = [connecting EXCEPT ![c] = Out]
  /\ LET i == connecting[c].id IN
       IF generation # i
       THEN /\ sess' = [sess EXCEPT ![i].stopped = TRUE]
            /\ UNCHANGED <<connected, session, log, thread>>
       ELSE /\ session' = i /\ connected' = TRUE
            /\ sess' = [sess EXCEPT ![i].opened = TRUE]
            /\ Push([kind |-> "open", id |-> i])
            /\ StartReader(i)
  /\ UNCHANGED <<generation, closed>>

\* close(): nothing to do unless connected; a connect() under way goes on.
ClientClose(c) ==
  /\ thread[Caller(c)].todo = <<>> /\ connected /\ session # 0
  /\ connected' = FALSE /\ session' = 0
  /\ Run(Caller(c), session, CloseSteps)
  /\ UNCHANGED <<generation, connecting>> /\ UNCHANGED <<sess, log, closed>>

ClientSend(c) ==
  /\ thread[Caller(c)].todo = <<>> /\ connected /\ session # 0
  /\ Run(Caller(c), session, SendSteps)
  /\ UNCHANGED clientVars /\ UNCHANGED <<sess, log, closed>>

\* on_close: a session of an older generation is ignored.
Forget(t) ==
  /\ At(t, "unlist")
  /\ IF generation # thread[t].id
     THEN UNCHANGED <<connected, session>> /\ Then(t, <<>>)
     ELSE connected' = FALSE /\ session' = 0 /\ Then(t, <<"tell">>)
  /\ UNCHANGED <<generation, connecting>> /\ UNCHANGED <<sess, log, closed>>

ClientThread(t) ==
  Forget(t) \/ (ThreadStep(t) /\ UNCHANGED clientVars)

ClientNext ==
  \/ \E c \in Connectors : \/ ConnectBegin(c) \/ ConnectMade(c)
                           \/ ConnectFails(c) \/ ConnectEnd(c)
  \/ \E c \in Callers : ClientClose(c) \/ ClientSend(c)
  \/ \E t \in Threads : ClientThread(t)
  \/ \E i \in Ids : PeerGoes(i) /\ UNCHANGED clientVars

ClientOwns(i) ==
  \/ connected /\ session = i
  \/ \E c \in Connectors : connecting[c].id = i

-----------------------------------------------------------------------------
(* The inductive invariant of a client.                                    *)

ConnectTypeOK ==
  /\ connected \in BOOLEAN /\ generation \in Nat /\ session \in Ids \cup {0}
  /\ connecting \in [Connectors -> [at : {"out", "making", "made"}, id : Nat]]

\* Every connect() under way has a generation of its own, and the session it
\* makes is known to nobody else.
ConnectInv ==
  /\ \A c \in Connectors :
       \/ connecting[c] = Out
       \/ connecting[c].id \in Ids /\ connecting[c].id <= generation
          /\ connecting[c].at \in {"making", "made"}
  /\ \A c, d \in Connectors :
       connecting[c].id = connecting[d].id /\ connecting[c] # Out => c = d
  /\ \A i \in Ids : i > generation \/ (\E c \in Connectors : connecting[c].id = i)
                    => Untouched(i)

\* The client's session is its newest one, which it can reach or which some
\* thread is ending.
CurrentInv ==
  /\ connected => session \in Ids /\ session = generation /\ \A c \in Connectors : connecting[c].id # generation
  /\ connected => Event(generation, "open") \/ closed
  /\ \A i \in Ids : sess[i].opened /\ ~sess[i].stopped => Ending(i) \/ (connected /\ session = i)

ClientInv == SessionInv /\ ConnectTypeOK /\ ConnectInv /\ CurrentInv
=============================================================================
