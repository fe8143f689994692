------------------------------ MODULE WsProofs ------------------------------
(***************************************************************************)
(* The WebSocket events, the reach of the server and of the client, and    *)
(* the session tables, proved for every set of sessions, threads and any   *)
(* bound.  The argument is the inductive invariant PartInv: SessionInv     *)
(* says what the threads of one session may still do, ServerInv and        *)
(* ClientInv tie the table, the acceptor and the reconnect loop to it.     *)
(***************************************************************************)
EXTENDS MCWebSocket, TLAPS

USE DEF sessVars, serverVars, clientVars, Unlisting

\* The lists of steps, and which of them end a session.
EndTodo == Todo \ {<<>>, <<"loop">>, <<"read">>, <<"deliver", "loop">>, SendSteps, <<"write">>}

\* The lists of one to three steps that a thread works off.
LEMMA ShortLists ==
  ASSUME NEW a, NEW b, NEW c
  PROVE  /\ Tail(<<a>>) = <<>> /\ Tail(<<a, b>>) = <<b>> /\ Tail(<<a, b, c>>) = <<b, c>>
         /\ <<>> \o <<>> = <<>> /\ <<>> \o <<a>> = <<a>> /\ <<>> \o <<a, b>> = <<a, b>>
         /\ <<a>> \o <<>> = <<a>> /\ <<a>> \o <<b>> = <<a, b>>
<1>1. Tail(<<a>>) = <<>> /\ Tail(<<a, b>>) = <<b>> /\ Tail(<<a, b, c>>) = <<b, c>>
  OBVIOUS
<1>2. <<>> \o <<>> = <<>> /\ <<>> \o <<a>> = <<a>> /\ <<a>> \o <<>> = <<a>>
  OBVIOUS
<1>3. <<>> \o <<a, b>> = <<a, b>>
  OBVIOUS
<1>4. <<a>> \o <<b>> = <<a, b>>
  <2>1. <<a>> \in Seq({a, b}) /\ <<b>> \in Seq({a, b}) /\ <<a, b>> \in Seq({a, b})
    OBVIOUS
  <2>2. <<a>> \o <<b>> \in Seq({a, b}) /\ Len(<<a>> \o <<b>>) = 2
    BY <2>1
  <2>3. (<<a>> \o <<b>>)[1] = a /\ (<<a>> \o <<b>>)[2] = b
    BY <2>1
  <2>4. Len(<<a, b>>) = 2 /\ <<a, b>>[1] = a /\ <<a, b>>[2] = b
    BY Zenon
  <2>5. \A s, t \in Seq({a, b}) : Len(s) = 2 /\ Len(t) = 2 /\ s[1] = t[1] /\ s[2] = t[2] => s = t
    OBVIOUS
  <2> QED BY Zenon, <2>1, <2>2, <2>3, <2>4, <2>5
<1> QED BY Zenon, <1>1, <1>2, <1>3, <1>4

\* A list of steps that a thread of a session can hold (WsSession) is known from
\* its first step, and from whether it still reports or ends the session.
LEMMA TodoShape ==
  ASSUME NEW s \in Todo
  PROVE  /\ (\E n \in DOMAIN s : s[n] \in {"report", "unlist", "tell", "stop"}) <=> s \in EndTodo
         /\ s # <<>> /\ Head(s) = "loop" => s = <<"loop">>
         /\ s # <<>> /\ Head(s) = "read" => s = <<"read">>
         /\ s # <<>> /\ Head(s) = "deliver" => s = <<"deliver", "loop">>
         /\ s # <<>> /\ Head(s) = "check" => s \in {SendSteps, CloseSteps}
         /\ s # <<>> /\ Head(s) = "write" => s = <<"write">>
         /\ s # <<>> /\ Head(s) = "report" => s \in Reporting
         /\ s # <<>> /\ Head(s) = "unlist" => s \in {<<"unlist">>, <<"unlist", "stop">>}
         /\ s # <<>> /\ Head(s) = "tell" => s \in {<<"tell">>, <<"tell", "stop">>}
         /\ s # <<>> /\ Head(s) = "stop" => s = <<"stop">>
<1>1. (\E n \in DOMAIN s : s[n] \in {"report", "unlist", "tell", "stop"}) <=> s \in EndTodo
  BY DEF EndTodo, Todo, Reporting, Leaving, SendSteps, CloseSteps
<1> QED BY <1>1 DEF Todo, Reporting, Leaving, SendSteps, CloseSteps

\* What is left of each list of steps once its first step is replaced by the
\* steps it leads to (Then of WsSession).
LEMMA ThenShape ==
  /\ <<>> \o Tail(<<"deliver", "loop">>) = <<"loop">>
  /\ <<>> \o Tail(SendSteps) = <<"write">>
  /\ <<>> \o Tail(CloseSteps) = <<"report", "stop">>
  /\ <<>> \o Tail(<<"write">>) = <<>>
  /\ <<"report">> \o Tail(<<"write">>) = <<"report">>
  /\ <<"unlist">> \o Tail(<<"report">>) = <<"unlist">>
  /\ <<"unlist">> \o Tail(<<"report", "stop">>) = <<"unlist", "stop">>
  /\ <<>> \o Tail(<<"report">>) = <<>>
  /\ <<>> \o Tail(<<"report", "stop">>) = <<"stop">>
  /\ <<"tell">> \o Tail(<<"unlist">>) = <<"tell">>
  /\ <<"tell">> \o Tail(<<"unlist", "stop">>) = <<"tell", "stop">>
  /\ <<>> \o Tail(<<"unlist">>) = <<>>
  /\ <<>> \o Tail(<<"unlist", "stop">>) = <<"stop">>
  /\ <<>> \o Tail(<<"tell">>) = <<>>
  /\ <<>> \o Tail(<<"tell", "stop">>) = <<"stop">>
  /\ <<>> \o Tail(<<"stop">>) = <<>>
<1>1. /\ Tail(<<"deliver", "loop">>) = <<"loop">> /\ Tail(SendSteps) = <<"write">>
      /\ Tail(CloseSteps) = <<"report", "stop">> /\ Tail(<<"write">>) = <<>>
      /\ Tail(<<"report">>) = <<>> /\ Tail(<<"report", "stop">>) = <<"stop">>
  BY DEF SendSteps, CloseSteps
<1>2. /\ Tail(<<"unlist">>) = <<>> /\ Tail(<<"unlist", "stop">>) = <<"stop">>
      /\ Tail(<<"tell">>) = <<>> /\ Tail(<<"tell", "stop">>) = <<"stop">>
      /\ Tail(<<"stop">>) = <<>>
  OBVIOUS
<1>3. /\ <<>> \o <<>> = <<>> /\ <<>> \o <<"loop">> = <<"loop">> /\ <<>> \o <<"write">> = <<"write">>
      /\ <<>> \o <<"stop">> = <<"stop">> /\ <<>> \o <<"report", "stop">> = <<"report", "stop">>
  BY Zenon, ShortLists
<1>4. /\ <<"report">> \o <<>> = <<"report">> /\ <<"unlist">> \o <<>> = <<"unlist">>
      /\ <<"tell">> \o <<>> = <<"tell">>
  BY Zenon, ShortLists
<1>5. /\ <<"unlist">> \o <<"stop">> = <<"unlist", "stop">>
      /\ <<"tell">> \o <<"stop">> = <<"tell", "stop">>
  BY Zenon, ShortLists
<1> QED BY Zenon, <1>1, <1>2, <1>3, <1>4, <1>5

\* Thread t is left with the steps s on the session it is at work on, if any.
Moved(t, s) ==
  \E j \in {thread[t].id, 0} :
    /\ s # <<>> => j = thread[t].id
    /\ thread' = [thread EXCEPT ![t] = [id |-> j, todo |-> s]]

Pushed(e) == log' = IF closed THEN log ELSE Append(log, e)

\* A thread at the steps s on session i gives up, or goes on to the next step.
StepQuits(t, i, s) ==
  /\ s \in {<<"loop">>, <<"write">>, SendSteps, CloseSteps} /\ Moved(t, <<>>)
  /\ sess[i].stopped \/ s = <<"write">>
  /\ UNCHANGED <<sess, log>>

StepGoesOn(t, i, s) ==
  /\ \/ s = <<"loop">> /\ ~sess[i].stopped /\ Moved(t, <<"read">>)
     \/ s = SendSteps /\ Moved(t, <<"write">>)
     \/ s \in {<<"read">>, CloseSteps} /\ Moved(t, <<"report", "stop">>)
  /\ UNCHANGED <<sess, log>>

\* It reads a frame, delivers it, stops the transport, reports the close.
StepReads(t, i, s) ==
  /\ s = <<"read">> /\ ~sess[i].stopped /\ Moved(t, <<"deliver", "loop">>)
  /\ sess' = [sess EXCEPT ![i].frames = @ + 1] /\ UNCHANGED log

StepDelivers(t, i, s) ==
  /\ s = <<"deliver", "loop">> /\ Moved(t, <<"loop">>)
  /\ Pushed([kind |-> "message", id |-> i]) /\ UNCHANGED sess

StepStops(t, i, s) ==
  /\ \/ s = <<"write">> /\ Moved(t, <<"report">>)
     \/ s = <<"stop">> /\ Moved(t, <<>>)
  /\ sess' = [sess EXCEPT ![i].stopped = TRUE] /\ UNCHANGED log

StepReports(t, i, s) ==
  /\ \/ s = <<"report">> /\ sess[i].reported /\ Moved(t, <<>>)
     \/ s = <<"report">> /\ ~sess[i].reported /\ Moved(t, <<"unlist">>)
     \/ s = <<"report", "stop">> /\ sess[i].reported /\ Moved(t, <<"stop">>)
     \/ s = <<"report", "stop">> /\ ~sess[i].reported /\ Moved(t, <<"unlist", "stop">>)
  /\ sess' = [sess EXCEPT ![i].reported = TRUE] /\ UNCHANGED log

StepTells(t, i, s) ==
  /\ \/ s = <<"tell">> /\ Moved(t, <<>>)
     \/ s = <<"tell", "stop">> /\ Moved(t, <<"stop">>)
  /\ Pushed([kind |-> "close", id |-> i]) /\ UNCHANGED sess

\* The actions of WsSession, with their lists of steps spelt out.
LEMMA ThreadMoves ==
  ASSUME SessionInv, NEW t \in Threads, ThreadStep(t)
  PROVE  /\ UNCHANGED closed /\ thread[t].todo # <<>>
         /\ \E i \in Ids, s \in Todo :
              /\ i = thread[t].id /\ s = thread[t].todo
              /\ \/ StepQuits(t, i, s) \/ StepGoesOn(t, i, s) \/ StepReads(t, i, s)
                 \/ StepDelivers(t, i, s) \/ StepStops(t, i, s) \/ StepReports(t, i, s)
                 \/ StepTells(t, i, s)
<1>1. thread \in [Threads -> [id : Nat, todo : Todo]]
  BY Zenon DEF SessionInv, SessionTypeOK
<1>0. UNCHANGED closed /\ thread[t].todo # <<>>
  BY Zenon DEF ThreadStep, LoopCheck, ReadFrame, Deliver, ReadError, CheckStopped, Write, Report, Tell,
         StopTransport, At
<1>2. PICK i \in Ids, s \in Todo : i = thread[t].id /\ s = thread[t].todo
  BY Zenon, <1>0, <1>1 DEF SessionInv, ThreadInv
<1> SUFFICES \/ StepQuits(t, i, s) \/ StepGoesOn(t, i, s) \/ StepReads(t, i, s)
             \/ StepDelivers(t, i, s) \/ StepStops(t, i, s) \/ StepReports(t, i, s)
             \/ StepTells(t, i, s)
  BY Zenon, <1>0, <1>2
<1>3. ASSUME NEW r, Run(t, i, r) PROVE Moved(t, r)
  BY Zenon, <1>1, <1>2, <1>3 DEF Run, Moved
<1>4. ASSUME thread' = [thread EXCEPT ![t] = Idle] PROVE Moved(t, <<>>)
  BY Zenon, <1>1, <1>4 DEF Idle, Moved
<1>5. ASSUME NEW r, Then(t, r) PROVE Moved(t, r \o Tail(s))
  BY Zenon, <1>2, <1>3, <1>5 DEF Then
<1>6. CASE LoopCheck(t)
  <2>1. s = <<"loop">>
    BY Zenon, <1>2, <1>6, TodoShape DEF LoopCheck, At
  <2> QED BY Zenon, <1>2, <1>3, <1>6, <2>1 DEF LoopCheck, StepQuits, StepGoesOn
<1>7. CASE ReadFrame(t)
  <2>1. s = <<"read">>
    BY Zenon, <1>2, <1>7, TodoShape DEF ReadFrame, At
  <2> QED BY Zenon, <1>2, <1>3, <1>7, <2>1 DEF ReadFrame, StepReads
<1>8. CASE Deliver(t)
  <2>1. s = <<"deliver", "loop">>
    BY Zenon, <1>2, <1>8, TodoShape DEF Deliver, At
  <2>2. Moved(t, <<"loop">>)
    BY Zenon, <1>5, <1>8, <2>1, ThenShape DEF Deliver
  <2> QED BY Zenon, <1>2, <1>8, <2>1, <2>2 DEF Deliver, Push, Pushed, StepDelivers
<1>9. CASE ReadError(t)
  <2>1. s = <<"read">>
    BY Zenon, <1>2, <1>9, TodoShape DEF ReadError, At
  <2> QED BY Zenon, <1>2, <1>3, <1>9, <2>1 DEF ReadError, StepGoesOn
<1>10. CASE CheckStopped(t)
  <2>1. s \in {SendSteps, CloseSteps}
    BY Zenon, <1>2, <1>10, TodoShape DEF CheckStopped, At
  <2>2. CASE sess[i].stopped
    BY Zenon, <1>2, <1>4, <1>10, <2>1, <2>2 DEF CheckStopped, StepQuits
  <2>3. CASE ~sess[i].stopped
    <3>1. Moved(t, <<>> \o Tail(s))
      BY Zenon, <1>2, <1>5, <1>10, <2>3 DEF CheckStopped
    <3>2. CASE s = SendSteps
      BY Zenon, <1>10, <3>1, <3>2, ThenShape DEF CheckStopped, StepGoesOn
    <3>3. CASE s = CloseSteps
      BY Zenon, <1>10, <3>1, <3>3, ThenShape DEF CheckStopped, StepGoesOn
    <3> QED BY Zenon, <2>1, <3>2, <3>3
  <2> QED BY Zenon, <2>2, <2>3
<1>11. CASE Write(t)
  <2>1. s = <<"write">>
    BY Zenon, <1>2, <1>11, TodoShape DEF Write, At
  <2>2. Then(t, <<>>) => Moved(t, <<>>)
    BY Zenon, <1>5, <2>1, ThenShape
  <2>3. Then(t, <<"report">>) => Moved(t, <<"report">>)
    BY Zenon, <1>5, <2>1, ThenShape
  <2> QED BY Zenon, <1>2, <1>4, <1>11, <2>1, <2>2, <2>3 DEF Write, StepQuits, StepStops
<1>12. CASE Report(t)
  <2>1. s \in Reporting
    BY Zenon, <1>2, <1>12, TodoShape DEF Report, At
  <2>2. CASE sess[i].reported
    <3>1. Moved(t, <<>> \o Tail(s))
      BY Zenon, <1>2, <1>5, <1>12, <2>2 DEF Report
    <3> QED BY Zenon, <1>2, <1>12, <2>1, <2>2, <3>1, ThenShape DEF Report, StepReports, Reporting
  <2>3. CASE ~sess[i].reported
    <3>1. Moved(t, <<"unlist">> \o Tail(s))
      BY Zenon, <1>2, <1>5, <1>12, <2>3 DEF Report
    <3> QED BY Zenon, <1>2, <1>12, <2>1, <2>3, <3>1, ThenShape DEF Report, StepReports, Reporting
  <2> QED BY Zenon, <2>2, <2>3
<1>13. CASE Tell(t)
  <2>1. s \in {<<"tell">>, <<"tell", "stop">>}
    BY Zenon, <1>2, <1>13, TodoShape DEF Tell, At
  <2>2. Moved(t, <<>> \o Tail(s))
    BY Zenon, <1>5, <1>13 DEF Tell
  <2> QED BY Zenon, <1>2, <1>13, <2>1, <2>2, ThenShape DEF Tell, Push, Pushed, StepTells
<1>14. CASE StopTransport(t)
  <2>1. s = <<"stop">>
    BY Zenon, <1>2, <1>14, TodoShape DEF StopTransport, At
  <2>2. Moved(t, <<>>)
    BY Zenon, <1>5, <1>14, <2>1, ThenShape DEF StopTransport
  <2> QED BY Zenon, <1>2, <1>14, <2>1, <2>2 DEF StopTransport, StepStops
<1> QED BY Zenon, <1>6, <1>7, <1>8, <1>9, <1>10, <1>11, <1>12, <1>13, <1>14 DEF ThreadStep

\* The queue takes an event: what is in the log afterwards.
LEMMA PushKept ==
  ASSUME SessionInv, NEW i \in Ids, NEW k \in {"open", "message", "close"},
         Pushed([kind |-> k, id |-> i]),
         closed \/ k = "open" \/ Event(i, "open"),
         closed \/ k = "message" \/ ~Event(i, k)
  PROVE  /\ log' \in Seq([kind : {"open", "message", "close"}, id : Ids])
         /\ EventsWellFormed'
         /\ \A j \in Ids : \A q \in {"open", "close"} :
              Event(j, q)' <=> Event(j, q) \/ (~closed /\ j = i /\ q = k)
         /\ \A j \in Ids : NoEvent(j) /\ (closed \/ j # i) => NoEvent(j)'
<1> DEFINE E == [kind : {"open", "message", "close"}, id : Ids]
           e == [kind |-> k, id |-> i]
<1>1. log \in Seq(E) /\ EventsWellFormed /\ e \in E
  BY Zenon DEF SessionInv, SessionTypeOK
<1>2. CASE closed
  <2>1. log' = log
    BY Zenon, <1>2 DEF Pushed
  <2> QED BY Zenon, <1>1, <1>2, <2>1 DEF EventsWellFormed, Event, NoEvent
<1>3. CASE ~closed
  <2> DEFINE l == Append(log, e)
  <2>1. log' = l
    BY Zenon, <1>3 DEF Pushed
  <2>2. /\ l \in Seq(E) /\ Len(l) = Len(log) + 1 /\ Len(log) \in Nat
        /\ DOMAIN log = 1..Len(log) /\ DOMAIN l = 1..(Len(log) + 1)
        /\ l[Len(log) + 1] = e /\ \A n \in 1..Len(log) : l[n] = log[n]
    BY <1>1
  <2> HIDE DEF l
  <2>3. \A n \in DOMAIN log : n \in DOMAIN l /\ l[n] = log[n]
    BY <2>2
  <2>4. \A n \in DOMAIN l : n \in DOMAIN log \/ n = Len(log) + 1
    BY <2>2
  <2>5. Len(log) + 1 \in DOMAIN l /\ Len(log) + 1 \notin DOMAIN log
    BY <2>2
  <2>6. \A j \in Ids : \A q \in {"open", "close"} :
              Event(j, q)' <=> Event(j, q) \/ (~closed /\ j = i /\ q = k)
    BY SMTT(30), <1>3, <2>1, <2>2, <2>3, <2>4, <2>5 DEF Event
  <2>7. \A j \in Ids : NoEvent(j) /\ (closed \/ j # i) => NoEvent(j)'
    BY <1>3, <2>1, <2>2, <2>3, <2>4, <2>5 DEF NoEvent
  <2>8. EventsWellFormed'
    <3> SUFFICES ASSUME NEW n \in DOMAIN l
                 PROVE  /\ \E m \in 1..n : l[m] = [kind |-> "open", id |-> l[n].id]
                        /\ \A m \in DOMAIN l : l[m] = l[n] /\ l[n].kind \in {"open", "close"} => m = n
      BY Zenon, <2>1 DEF EventsWellFormed
    <3>1. CASE n \in DOMAIN log
      <4>1. PICK m \in 1..n : log[m] = [kind |-> "open", id |-> log[n].id]
        BY Zenon, <1>1, <3>1 DEF EventsWellFormed
      <4>2. m \in DOMAIN log
        BY <2>2, <3>1
      <4>3. ASSUME NEW p \in DOMAIN l, l[p] = l[n], l[n].kind \in {"open", "close"} PROVE p = n
        <5>1. CASE p \in DOMAIN log
          BY Zenon, <1>1, <2>3, <3>1, <4>3, <5>1 DEF EventsWellFormed
        <5>2. CASE p = Len(log) + 1
          BY <1>3, <2>2, <2>3, <3>1, <4>3, <5>2 DEF Event
        <5> QED BY Zenon, <2>4, <5>1, <5>2
      <4> QED BY Zenon, <2>3, <3>1, <4>1, <4>2, <4>3
    <3>2. CASE n = Len(log) + 1
      <4>1. l[n] = e
        BY Zenon, <2>2, <3>2
      <4>2. \E m \in 1..n : l[m] = [kind |-> "open", id |-> i]
        <5>1. CASE k = "open"
          BY Zenon, <2>2, <3>2, <4>1, <5>1
        <5>2. CASE k # "open"
          <6>1. PICK m \in DOMAIN log : log[m] = [kind |-> "open", id |-> i]
            BY Zenon, <1>3, <5>2 DEF Event
          <6>2. m \in 1..n /\ l[m] = log[m]
            BY <2>2, <3>2
          <6> QED BY Zenon, <6>1, <6>2
        <5> QED BY Zenon, <5>1, <5>2
      <4>3. ASSUME NEW p \in DOMAIN l, l[p] = e, k \in {"open", "close"} PROVE p = n
        <5>1. CASE p \in DOMAIN log
          BY Zenon, <1>3, <2>3, <4>3, <5>1 DEF Event
        <5> QED BY Zenon, <2>4, <3>2, <5>1
      <4> QED BY <4>1, <4>2, <4>3
    <3> QED BY Zenon, <2>4, <3>1, <3>2
  <2> QED BY Zenon, <2>1, <2>2, <2>6, <2>7, <2>8
<1> QED BY Zenon, <1>2, <1>3

SessType == [Ids -> [made : BOOLEAN, opened : BOOLEAN, stopped : BOOLEAN, reported : BOOLEAN,
                     frames : Nat, peer : BOOLEAN]]

\* Thread t moves on to the steps s on session i: what keeps the invariant of
\* the sessions.
SessionMove(t, i, s) ==
  /\ thread' \in [Threads -> [id : Nat, todo : Todo]]
  /\ \A u \in Threads \ {t} : thread'[u] = thread[u]
  /\ thread'[t].todo = s /\ (s # <<>> => thread'[t].id = i)
  /\ sess' \in SessType
  /\ \A j \in Ids : /\ sess[j].opened => sess'[j].opened
                    /\ sess[j].stopped => sess'[j].stopped
                    /\ sess[j].reported => sess'[j].reported
  /\ closed' \in BOOLEAN /\ (closed => closed')
  /\ log' \in Seq([kind : {"open", "message", "close"}, id : Ids])
  /\ EventsWellFormed'
  /\ \A j \in Ids : Event(j, "open") => Event(j, "open")'
  /\ \A j \in Ids : Event(j, "close")' =>
       \/ Event(j, "close")
       \/ j = i /\ sess'[i].reported /\ thread[t].todo \in Leaving /\ thread[t].id = i
          /\ s \notin Leaving
  /\ s # <<>> => Event(i, "open")' \/ closed'
  /\ \A j \in Ids : t = Reader(j) /\ s # <<>> =>
       i = j /\ sess'[i].opened /\ s \notin {SendSteps, <<"write">>}
  /\ s \in {<<"report">>, <<"unlist">>, <<"tell">>} => sess'[i].stopped
  /\ s \in Leaving \cup {<<"stop">>} => sess'[i].reported
  /\ s \in Leaving => /\ ~Event(i, "close")'
                      /\ \/ thread[t].todo \in Leaving /\ thread[t].id = i
                         \/ ~sess[i].reported

\* Such a move keeps it.
LEMMA SessionKept ==
  ASSUME SessionInv, NEW t \in Threads, NEW i \in Ids, NEW s \in Todo, SessionMove(t, i, s)
  PROVE  SessionInv'
<1> USE DEF SessionMove
<1>1. SessionTypeOK /\ ThreadInv /\ ReportInv
  BY Zenon DEF SessionInv
<1>2. SessionTypeOK'
  BY Zenon, <1>1 DEF SessionTypeOK, SessType
<1>3. \A u \in Threads \ {t} : thread[u].todo # <<>> =>
        thread[u].id \in Ids /\ (Event(thread[u].id, "open") \/ closed)
  BY Zenon, <1>1 DEF ThreadInv
<1>4. <<>> \notin Leaving /\ <<"stop">> # <<>> /\ <<"report">> # <<>> /\ <<"unlist">> # <<>>
      /\ <<"tell">> # <<>>
  BY Zenon DEF Leaving
<1>7. ASSUME NEW u \in Threads, NEW v, thread'[u].id = v, NEW k
      PROVE  Event(thread[u].id, k)' <=> Event(v, k)'
  BY Zenon, <1>7 DEF Event
<1>8. ASSUME NEW u \in Threads, NEW v, thread[u].id = v, NEW k
      PROVE  Event(thread[u].id, k) <=> Event(v, k)
  BY Zenon, <1>8 DEF Event
<1>5. ThreadInv'
  <2>1. ASSUME NEW u \in Threads, thread'[u].todo # <<>>
        PROVE  thread'[u].id \in Ids /\ (Event(thread[u].id, "open")' \/ closed')
    <3>1. PICK v : v = thread'[u].id
      BY Zenon
    <3>2. v \in Ids /\ (Event(v, "open")' \/ closed')
      <4>1. CASE u = t
        BY Zenon, <2>1, <3>1, <4>1
      <4>2. CASE u # t
        <5>1. v = thread[u].id /\ thread[u].todo # <<>>
          BY Zenon, <2>1, <3>1, <4>2
        <5>2. v \in Ids /\ (Event(v, "open") \/ closed)
          BY Zenon, <1>3, <1>8, <4>2, <5>1
        <5> QED BY Zenon, <5>2
      <4> QED BY Zenon, <4>1, <4>2
    <3> QED BY Zenon, <1>7, <3>1, <3>2
  <2>2. ASSUME NEW j \in Ids, thread'[Reader(j)].todo # <<>>
        PROVE  /\ thread'[Reader(j)].id = j /\ sess'[j].opened
               /\ thread'[Reader(j)].todo \notin {SendSteps, <<"write">>}
    <3>1. Reader(j) \in Threads
      BY Zenon DEF Threads
    <3>2. CASE t = Reader(j)
      BY Zenon, <2>2, <3>2
    <3>3. CASE t # Reader(j)
      <4>1. thread'[Reader(j)] = thread[Reader(j)]
        BY Zenon, <3>1, <3>3
      <4>2. thread[Reader(j)].todo # <<>> =>
              /\ thread[Reader(j)].id = j /\ sess[j].opened
              /\ thread[Reader(j)].todo \notin {SendSteps, <<"write">>}
        BY Zenon, <1>1 DEF ThreadInv
      <4>3. sess[j].opened => sess'[j].opened
        BY Zenon
      <4> QED BY Zenon, <2>2, <4>1, <4>2, <4>3
    <3> QED BY Zenon, <3>2, <3>3
  <2> QED BY Zenon, <2>1, <2>2 DEF ThreadInv
<1>6. ReportInv'
  <2>1. ASSUME NEW u \in Threads
        PROVE  /\ thread'[u].todo \in {<<"report">>, <<"unlist">>, <<"tell">>} => sess'[thread'[u].id].stopped
               /\ thread'[u].todo \in Leaving \cup {<<"stop">>} => sess'[thread'[u].id].reported
               /\ thread'[u].todo \in Leaving => ~Event(thread[u].id, "close")'
    <3>0. PICK v : v = thread'[u].id
      OBVIOUS
    <3>1. CASE u = t
      <4>1. s # <<>> => v = i
        BY Zenon, <3>0, <3>1
      <4>2. /\ s \in {<<"report">>, <<"unlist">>, <<"tell">>} => sess'[v].stopped
            /\ s \in Leaving \cup {<<"stop">>} => sess'[v].reported
        BY Zenon, <1>4, <4>1
      <4>3. s \in Leaving => ~Event(v, "close")'
        BY Zenon, <1>4, <4>1
      <4> QED BY Zenon, <1>7, <3>0, <3>1, <4>2, <4>3
    <3>2. CASE u # t
      <4>1. thread'[u] = thread[u] /\ v = thread[u].id
        BY Zenon, <3>0, <3>2
      <4>2. /\ thread[u].todo \in {<<"report">>, <<"unlist">>, <<"tell">>} => sess[v].stopped
            /\ thread[u].todo \in Leaving \cup {<<"stop">>} => sess[v].reported
            /\ thread[u].todo \in Leaving => ~Event(v, "close")
        BY Zenon, <1>1, <1>8, <4>1 DEF ReportInv
      <4>3. thread[u].todo # <<>> => v \in Ids
        BY Zenon, <1>3, <3>2, <4>1
      <4>4. thread[u].todo \in Leaving /\ thread[t].todo \in Leaving => v # thread[t].id
        BY Zenon, <1>1, <3>2, <4>1 DEF ReportInv
      <4>5. /\ thread[u].todo \in {<<"report">>, <<"unlist">>, <<"tell">>} => sess'[v].stopped
            /\ thread[u].todo \in Leaving \cup {<<"stop">>} => sess'[v].reported
        BY Zenon, <1>4, <4>2, <4>3
      <4>6. thread[u].todo \in Leaving => ~Event(v, "close")'
        BY Zenon, <1>4, <4>2, <4>3, <4>4
      <4> QED BY Zenon, <1>7, <3>0, <4>1, <4>5, <4>6
    <3> QED BY Zenon, <3>1, <3>2
  <2>2. ASSUME NEW u \in Threads, NEW v \in Threads, thread'[u].todo \in Leaving,
               thread'[v].todo \in Leaving, thread'[u].id = thread'[v].id
        PROVE  u = v
    <3>1. \A x, y \in Threads : thread[x].todo \in Leaving /\ thread[y].todo \in Leaving
                                /\ thread[x].id = thread[y].id => x = y
      BY Zenon, <1>1 DEF ReportInv
    <3>2. \A x \in Threads : thread[x].todo \in Leaving => sess[thread[x].id].reported
      BY Zenon, <1>1 DEF ReportInv
    <3>3. CASE u # t /\ v # t
      BY <2>2, <3>1, <3>3
    <3>4. ASSUME NEW x \in Threads \ {t}, thread'[x].todo \in Leaving, s \in Leaving,
                 thread'[x].id = thread'[t].id
          PROVE  FALSE
      <4>1. thread[x].todo \in Leaving /\ thread[x].id = i
        BY Zenon, <1>4, <3>4
      <4>2. sess[i].reported
        BY Zenon, <3>2, <4>1
      <4>3. thread[t].todo \in Leaving /\ thread[t].id = i
        BY Zenon, <3>4, <4>2
      <4> QED BY Zenon, <3>1, <4>1, <4>3
    <3> QED BY Zenon, <2>2, <3>3, <3>4
  <2>3. ASSUME NEW j \in Ids, ~sess'[j].reported PROVE ~Event(j, "close")'
    BY Zenon, <1>1, <2>3 DEF ReportInv
  <2> QED BY Zenon, <2>1, <2>2, <2>3 DEF ReportInv
<1> QED BY Zenon, <1>2, <1>5, <1>6 DEF SessionInv

\* The types, and what a move changes.
LEMMA MovedFacts ==
  ASSUME SessionInv, NEW t \in Threads, NEW s \in Todo, Moved(t, s), thread[t].todo # <<>>
  PROVE  /\ thread' \in [Threads -> [id : Nat, todo : Todo]]
         /\ \A u \in Threads \ {t} : thread'[u] = thread[u]
         /\ thread'[t].todo = s /\ (s # <<>> => thread'[t].id = thread[t].id)
         /\ thread[t].id \in Ids /\ (Event(thread[t].id, "open") \/ closed)
         /\ \A j \in Ids : t = Reader(j) => /\ thread[t].id = j /\ sess[j].opened
                                            /\ thread[t].todo \notin {SendSteps, <<"write">>}
<1>1. thread \in [Threads -> [id : Nat, todo : Todo]]
  BY Zenon DEF SessionInv, SessionTypeOK
<1>2. /\ thread[t].id \in Ids /\ (Event(thread[t].id, "open") \/ closed)
      /\ \A j \in Ids : t = Reader(j) => /\ thread[t].id = j /\ sess[j].opened
                                         /\ thread[t].todo \notin {SendSteps, <<"write">>}
  BY Zenon DEF SessionInv, ThreadInv
<1>3. PICK j \in {thread[t].id, 0} : /\ s # <<>> => j = thread[t].id
                                     /\ thread' = [thread EXCEPT ![t] = [id |-> j, todo |-> s]]
  BY Zenon DEF Moved
<1>4. j \in Nat
  BY <1>1
<1> QED BY Zenon, <1>1, <1>2, <1>3, <1>4

\* What a step of the session code never undoes.
Kept ==
  /\ \A j \in Ids : /\ sess'[j].opened = sess[j].opened
                    /\ sess[j].stopped => sess'[j].stopped
                    /\ sess[j].reported => sess'[j].reported
                    /\ Ending(j) => Ending(j)' \/ sess'[j].stopped
                    /\ Untouched(j) => Untouched(j)'
                    /\ Event(j, "open") => Event(j, "open")'
                    /\ NoEvent(j) => NoEvent(j)'
  /\ closed' = closed

\* Only the lists of steps that end a session matter to Ending.
LEMMA EndingKept ==
  ASSUME SessionInv, NEW t \in Threads, NEW s \in Todo, Moved(t, s), thread[t].todo # <<>>,
         thread[t].todo \in EndTodo => s \in EndTodo \/ sess'[thread[t].id].stopped,
         NEW j \in Ids, Ending(j)
  PROVE  Ending(j)' \/ sess'[j].stopped
<1>1. PICK u \in Threads : thread[u].id = j /\ thread[u].todo \in EndTodo
  BY TodoShape DEF Ending, SessionInv, SessionTypeOK
<1>2. /\ \A v \in Threads \ {t} : thread'[v] = thread[v]
      /\ thread'[t].todo = s /\ (s # <<>> => thread'[t].id = thread[t].id)
  BY Zenon, MovedFacts
<1>3. s \in EndTodo => s # <<>>
  BY Zenon DEF EndTodo
<1>4. ASSUME NEW v \in Threads, thread'[v].id = j, thread'[v].todo \in EndTodo PROVE Ending(j)'
  <2>1. \E n \in DOMAIN thread'[v].todo : thread'[v].todo[n] \in {"report", "unlist", "tell", "stop"}
    BY Zenon, <1>4, TodoShape DEF EndTodo
  <2> QED BY Zenon, <1>4, <2>1 DEF Ending
<1>5. CASE u # t
  BY Zenon, <1>1, <1>2, <1>4, <1>5
<1>6. CASE u = t
  BY Zenon, <1>1, <1>2, <1>3, <1>4, <1>6
<1> QED BY Zenon, <1>5, <1>6

\* A thread at work is at work on a session somebody has touched.
LEMMA UntouchedKept ==
  ASSUME SessionInv, NEW t \in Threads, NEW s \in Todo, Moved(t, s), thread[t].todo # <<>>,
         NEW j \in Ids, Untouched(j), j # thread[t].id => sess'[j] = sess[j] /\ NoEvent(j)'
  PROVE  Untouched(j)'
<1>1. j # thread[t].id
  BY Zenon DEF Untouched
<1>2. /\ \A v \in Threads \ {t} : thread'[v] = thread[v]
      /\ thread'[t].todo = s /\ (s # <<>> => thread'[t].id = thread[t].id)
  BY Zenon, MovedFacts
<1>3. \A v \in Threads : thread'[v].todo # <<>> => thread'[v].id # j
  BY Zenon, <1>1, <1>2 DEF Untouched
<1> QED BY Zenon, <1>1, <1>3 DEF Untouched

\* A step that pushes no event.
LEMMA QuietMove ==
  ASSUME SessionInv, NEW t \in Threads, NEW s \in Todo, NEW i \in Ids, i = thread[t].id,
         thread[t].todo # <<>>, Moved(t, s), UNCHANGED <<log, closed>>, sess' \in SessType,
         \A j \in Ids \ {i} : sess'[j] = sess[j],
         sess'[i].opened = sess[i].opened,
         sess[i].stopped => sess'[i].stopped,
         sess[i].reported => sess'[i].reported,
         s \in {<<"report">>, <<"unlist">>, <<"tell">>} => sess'[i].stopped,
         s \in Leaving \cup {<<"stop">>} => sess'[i].reported,
         s \in Leaving => thread[t].todo \in Leaving \/ ~sess[i].reported,
         s # SendSteps, s = <<"write">> => thread[t].todo = SendSteps,
         thread[t].todo \in EndTodo => s \in EndTodo \/ sess'[i].stopped
  PROVE  SessionInv' /\ Kept
<1>1. /\ thread' \in [Threads -> [id : Nat, todo : Todo]]
      /\ \A u \in Threads \ {t} : thread'[u] = thread[u]
      /\ thread'[t].todo = s /\ (s # <<>> => thread'[t].id = i)
      /\ \A j \in Ids : t = Reader(j) => /\ i = j /\ sess[j].opened
                                         /\ thread[t].todo \notin {SendSteps, <<"write">>}
  BY MovedFacts
<1>2. Event(i, "open") \/ closed
  BY ZenonT(60), MovedFacts DEF Event
<1>3. \A j, k : (Event(j, k)' <=> Event(j, k)) /\ (NoEvent(j)' <=> NoEvent(j))
  BY Zenon DEF Event, NoEvent
<1>4. /\ log' \in Seq([kind : {"open", "message", "close"}, id : Ids])
      /\ EventsWellFormed'
  BY DEF SessionInv, SessionTypeOK, EventsWellFormed
<1>5. \A j \in Ids : /\ sess'[j].opened = sess[j].opened
                     /\ sess[j].stopped => sess'[j].stopped
                     /\ sess[j].reported => sess'[j].reported
  BY Zenon
<1>6. \A j \in Ids : t = Reader(j) /\ s # <<>> =>
        i = j /\ sess'[i].opened /\ s \notin {SendSteps, <<"write">>}
  BY Zenon, <1>1
<1>7. s \in Leaving => /\ ~Event(i, "close")
                       /\ (thread[t].todo \in Leaving /\ thread[t].id = i) \/ ~sess[i].reported
  BY SMTT(30) DEF SessionInv, ReportInv, Event
<1>11. /\ \A j \in Ids : Event(j, "open") => Event(j, "open")'
       /\ \A j \in Ids : Event(j, "close")' => Event(j, "close")
       /\ s # <<>> => Event(i, "open")' \/ closed'
       /\ s \in Leaving => ~Event(i, "close")'
  BY SMTT(30), <1>2, <1>3, <1>7
<1>8. SessionInv'
  <2>0. closed' \in BOOLEAN /\ (closed => closed')
    BY ZenonT(60) DEF SessionInv, SessionTypeOK
  <2>1. SessionMove(t, i, s)
    BY ZenonT(60), <2>0, <1>1, <1>4, <1>5, <1>6, <1>7, <1>11 DEF SessionMove
  <2> QED BY Zenon, <2>1, SessionKept
<1>9. \A j \in Ids : Ending(j) => Ending(j)' \/ sess'[j].stopped
  BY SMTT(30), EndingKept
<1>10. \A j \in Ids : Untouched(j) => Untouched(j)'
  BY Zenon, <1>3, UntouchedKept DEF Untouched
<1> QED BY Zenon, <1>3, <1>5, <1>8, <1>9, <1>10 DEF Kept

\* A step that pushes a message or the close event.
LEMMA PushMove ==
  ASSUME SessionInv, NEW t \in Threads, NEW s \in Todo, NEW i \in Ids, i = thread[t].id,
         thread[t].todo # <<>>, Moved(t, s), UNCHANGED <<sess, closed>>,
         NEW k \in {"message", "close"}, Pushed([kind |-> k, id |-> i]),
         k = "close" => thread[t].todo \in Leaving,
         s \in {<<>>, <<"loop">>, <<"stop">>},
         s = <<"stop">> => thread[t].todo \in Leaving,
         thread[t].todo \in EndTodo => s \in EndTodo \/ sess'[i].stopped
  PROVE  SessionInv' /\ Kept
<1>1. /\ thread' \in [Threads -> [id : Nat, todo : Todo]]
      /\ \A u \in Threads \ {t} : thread'[u] = thread[u]
      /\ thread'[t].todo = s /\ (s # <<>> => thread'[t].id = i)
      /\ \A j \in Ids : t = Reader(j) => /\ i = j /\ sess[j].opened
                                         /\ thread[t].todo \notin {SendSteps, <<"write">>}
  BY Zenon, MovedFacts
<1>2. Event(i, "open") \/ closed
  BY ZenonT(60), MovedFacts DEF Event
<1>3. thread[t].todo \in Leaving => sess[i].reported /\ ~Event(i, "close")
  BY Zenon DEF SessionInv, ReportInv, Event
<1>4. /\ log' \in Seq([kind : {"open", "message", "close"}, id : Ids])
      /\ EventsWellFormed'
      /\ \A j \in Ids : \A q \in {"open", "close"} :
           Event(j, q)' <=> Event(j, q) \/ (~closed /\ j = i /\ q = k)
      /\ \A j \in Ids : NoEvent(j) /\ (closed \/ j # i) => NoEvent(j)'
  <2>1. closed \/ k = "message" \/ ~Event(i, k)
    BY Zenon, <1>3 DEF Event
  <2>2. k \in {"open", "message", "close"} /\ (closed \/ k = "open" \/ Event(i, "open"))
    BY Zenon, <1>2
  <2> QED BY ZenonT(60), <2>1, <2>2, PushKept
<1>5. sess' \in SessType
  BY Zenon DEF SessionInv, SessionTypeOK, SessType
<1>6. s \notin Leaving /\ s \notin {<<"report">>, <<"unlist">>, <<"tell">>}
  <2>1. {<<>>, <<"loop">>, <<"stop">>} \cap Leaving = {}
    BY DEF Leaving
  <2>2. {<<>>, <<"loop">>, <<"stop">>} \cap {<<"report">>, <<"unlist">>, <<"tell">>} = {}
    OBVIOUS
  <2> QED BY Zenon, <2>1, <2>2
<1>7. \A j \in Ids : Event(j, "open") => Event(j, "open")'
  BY Zenon, <1>4
<1>8. \A j \in Ids : Event(j, "close")' =>
           \/ Event(j, "close")
           \/ j = i /\ sess'[i].reported /\ thread[t].todo \in Leaving /\ thread[t].id = i
              /\ s \notin Leaving
  BY Zenon, <1>3, <1>4, <1>6
<1>9. \A j \in Ids : t = Reader(j) /\ s # <<>> =>
        i = j /\ sess'[i].opened /\ s \notin {SendSteps, <<"write">>}
  <2>1. s \notin {SendSteps, <<"write">>}
    BY SMTT(30) DEF SendSteps
  <2> QED BY Zenon, <1>1, <2>1
<1>10. s \in Leaving \cup {<<"stop">>} => sess'[i].reported
  BY Zenon, <1>3, <1>6
<1>11. s # <<>> => Event(i, "open")' \/ closed'
  BY Zenon, <1>2, <1>4
<1>12. SessionInv'
  <2>0. closed' \in BOOLEAN /\ (closed => closed')
    BY SMTT(30) DEF SessionInv, SessionTypeOK
  <2>1. SessionMove(t, i, s)
    BY ZenonT(60), <2>0, <1>1, <1>4, <1>5, <1>6, <1>7, <1>8, <1>9, <1>10, <1>11 DEF SessionMove
  <2> QED BY Zenon, <2>1, SessionKept
<1>13. \A j \in Ids : Ending(j) => Ending(j)' \/ sess'[j].stopped
  BY ZenonT(60), EndingKept
<1>14. \A j \in Ids : NoEvent(j) => NoEvent(j)'
  BY SMTT(30), <1>2, <1>4 DEF Event, NoEvent
<1>15. \A j \in Ids : Untouched(j) => Untouched(j)'
  BY Zenon, <1>14, UntouchedKept DEF Untouched
<1> QED BY Zenon, <1>7, <1>12, <1>13, <1>14, <1>15 DEF Kept

\* A step of a thread keeps the invariant of the sessions.
LEMMA StepKept ==
  ASSUME SessionInv, NEW t \in Threads, ThreadStep(t)
  PROVE  SessionInv' /\ Kept
<1>0. closed' = closed /\ thread[t].todo # <<>>
  BY Zenon, ThreadMoves
<1>1. PICK i \in Ids, s \in Todo :
        /\ i = thread[t].id /\ s = thread[t].todo
        /\ \/ StepQuits(t, i, s) \/ StepGoesOn(t, i, s) \/ StepReads(t, i, s)
           \/ StepDelivers(t, i, s) \/ StepStops(t, i, s) \/ StepReports(t, i, s)
           \/ StepTells(t, i, s)
  BY Zenon, ThreadMoves
<1>3. sess \in SessType
  BY Zenon DEF SessionInv, SessionTypeOK, SessType
<1>4. /\ <<>> \in Todo /\ <<"loop">> \in Todo /\ <<"read">> \in Todo /\ <<"deliver", "loop">> \in Todo
      /\ <<"write">> \in Todo /\ <<"stop">> \in Todo /\ Reporting \subseteq Todo
      /\ Leaving \subseteq Todo
  BY Zenon DEF Todo
<1>5. /\ <<"stop">> \in EndTodo /\ Reporting \subseteq EndTodo /\ Leaving \subseteq EndTodo
      /\ CloseSteps \in EndTodo /\ SendSteps \notin EndTodo
      /\ {<<"loop">>, <<"read">>, <<"deliver", "loop">>, <<"write">>} \cap EndTodo = {}
  BY SMTT(30) DEF EndTodo, Todo, Reporting, Leaving, SendSteps, CloseSteps
<1>6. /\ s = <<"report">> => sess[i].stopped
      /\ s = <<"tell">> => sess[i].stopped
      /\ s \in Leaving \cup {<<"stop">>} => sess[i].reported
  BY ZenonT(60), <1>1 DEF SessionInv, ReportInv
<1>7. {<<>>, <<"read">>, <<"deliver", "loop">>, <<"loop">>, <<"write">>, <<"report", "stop">>}
        \cap ({<<"report">>, <<"unlist">>, <<"tell">>, <<"stop">>} \cup Leaving) = {}
  BY DEF Leaving
<1>8. <<"stop">> \notin Leaving /\ <<"report">> \notin Leaving \cup {<<"stop">>}
      /\ <<"stop">> \notin {<<"report">>, <<"unlist">>, <<"tell">>}
      /\ <<"unlist", "stop">> \notin {<<"report">>, <<"unlist">>, <<"tell">>}
  BY Zenon DEF Leaving
<1>9. /\ <<"report">> \in Reporting /\ <<"report", "stop">> \in Reporting
      /\ <<"unlist">> \in Leaving /\ <<"unlist", "stop">> \in Leaving
      /\ <<"tell">> \in Leaving /\ <<"tell", "stop">> \in Leaving
  BY Zenon DEF Reporting, Leaving
<1>17. /\ SendSteps \notin {<<>>, <<"read">>, <<"write">>, <<"deliver", "loop">>, <<"stop">>}
       /\ SendSteps \notin Reporting \cup Leaving
       /\ <<"write">> \notin {<<>>, <<"read">>, <<"deliver", "loop">>, <<"stop">>} \cup Reporting \cup Leaving
  BY Zenon DEF SendSteps, Reporting, Leaving
<1>10. CASE StepQuits(t, i, s)
  BY Zenon, <1>0, <1>1, <1>3, <1>4, <1>5, <1>7, <1>10, <1>17, QuietMove DEF StepQuits
<1>11. CASE StepGoesOn(t, i, s)
  BY ZenonT(60), <1>0, <1>1, <1>3, <1>4, <1>5, <1>7, <1>9, <1>11, <1>17, QuietMove DEF StepGoesOn
<1>12. CASE StepReads(t, i, s)
  <2>1. /\ sess' \in SessType /\ \A j \in Ids \ {i} : sess'[j] = sess[j]
        /\ sess'[i].opened = sess[i].opened
        /\ sess[i].stopped => sess'[i].stopped
        /\ sess[i].reported => sess'[i].reported
    BY <1>3, <1>12 DEF SessType, StepReads
  <2>2. s \notin EndTodo /\ Moved(t, <<"deliver", "loop">>) /\ UNCHANGED log
    BY SMTT(30), <1>5, <1>12 DEF StepReads
  <2> QED BY ZenonT(60), <1>0, <1>1, <1>4, <1>7, <1>17, <2>1, <2>2, QuietMove
<1>13. CASE StepDelivers(t, i, s)
  BY Zenon, <1>0, <1>1, <1>4, <1>5, <1>13, PushMove DEF StepDelivers
<1>14. CASE StepStops(t, i, s)
  <2>1. /\ sess' \in SessType /\ \A j \in Ids \ {i} : sess'[j] = sess[j]
        /\ sess'[i].opened = sess[i].opened /\ sess'[i].stopped
        /\ sess[i].reported => sess'[i].reported
    BY ZenonT(60), <1>3, <1>14 DEF SessType, StepStops
  <2>2. CASE s = <<"write">> /\ Moved(t, <<"report">>)
    BY Zenon, <1>0, <1>1, <1>4, <1>8, <1>9, <1>14, <1>17, <2>1, <2>2, QuietMove DEF StepStops
  <2>3. CASE s = <<"stop">> /\ Moved(t, <<>>)
    BY Zenon, <1>0, <1>1, <1>4, <1>7, <1>14, <1>17, <2>1, <2>3, QuietMove DEF StepStops
  <2> QED BY Zenon, <1>14, <2>2, <2>3 DEF StepStops
<1>15. CASE StepReports(t, i, s)
  <2>1. /\ sess' \in SessType /\ \A j \in Ids \ {i} : sess'[j] = sess[j]
        /\ sess'[i].opened = sess[i].opened /\ sess'[i].reported
        /\ sess[i].stopped => sess'[i].stopped
    BY ZenonT(60), <1>3, <1>15 DEF SessType, StepReports
  <2>2. UNCHANGED log
    BY Zenon, <1>15 DEF StepReports
  <2>3. CASE s = <<"report">> /\ Moved(t, <<>>)
    BY Zenon, <1>0, <1>1, <1>4, <1>6, <1>7, <2>1, <1>17, <2>2, <2>3, QuietMove
  <2>4. CASE s = <<"report">> /\ ~sess[i].reported /\ Moved(t, <<"unlist">>)
    BY ZenonT(60), <1>0, <1>1, <1>4, <1>5, <1>6, <1>9, <2>1, <1>17, <2>2, <2>4, QuietMove
  <2>5. CASE Moved(t, <<"stop">>)
    BY ZenonT(60), <1>0, <1>1, <1>4, <1>5, <1>8, <2>1, <1>17, <2>2, <2>5, QuietMove
  <2>6. CASE ~sess[i].reported /\ Moved(t, <<"unlist", "stop">>)
    BY Zenon, <1>0, <1>1, <1>4, <1>5, <1>8, <1>9, <2>1, <1>17, <2>2, <2>6, QuietMove
  <2> QED BY Zenon, <1>15, <2>3, <2>4, <2>5, <2>6 DEF StepReports
<1>16. CASE StepTells(t, i, s)
  <2>1. CASE s = <<"tell">> /\ Moved(t, <<>>)
    BY ZenonT(60), <1>0, <1>1, <1>4, <1>6, <1>9, <1>16, <2>1, PushMove DEF StepTells
  <2>2. CASE s = <<"tell", "stop">> /\ Moved(t, <<"stop">>)
    BY Zenon, <1>0, <1>1, <1>4, <1>5, <1>9, <1>16, <2>2, PushMove DEF StepTells
  <2> QED BY SMTT(30), <1>16, <2>1, <2>2 DEF StepTells
<1> QED BY ZenonT(60), <1>1, <1>10, <1>11, <1>12, <1>13, <1>14, <1>15, <1>16

\* What the server and the client rest on: what a step never undoes.
SessionsGo ==
  /\ \A j \in Ids : /\ sess'[j].opened = sess[j].opened
                    /\ sess[j].stopped => sess'[j].stopped
                    /\ Ending(j) => Ending(j)' \/ sess'[j].stopped
                    /\ Event(j, "open") => Event(j, "open")'
                    /\ NoEvent(j) => NoEvent(j)'
  /\ closed => closed'

\* The owner of the sessions, not a thread of theirs, takes a step: the flags of
\* a session only rise, and no close event is pushed.
LEMMA SessionsStand ==
  ASSUME SessionInv, UNCHANGED thread, sess' \in SessType,
         \A j \in Ids : /\ sess[j].opened => sess'[j].opened
                        /\ sess[j].stopped => sess'[j].stopped
                        /\ sess[j].reported => sess'[j].reported
                        /\ Event(j, "open") => Event(j, "open")'
                        /\ Event(j, "close")' => Event(j, "close"),
         closed' \in BOOLEAN, closed => closed',
         log' \in Seq([kind : {"open", "message", "close"}, id : Ids]), EventsWellFormed',
         Ids # {}
  PROVE  SessionInv'
<1>1. thread \in [Threads -> [id : Nat, todo : Todo]] /\ Stopper \in Threads
  BY Zenon DEF SessionInv, SessionTypeOK, Threads
<1>2. PICK s \in Todo, i \in Ids : thread[Stopper].todo = s /\ (s # <<>> => thread[Stopper].id = i)
  BY Zenon, <1>1 DEF SessionInv, ThreadInv
<1>3. s # <<>> => Event(i, "open") \/ closed
  BY SMTT(30), <1>1, <1>2 DEF SessionInv, ThreadInv, Event
<1>4. /\ s \in {<<"report">>, <<"unlist">>, <<"tell">>} => sess[i].stopped
      /\ s \in Leaving \cup {<<"stop">>} => sess[i].reported
      /\ s \in Leaving => ~Event(i, "close") /\ thread[Stopper].id = i
  <2>1. <<>> \notin {<<"report">>, <<"unlist">>, <<"tell">>} \cup Leaving \cup {<<"stop">>}
    BY Zenon DEF Leaving
  <2>2. s # <<>> => /\ s \in {<<"report">>, <<"unlist">>, <<"tell">>} => sess[i].stopped
                    /\ s \in Leaving \cup {<<"stop">>} => sess[i].reported
                    /\ s \in Leaving => ~Event(thread[Stopper].id, "close")
    BY Zenon, <1>1, <1>2 DEF SessionInv, ReportInv
  <2>3. s # <<>> /\ ~Event(thread[Stopper].id, "close") => ~Event(i, "close")
    BY Zenon, <1>2 DEF Event
  <2>4. s \in {<<"report">>, <<"unlist">>, <<"tell">>} \cup Leaving \cup {<<"stop">>} => s # <<>>
    BY Zenon, <2>1
  <2> QED BY Zenon, <1>2, <2>2, <2>3, <2>4
<1>5. \A j \in Ids : Stopper # Reader(j)
  BY Zenon DEF Stopper, Reader
<1>6. SessionMove(Stopper, i, s)
  BY SMTT(30), <1>1, <1>2, <1>3, <1>4, <1>5 DEF SessionMove
<1> QED BY Zenon, <1>1, <1>6, SessionKept

\* The owner of the sessions leaves the threads and the queue alone.
LEMMA FlagsRise ==
  ASSUME SessionInv, UNCHANGED <<thread, log>>, sess' \in SessType,
         \A j \in Ids : /\ sess'[j].opened = sess[j].opened
                        /\ sess[j].stopped => sess'[j].stopped
                        /\ sess'[j].reported = sess[j].reported,
         closed' \in BOOLEAN, closed => closed'
  PROVE  /\ SessionInv' /\ SessionsGo
         /\ \A j \in Ids : Ending(j)' <=> Ending(j)
         /\ \A j \in Ids : Event(j, "open")' <=> Event(j, "open")
         /\ \A j \in Ids : NoEvent(j)' <=> NoEvent(j)
         /\ \A j \in Ids : Untouched(j) /\ sess'[j].stopped = sess[j].stopped => Untouched(j)'
<1>1. \A j, k : (Event(j, k)' <=> Event(j, k)) /\ (NoEvent(j)' <=> NoEvent(j))
  BY Zenon DEF Event, NoEvent
<1>2. \A j : Ending(j)' <=> Ending(j)
  BY SMTT(30) DEF Ending
<1>3. \A j \in Ids : Untouched(j) /\ sess'[j].stopped = sess[j].stopped => Untouched(j)'
  BY Zenon, <1>1 DEF Untouched
<1>4. log' \in Seq([kind : {"open", "message", "close"}, id : Ids]) /\ EventsWellFormed'
  BY ZenonT(60) DEF SessionInv, SessionTypeOK, EventsWellFormed
<1>5. SessionInv'
  <2>1. CASE Ids # {}
    BY SMTT(30), <1>1, <1>4, <2>1, SessionsStand
  <2>2. CASE Ids = {}
    BY SMTT(30), <2>2 DEF SessionInv, SessionTypeOK, SessType, ThreadInv, ReportInv, EventsWellFormed, Event
  <2> QED BY Zenon, <2>1, <2>2
<1> QED BY Zenon, <1>1, <1>2, <1>3, <1>5 DEF SessionsGo

\* A blocking thread, or stop(), takes up send() or close() on a session.
LEMMA CallKept ==
  ASSUME SessionInv, NEW t \in Threads, \A j \in Ids : t # Reader(j), NEW i \in Ids,
         thread[t].todo = <<>>, NEW s \in {SendSteps, CloseSteps}, Run(t, i, s),
         Event(i, "open") \/ closed, UNCHANGED <<sess, log, closed>>
  PROVE  /\ SessionInv' /\ SessionsGo
         /\ \A j \in Ids \ {i} : Untouched(j) => Untouched(j)'
         /\ s = CloseSteps => Ending(i)'
         /\ \A j \in Ids : UNCHANGED accept /\ Watched(j) => Watched(j)'
<1>1. thread \in [Threads -> [id : Nat, todo : Todo]] /\ i \in Nat /\ s \in Todo
  BY Zenon, IdsAssumption DEF SessionInv, SessionTypeOK, Todo
<1>2. /\ thread' \in [Threads -> [id : Nat, todo : Todo]]
      /\ \A u \in Threads \ {t} : thread'[u] = thread[u]
      /\ thread'[t].todo = s /\ thread'[t].id = i
  BY Zenon, <1>1 DEF Run
<1>3. \A j, k : (Event(j, k)' <=> Event(j, k)) /\ (NoEvent(j)' <=> NoEvent(j))
  BY Zenon DEF Event, NoEvent
<1>4. /\ s \notin Leaving \cup {<<"stop">>} /\ s \notin {<<"report">>, <<"unlist">>, <<"tell">>}
      /\ <<>> \notin Reporting /\ <<>> \notin Unlisting /\ s # <<>>
  <2>1. {SendSteps, CloseSteps} \cap (Leaving \cup {<<"stop">>, <<"report">>, <<"unlist">>, <<"tell">>, <<>>}) = {}
    BY DEF SendSteps, CloseSteps, Leaving
  <2>2. <<>> \notin Reporting /\ <<>> \notin Unlisting
    BY Zenon DEF Reporting
  <2> QED BY Zenon, <2>1, <2>2
<1>5. SessionInv'
  <2>1. sess' \in SessType /\ closed' \in BOOLEAN /\ EventsWellFormed'
        /\ log' \in Seq([kind : {"open", "message", "close"}, id : Ids])
    BY SMTT(30) DEF SessionInv, SessionTypeOK, SessType, EventsWellFormed
  <2>2. SessionMove(t, i, s)
    BY SMTT(30), <1>2, <1>3, <1>4, <2>1 DEF SessionMove
  <2> QED BY Zenon, <1>1, <2>2, SessionKept
<1>6. \A j \in Ids : Ending(j) => Ending(j)'
  <2>1. ASSUME NEW j \in Ids, Ending(j) PROVE Ending(j)'
    <3>1. PICK u \in Threads : thread[u].id = j /\ \E n \in DOMAIN thread[u].todo :
                                 thread[u].todo[n] \in {"report", "unlist", "tell", "stop"}
      BY Zenon, <2>1 DEF Ending
    <3>2. u # t
      BY <3>1
    <3> QED BY Zenon, <1>2, <3>1, <3>2 DEF Ending
  <2> QED BY Zenon, <2>1
<1>7. \A j \in Ids \ {i} : Untouched(j) => Untouched(j)'
  BY Zenon, <1>2, <1>3 DEF Untouched
<1>8. s = CloseSteps => Ending(i)'
  <2>1. \E n \in DOMAIN CloseSteps : CloseSteps[n] \in {"report", "unlist", "tell", "stop"}
    BY SMTT(30) DEF CloseSteps
  <2> QED BY ZenonT(60), <1>2, <2>1 DEF Ending
<1>9. ASSUME NEW j \in Ids, UNCHANGED accept, Watched(j) PROVE Watched(j)'
  <2>1. Reader(j) \in Threads /\ thread'[Reader(j)] = thread[Reader(j)]
    BY Zenon, <1>2 DEF Threads
  <2>2. \A u \in Threads : thread[u].todo \in Reporting \cup Unlisting => thread'[u] = thread[u]
    BY Zenon, <1>2, <1>4
  <2> QED BY Zenon, <1>9, <2>1, <2>2 DEF Watched
<1> QED BY Zenon, <1>3, <1>5, <1>6, <1>7, <1>8, <1>9 DEF SessionsGo

-----------------------------------------------------------------------------
(* The server. *)

\* A thread at work on another session changes nothing about this one.
LEMMA WatchedApart ==
  ASSUME SessionInv, NEW t \in Threads, NEW s \in Todo, thread[t].todo # <<>>, Moved(t, s),
         NEW j \in Ids, j # thread[t].id, sess'[j] = sess[j], UNCHANGED accept, Watched(j)
  PROVE  Watched(j)'
<1>1. /\ \A u \in Threads \ {t} : thread'[u] = thread[u]
      /\ \A k \in Ids : t = Reader(k) => thread[t].id = k
  BY Zenon, MovedFacts
<1>2. Reader(j) \in Threads /\ Reader(j) # t
  BY Zenon, <1>1 DEF Threads
<1>3. \A u \in Threads : thread[u].id = j => thread'[u] = thread[u]
  BY Zenon, <1>1
<1>4. thread'[Reader(j)] = thread[Reader(j)]
  BY Zenon, <1>1, <1>2
<1> QED BY Zenon, <1>3, <1>4 DEF Watched

\* A listed session stays watched when a thread moves on.
LEMMA WatchedKept ==
  ASSUME SessionInv, NEW t \in Threads, ThreadStep(t), UNCHANGED accept,
         NEW j \in Ids, Watched(j)
  PROVE  Watched(j)'
<1>0. closed' = closed /\ thread[t].todo # <<>>
  BY SMTT(30), ThreadMoves
<1>1. PICK i \in Ids, s \in Todo :
        /\ i = thread[t].id /\ s = thread[t].todo
        /\ \/ StepQuits(t, i, s) \/ StepGoesOn(t, i, s) \/ StepReads(t, i, s)
           \/ StepDelivers(t, i, s) \/ StepStops(t, i, s) \/ StepReports(t, i, s)
           \/ StepTells(t, i, s)
  BY Zenon, ThreadMoves
<1>2. sess \in SessType /\ Reader(i) \in Threads
  BY SMTT(30) DEF SessionInv, SessionTypeOK, SessType, Threads
<1>3. \A k \in Ids \ {i} : sess'[k] = sess[k]
  BY ZenonT(60), <1>1, <1>2 DEF SessType, StepQuits, StepGoesOn, StepReads, StepDelivers, StepStops, StepReports,
                    StepTells
<1>4. PICK r \in Todo : Moved(t, r)
  BY SMTT(30), <1>1 DEF Todo, Reporting, Leaving, StepQuits, StepGoesOn, StepReads, StepDelivers, StepStops,
              StepReports, StepTells
<1>5. /\ \A u \in Threads \ {t} : thread'[u] = thread[u]
      /\ thread'[t].todo = r /\ (r # <<>> => thread'[t].id = i)
  BY Zenon, <1>0, <1>1, <1>4, MovedFacts
<1>6. ASSUME NEW q, Moved(t, q) PROVE q = r
  BY SMTT(30), <1>4, <1>6 DEF Moved, SessionInv, SessionTypeOK
<1>7. CASE i # j
  BY ZenonT(60), <1>0, <1>1, <1>3, <1>4, <1>7, WatchedApart
<1>8. CASE i = j
  <2>1. CASE \E u \in Threads : thread[u].id = i /\ thread[u].todo \in Unlisting
    <3>1. PICK u \in Threads : thread[u].id = i /\ thread[u].todo \in Unlisting
      BY Zenon, <2>1
    <3>2. s \notin Unlisting
      <4>1. s \in {<<"loop">>, <<"read">>, <<"deliver", "loop">>, <<"write">>, <<"stop">>, SendSteps,
                   CloseSteps, <<"report">>, <<"report", "stop">>, <<"tell">>, <<"tell", "stop">>}
        BY Zenon, <1>1 DEF StepQuits, StepGoesOn, StepReads, StepDelivers, StepStops, StepReports, StepTells
      <4>2. {<<"loop">>, <<"read">>, <<"deliver", "loop">>, <<"write">>, <<"stop">>, SendSteps,
             CloseSteps, <<"report">>, <<"report", "stop">>, <<"tell">>, <<"tell", "stop">>}
              \cap Unlisting = {}
        BY DEF SendSteps, CloseSteps
      <4> QED BY Zenon, <4>1, <4>2
    <3> QED BY Zenon, <1>1, <1>5, <1>8, <3>1, <3>2 DEF Watched
  <2>2. CASE /\ ~sess[i].reported
             /\ \/ \E u \in Threads : thread[u].id = i /\ thread[u].todo \in Reporting
                \/ thread[Reader(i)].todo = <<"read">>
                \/ /\ ~sess[i].stopped
                   /\ thread[Reader(i)].todo # <<>> \/
                      (accept.id = i /\ accept.at \in {"open", "start"})
    <3>1. s \notin Leaving \cup {<<"stop">>}
      BY ZenonT(60), <1>1, <2>2 DEF SessionInv, ReportInv
    <3>2. CASE r \in Reporting
      <4>1. r # <<>>
        BY SMTT(30), <3>2 DEF Reporting
      <4>2. sess'[i].reported = sess[i].reported
        <5>1. ~StepReports(t, i, s)
          BY <1>6, <2>2, <3>2 DEF StepReports, Reporting
        <5> QED BY ZenonT(60), <1>1, <1>2, <5>1 DEF SessType, StepQuits, StepGoesOn, StepReads, StepDelivers,
                                        StepStops, StepTells
      <4> QED BY Zenon, <1>5, <1>8, <2>2, <3>2, <4>1, <4>2 DEF Watched
    <3>3. CASE StepReports(t, i, s)
      <4>1. r \in Unlisting /\ r # <<>>
        BY SMTT(30), <1>6, <2>2, <3>3 DEF StepReports
      <4> QED BY Zenon, <1>5, <1>8, <4>1 DEF Watched
    <3>4. CASE r \notin Reporting /\ ~StepReports(t, i, s)
      <4>1. /\ sess'[i].reported = sess[i].reported /\ sess'[i].stopped = sess[i].stopped
            /\ s \notin Reporting
            /\ \/ r = <<>> /\ s \in {<<"loop">>, <<"write">>, SendSteps, CloseSteps}
                  /\ (sess[i].stopped \/ s = <<"write">>)
               \/ r = <<"read">> /\ s = <<"loop">>
               \/ r = <<"write">> /\ s = SendSteps
               \/ r = <<"deliver", "loop">> /\ ~sess[i].stopped
               \/ r = <<"loop">> /\ s = <<"deliver", "loop">>
        <5>1. CASE StepQuits(t, i, s)
          BY SMTT(30), <1>6, <5>1 DEF StepQuits, Reporting, SendSteps, CloseSteps
        <5>2. CASE StepGoesOn(t, i, s)
          BY SMTT(30), <1>6, <3>4, <5>2 DEF StepGoesOn, Reporting, SendSteps, CloseSteps
        <5>3. CASE StepReads(t, i, s)
          BY Zenon, <1>2, <1>6, <5>3 DEF StepReads, Reporting, SessType
        <5>4. CASE StepDelivers(t, i, s)
          BY Zenon, <1>6, <5>4 DEF StepDelivers, Reporting
        <5>5. ~StepTells(t, i, s)
          BY Zenon, <3>1 DEF StepTells, Leaving
        <5>6. ~StepStops(t, i, s)
          BY SMTT(30), <1>6, <3>1, <3>4 DEF StepStops, Reporting
        <5> QED BY ZenonT(60), <1>1, <3>4, <5>1, <5>2, <5>3, <5>4, <5>5, <5>6
      <4>2. CASE \E u \in Threads : thread[u].id = i /\ thread[u].todo \in Reporting
        <5>1. PICK u \in Threads : thread[u].id = i /\ thread[u].todo \in Reporting
          BY SMTT(30), <4>2
        <5>2. u # t
          BY ZenonT(60), <1>1, <4>1, <5>1
        <5> QED BY Zenon, <1>5, <1>8, <2>2, <4>1, <5>1, <5>2 DEF Watched
      <4>3. CASE t # Reader(i)
        <5>1. thread'[Reader(i)] = thread[Reader(i)]
          BY ZenonT(60), <1>2, <1>5, <4>3
        <5> QED BY ZenonT(60), <1>8, <2>2, <4>1, <4>2, <5>1 DEF Watched
      <4>4. CASE t = Reader(i) /\ ~\E u \in Threads : thread[u].id = i /\ thread[u].todo \in Reporting
        <5>1. s \notin {SendSteps, <<"write">>}
          BY ZenonT(60), <1>0, <1>1, <4>4 DEF SessionInv, ThreadInv
        <5>2. thread[Reader(i)].todo = s /\ thread'[Reader(i)].todo = r
          BY Zenon, <1>1, <1>5, <4>4
        <5>3. <<"read">> # <<>> /\ <<"deliver", "loop">> # <<>> /\ <<"loop">> # <<>>
          BY Zenon
        <5>4. <<"read">> \notin {<<"loop">>, <<"deliver", "loop">>, CloseSteps}
          BY Zenon DEF CloseSteps
        <5>5. r = <<"read">> \/ (~sess[i].stopped /\ r # <<>>)
          BY Zenon, <2>2, <4>1, <4>4, <5>1, <5>2, <5>3, <5>4
        <5> QED BY SMTT(30), <1>8, <2>2, <4>1, <5>2, <5>5 DEF Watched
      <4> QED BY SMTT(30), <4>2, <4>3, <4>4
    <3> QED BY SMTT(30), <3>2, <3>3, <3>4
  <2> QED BY SMTT(30), <1>8, <2>1, <2>2 DEF Watched
<1> QED BY ZenonT(60), <1>7, <1>8

\* A step that touches neither a session the accept thread is making nor the
\* ids still to be given: what it may do to the table and to stop().
ServerMove ==
  /\ SessionInv' /\ SessionsGo /\ AcceptTypeOK' /\ StopInv'
  /\ \A j \in Ids : Unlisted(j) => Untouched(j)'
  /\ \/ accept' = accept
     \/ /\ accept.at \notin {"handshake", "list", "open", "start"}
        /\ accept'.at \notin {"handshake", "list", "open", "start"}
        /\ accept'.at = "number" => nextId \in Ids
  /\ nextId' = nextId
  /\ connections' \cup stopper'.left \subseteq connections \cup stopper.left
  /\ \A j \in Ids : j \in connections \cup stopper.left =>
       j \in connections' \cup stopper'.left \/ Ending(j)'
  /\ \A j \in connections' : Watched(j)'

\* Such a step keeps the server's invariant.
LEMMA ServerKept ==
  ASSUME ServerInv, ServerMove
  PROVE  ServerInv'
<1> USE DEF ServerMove
<1>1. AcceptTypeOK /\ AcceptInv /\ OpenInv /\ ReachInv /\ connections \cup stopper.left \subseteq Ids
  BY Zenon DEF ServerInv, AcceptTypeOK
<1>2. AcceptInv'
  <2>1. \A j : Unlisted(j)' <=> Unlisted(j)
    BY Zenon DEF Unlisted
  <2>2. /\ accept'.at \in {"handshake", "list", "open", "start"} =>
             accept'.id \in Ids /\ accept'.id < nextId'
        /\ accept'.at = "number" => nextId' \in Ids
    BY SMTT(30), <1>1 DEF AcceptInv
  <2>3. accept'.at \in {"open", "start"} => ~sess'[accept'.id].opened
    BY Zenon, <1>1 DEF AcceptInv, SessionsGo
  <2>4. \A j \in Ids : Unlisted(j)' => Untouched(j)' /\ j \notin connections' \cup stopper'.left
    BY SMTT(30), <1>1, <2>1 DEF AcceptInv
  <2> QED BY Zenon, <2>2, <2>3, <2>4 DEF AcceptInv
<1>3. OpenInv'
  <2>1. PICK a : a = accept'.id
    BY Zenon
  <2>2. accept'.at \in {"open", "start"} => accept' = accept /\ accept.id = a /\ a \in Ids
    BY SMTT(30), <1>1, <2>1 DEF AcceptInv
  <2>3. accept.at = "open" => NoEvent(accept.id)
    BY SMTT(30), <1>1 DEF OpenInv
  <2>4. accept'.at = "open" => NoEvent(a)'
    <3>1. accept'.at = "open" => NoEvent(a)
      BY SMTT(30), <2>2, <2>3 DEF NoEvent
    <3> QED BY SMTT(30), <2>2, <3>1 DEF SessionsGo
  <2>5. accept'.at = "start" => Event(a, "open")' \/ closed'
    <3>1. accept'.at = "start" => Event(a, "open") \/ closed
      BY SMTT(30), <1>1, <2>2 DEF OpenInv, Event
    <3> QED BY Zenon, <2>2, <3>1 DEF SessionsGo
  <2>6. ASSUME NEW j \in connections' \cup stopper'.left
        PROVE  Event(j, "open")' \/ closed' \/ (accept'.id = j /\ accept'.at = "open")
    <3>1. j \in Ids /\ (Event(j, "open") \/ closed \/ (accept.id = j /\ accept.at = "open"))
      BY SMTT(30), <1>1, <2>6 DEF OpenInv
    <3> QED BY Zenon, <3>1 DEF SessionsGo
  <2>7. accept'.at = "open" => NoEvent(accept.id)'
    BY Zenon, <2>1, <2>4 DEF NoEvent
  <2>8. accept'.at = "start" => Event(accept.id, "open")' \/ closed'
    BY SMTT(30), <2>1, <2>5 DEF Event
  <2> QED BY Zenon, <2>6, <2>7, <2>8 DEF OpenInv
<1>4. ReachInv'
  <2>1. ASSUME NEW j \in Ids, ~sess'[j].stopped,
               sess'[j].opened \/ (accept'.id = j /\ accept'.at \in {"open", "start"})
        PROVE  Ending(j)' \/ j \in connections' \cup stopper'.left
    <3>1. ~sess[j].stopped /\ (sess[j].opened \/ (accept.id = j /\ accept.at \in {"open", "start"}))
      BY SMTT(30), <2>1 DEF SessionsGo
    <3>2. Ending(j) \/ j \in connections \cup stopper.left
      BY SMTT(30), <1>1, <3>1 DEF ReachInv
    <3>3. Ending(j) => Ending(j)'
      BY Zenon, <2>1 DEF SessionsGo
    <3> QED BY ZenonT(60), <3>2, <3>3
  <2> QED BY SMTT(30), <2>1 DEF ReachInv
<1>5. ListInv'
  BY Zenon DEF ListInv
<1> QED BY Zenon, <1>2, <1>3, <1>4, <1>5 DEF ServerInv

\* Nothing changes about the sessions.
LEMMA Still ==
  ASSUME SessionInv, UNCHANGED sessVars
  PROVE  /\ SessionInv' /\ SessionsGo
         /\ \A j \in Ids : Ending(j)' <=> Ending(j)
         /\ \A j \in Ids : Event(j, "open")' <=> Event(j, "open")
         /\ \A j \in Ids : NoEvent(j)' <=> NoEvent(j)
         /\ \A j \in Ids : Untouched(j) => Untouched(j)'
         /\ \A j \in Ids : /\ Watched(j)
                           /\ accept.at \in {"open", "start"} => accept' = accept
                           => Watched(j)'
<1>1. /\ sess' \in SessType /\ closed' \in BOOLEAN /\ UNCHANGED <<thread, log, sess, closed>>
  BY Zenon DEF SessionInv, SessionTypeOK, SessType
<1>2. \A j \in Ids : /\ Watched(j)
                     /\ accept.at \in {"open", "start"} => accept' = accept
                     => Watched(j)'
  BY Zenon DEF Watched
<1> QED BY <1>1, <1>2, FlagsRise

\* start(), stop() as it begins and as it joins the accept thread, and the
\* accept thread while it has no connection in its hands.
LEMMA TableKept ==
  ASSUME ServerInv, UNCHANGED sessVars,
         \/ \E f \in BOOLEAN : Start(f)
         \/ AcceptCheck \/ AcceptSocket \/ StopBegin \/ StopJoin
         \/ AcceptNumber /\ ~Running
  PROVE  ServerInv'
<1>1. SessionInv /\ AcceptTypeOK /\ AcceptInv /\ StopInv /\ ListInv
  BY SMTT(30) DEF ServerInv
<1>2. \A j \in Ids : Unlisted(j) => Untouched(j)'
  BY Zenon, <1>1, Still DEF AcceptInv
<1>3. /\ accept.at \notin {"handshake", "list", "open", "start"} \/ accept' = accept
      /\ accept'.at \notin {"handshake", "list", "open", "start"} \/ accept' = accept
      /\ accept'.at = "number" => nextId \in Ids
      /\ nextId' = nextId
  BY <1>1 DEF Start, AcceptCheck, AcceptSocket, StopBegin, StopJoin, AcceptNumber, AcceptAt,
              AcceptGoes, AcceptTypeOK, AcceptInv, StopInv
<1>4. AcceptTypeOK'
  <2>1. CASE \E f \in BOOLEAN : Start(f)
    <3>1. PICK f \in BOOLEAN : Start(f)
      BY Zenon, <2>1
    <3>2. /\ started' = TRUE /\ stopping' = FALSE /\ UNCHANGED <<connections, nextId, stopper>>
          /\ accept' = accept \/ accept' = [at |-> "loop", id |-> 0]
      BY Zenon, <3>1 DEF Start
    <3>3. accept' \in [at : {"none", "loop", "socket", "number", "handshake", "list", "open",
                             "start", "ended"}, id : Nat]
      BY <1>1, <3>2 DEF AcceptTypeOK
    <3> QED BY Zenon, <1>1, <3>2, <3>3 DEF AcceptTypeOK
  <2>2. CASE AcceptCheck \/ AcceptSocket \/ (AcceptNumber /\ ~Running)
    BY Zenon, <1>1, <2>2 DEF AcceptCheck, AcceptSocket, AcceptNumber, AcceptGoes, AcceptTypeOK
  <2>3. CASE StopBegin
    BY ZenonT(60), <1>1, <2>3 DEF StopBegin, AcceptTypeOK
  <2>4. CASE StopJoin
    BY Zenon, <1>1, <2>4 DEF StopJoin, AcceptTypeOK
  <2> QED BY Zenon, <2>1, <2>2, <2>3, <2>4
<1>5. StopInv'
  BY <1>1 DEF Start, AcceptCheck, AcceptSocket, StopBegin, StopJoin, AcceptNumber, AcceptAt,
              AcceptGoes, AcceptTypeOK, StopInv, Running
<1>6. connections' \cup stopper'.left = connections \cup stopper.left
      /\ connections' \subseteq connections
  BY <1>1 DEF Start, AcceptCheck, AcceptSocket, StopBegin, StopJoin, AcceptNumber, AcceptAt,
              AcceptGoes, AcceptTypeOK, StopInv
<1>7. \A j \in connections' : Watched(j)'
  BY Zenon, <1>1, <1>3, <1>6, Still DEF ListInv, AcceptTypeOK
<1>8. ServerMove
  BY Zenon, <1>1, <1>2, <1>3, <1>4, <1>5, <1>6, <1>7, Still DEF ServerMove
<1> QED BY Zenon, <1>8, ServerKept

\* The accept thread numbers a connection.
LEMMA NumberKept ==
  ASSUME ServerInv, AcceptNumber, Running
  PROVE  ServerInv'
<1>1. SessionInv /\ AcceptTypeOK /\ AcceptInv /\ OpenInv /\ StopInv /\ ReachInv /\ ListInv
  BY Zenon DEF ServerInv
<1>2. /\ accept.at = "number" /\ nextId \in Ids /\ nextId \in Nat /\ nextId' = nextId + 1
      /\ accept' = [at |-> "handshake", id |-> nextId]
      /\ UNCHANGED <<started, stopping, connections, stopper>> /\ UNCHANGED sessVars
  BY Zenon, <1>1 DEF AcceptNumber, AcceptAt, AcceptInv, AcceptTypeOK
<1>3. AcceptTypeOK'
  BY <1>1, <1>2 DEF AcceptTypeOK
<1>4. AcceptInv'
  <2>1. ASSUME NEW j \in Ids, Unlisted(j)' PROVE Untouched(j)' /\ j \notin connections' \cup stopper'.left
    <3>1. Unlisted(j)
      BY <1>2, <2>1, IdsAssumption DEF Unlisted
    <3> QED BY Zenon, <1>1, <1>2, <3>1, Still DEF AcceptInv
  <2>2. accept'.at = "handshake" /\ accept'.id = nextId /\ nextId < nextId'
    BY <1>2
  <2> QED BY Zenon, <1>2, <2>1, <2>2 DEF AcceptInv
<1>5. OpenInv'
  BY SMTT(30), <1>1, <1>2, Still DEF OpenInv, AcceptTypeOK
<1>6. StopInv'
  BY Zenon, <1>1, <1>2 DEF StopInv, Running
<1>7. ReachInv'
  BY Zenon, <1>1, <1>2, Still DEF ReachInv
<1>8. ListInv'
  BY Zenon, <1>1, <1>2, Still DEF ListInv, AcceptTypeOK
<1> QED BY Zenon, <1>1, <1>2, <1>3, <1>4, <1>5, <1>6, <1>7, <1>8, Still DEF ServerInv

\* The handshake succeeds or fails.
LEMMA HandshakeKept ==
  ASSUME ServerInv, AcceptHandshake
  PROVE  ServerInv'
<1>1. /\ SessionInv /\ AcceptTypeOK /\ AcceptInv /\ OpenInv /\ StopInv /\ ReachInv /\ ListInv
      /\ sess \in SessType /\ closed \in BOOLEAN
  BY Zenon DEF ServerInv, SessionInv, SessionTypeOK, SessType
<1>2. /\ accept.at = "handshake" /\ accept.id \in Ids /\ accept'.id = accept.id
      /\ accept'.at \in {"list", "loop"} /\ accept.id < nextId
      /\ UNCHANGED <<started, stopping, connections, nextId, stopper, thread, log, closed>>
      /\ accept' \in [at : {"none", "loop", "socket", "number", "handshake", "list", "open", "start",
                            "ended"}, id : Nat]
  BY Zenon, <1>1 DEF AcceptHandshake, AcceptAt, AcceptGoes, AcceptInv, AcceptTypeOK
<1>3. /\ sess' \in SessType
      /\ \A j \in Ids : /\ sess'[j].opened = sess[j].opened
                        /\ sess'[j].stopped = sess[j].stopped
                        /\ sess'[j].reported = sess[j].reported
  <2>1. PICK i \in Ids : i = accept.id
    BY Zenon, <1>2
  <2>2. CASE sess' = [sess EXCEPT ![i].made = TRUE]
    BY ZenonT(60), <1>1, <2>2 DEF SessType
  <2>3. CASE sess' = sess
    BY Zenon, <1>1, <2>3
  <2> QED BY Zenon, <2>1, <2>2, <2>3 DEF AcceptHandshake
<1>4. /\ SessionInv'
      /\ \A j \in Ids : Ending(j)' <=> Ending(j)
      /\ \A j \in Ids : Event(j, "open")' <=> Event(j, "open")
      /\ \A j \in Ids : Untouched(j) => Untouched(j)'
  BY Zenon, <1>1, <1>2, <1>3, FlagsRise
<1>5. AcceptTypeOK' /\ StopInv'
  BY Zenon, <1>1, <1>2 DEF AcceptTypeOK, StopInv
<1>6. AcceptInv'
  <2>1. \A j \in Ids : Unlisted(j)' => Unlisted(j)
    BY Zenon, <1>2 DEF Unlisted
  <2> QED BY Zenon, <1>1, <1>2, <1>4, <2>1 DEF AcceptInv
<1>7. OpenInv'
  BY SMTT(30), <1>1, <1>2, <1>4 DEF OpenInv, AcceptTypeOK
<1>8. ReachInv'
  BY SMTT(30), <1>1, <1>2, <1>3, <1>4 DEF ReachInv
<1>9. ListInv'
  BY Zenon, <1>1, <1>2, <1>3 DEF ListInv, Watched, AcceptTypeOK
<1> QED BY Zenon, <1>4, <1>5, <1>6, <1>7, <1>8, <1>9 DEF ServerInv

\* The session is listed, or dropped because stop() came first.
LEMMA ListKept ==
  ASSUME ServerInv, AcceptList
  PROVE  ServerInv'
<1>1. /\ SessionInv /\ AcceptTypeOK /\ AcceptInv /\ OpenInv /\ StopInv /\ ReachInv /\ ListInv
      /\ sess \in SessType /\ closed \in BOOLEAN
  BY DEF ServerInv, SessionInv, SessionTypeOK, SessType
<1>2. PICK i \in Ids : i = accept.id
  BY Zenon, <1>1 DEF AcceptList, AcceptAt, AcceptInv
<1>3. /\ accept.at = "list" /\ i < nextId /\ i \in Nat /\ nextId \in Nat /\ accept'.id = i
      /\ UNCHANGED <<started, stopping, nextId, stopper, thread, log, closed>>
  BY Zenon, <1>1, <1>2, IdsAssumption DEF AcceptList, AcceptAt, AcceptGoes, AcceptInv, AcceptTypeOK
<1>4. Untouched(i) /\ i \notin connections \cup stopper.left
  BY Zenon, <1>1, <1>2, <1>3 DEF AcceptInv, Unlisted
<1>5. /\ accept'.at \in {"open", "ended"}
      /\ accept' \in [at : {"none", "loop", "socket", "number", "handshake", "list", "open", "start",
                            "ended"}, id : Nat]
      /\ sess' \in SessType
      /\ \A j \in Ids : /\ sess'[j].opened = sess[j].opened
                        /\ sess[j].stopped => sess'[j].stopped
                        /\ j # i => sess'[j].stopped = sess[j].stopped
                        /\ sess'[j].reported = sess[j].reported
  <2>1. /\ accept'.at \in {"open", "ended"}
        /\ accept' \in [at : {"none", "loop", "socket", "number", "handshake", "list", "open", "start",
                              "ended"}, id : Nat]
    BY Zenon, <1>1, <1>2, <1>3 DEF AcceptList, AcceptGoes, AcceptTypeOK
  <2>2. CASE sess' = [sess EXCEPT ![i].stopped = TRUE]
    BY ZenonT(60), <1>1, <2>1, <2>2 DEF SessType
  <2>3. CASE sess' = sess
    BY Zenon, <1>1, <2>1, <2>3
  <2> QED BY Zenon, <1>2, <2>2, <2>3 DEF AcceptList
<1>6. /\ SessionInv'
      /\ \A j \in Ids : Ending(j)' <=> Ending(j)
      /\ \A j \in Ids : Event(j, "open")' <=> Event(j, "open")
      /\ \A j \in Ids : NoEvent(j)' <=> NoEvent(j)
      /\ \A j \in Ids \ {i} : Untouched(j) => Untouched(j)'
  BY Zenon, <1>1, <1>3, <1>5, FlagsRise
<1>7. \A j \in Ids : Unlisted(j)' => Unlisted(j) /\ j # i
  BY <1>2, <1>3, <1>5 DEF Unlisted
<1>8. CASE Running
  <2>1. /\ connections' = connections \cup {i} /\ accept'.at = "open" /\ sess' = sess /\ started
    BY Zenon, <1>1, <1>2, <1>3, <1>8 DEF AcceptList, AcceptGoes, AcceptTypeOK, Running
  <2>2. AcceptTypeOK' /\ StopInv'
    BY Zenon, <1>1, <1>3, <1>5, <2>1 DEF AcceptTypeOK, StopInv
  <2>3. AcceptInv'
    <3>1. ~sess[i].opened
      BY Zenon, <1>4 DEF Untouched
    <3>2. \A j \in Ids : Unlisted(j)' => Untouched(j)' /\ j \notin connections' \cup stopper'.left
      BY Zenon, <1>1, <1>3, <1>6, <1>7, <2>1 DEF AcceptInv
    <3> QED BY Zenon, <1>3, <2>1, <3>1, <3>2 DEF AcceptInv
  <2>4. OpenInv'
    <3>1. NoEvent(accept.id)'
      <4>1. NoEvent(i)'
        BY Zenon, <1>4, <1>6 DEF Untouched
      <4> QED BY SMTT(30), <1>3, <4>1 DEF NoEvent
    <3>2. \A j \in connections \cup stopper.left : Event(j, "open")' \/ closed'
      BY SMTT(30), <1>1, <1>3, <1>6 DEF OpenInv, AcceptTypeOK
    <3> QED BY Zenon, <1>3, <2>1, <3>1, <3>2 DEF OpenInv
  <2>5. ReachInv'
    BY Zenon, <1>1, <1>2, <1>3, <1>6, <2>1 DEF ReachInv
  <2>6. ListInv'
    <3>1. ASSUME NEW j \in connections PROVE Watched(j)'
      <4>1. Watched(j) /\ accept.at \notin {"open", "start"}
        BY Zenon, <1>1, <1>3, <3>1 DEF ListInv
      <4> QED BY Zenon, <1>3, <2>1, <4>1 DEF Watched
    <3>2. Watched(i)'
      BY Zenon, <1>3, <1>4, <2>1 DEF Watched, Untouched
    <3> QED BY SMTT(30), <2>1, <3>1, <3>2 DEF ListInv
  <2> QED BY Zenon, <1>6, <2>2, <2>3, <2>4, <2>5, <2>6 DEF ServerInv
<1>9. CASE ~Running
  <2>1. /\ connections' = connections /\ accept'.at = "ended" /\ sess'[i].stopped
    BY SMTT(30), <1>1, <1>2, <1>3, <1>9 DEF AcceptList, AcceptGoes, AcceptTypeOK, SessType
  <2>2. AcceptTypeOK' /\ StopInv'
    BY SMTT(30), <1>1, <1>3, <1>5, <2>1 DEF AcceptTypeOK, StopInv
  <2>3. AcceptInv'
    BY Zenon, <1>1, <1>3, <1>6, <1>7, <2>1 DEF AcceptInv
  <2>4. OpenInv'
    BY Zenon, <1>1, <1>3, <1>6, <2>1 DEF OpenInv, AcceptTypeOK
  <2>5. ReachInv'
    BY Zenon, <1>1, <1>2, <1>3, <1>5, <1>6, <2>1 DEF ReachInv
  <2>6. ListInv'
    <3>1. ASSUME NEW j \in connections PROVE Watched(j)'
      <4>1. j \in Ids /\ j # i /\ Watched(j) /\ sess'[j].stopped = sess[j].stopped
            /\ sess'[j].reported = sess[j].reported
        BY Zenon, <1>1, <1>4, <1>5, <3>1 DEF ListInv, AcceptTypeOK
      <4> QED BY Zenon, <1>2, <1>3, <4>1 DEF Watched
    <3> QED BY SMTT(30), <2>1, <3>1 DEF ListInv
  <2> QED BY SMTT(30), <1>6, <2>2, <2>3, <2>4, <2>5, <2>6 DEF ServerInv
<1> QED BY Zenon, <1>8, <1>9

\* The open event of the new session is pushed.
LEMMA OpenKept ==
  ASSUME ServerInv, AcceptOpen
  PROVE  ServerInv'
<1>1. /\ SessionInv /\ AcceptTypeOK /\ AcceptInv /\ OpenInv /\ StopInv /\ ReachInv /\ ListInv
      /\ sess \in SessType /\ closed \in BOOLEAN
  BY DEF ServerInv, SessionInv, SessionTypeOK, SessType
<1>2. PICK i \in Ids : i = accept.id
  BY Zenon, <1>1 DEF AcceptOpen, AcceptAt, AcceptInv
<1>3. /\ accept.at = "open" /\ i < nextId /\ i \in Nat /\ nextId \in Nat
      /\ accept'.at = "start" /\ accept'.id = i
      /\ accept' \in [at : {"none", "loop", "socket", "number", "handshake", "list", "open", "start",
                            "ended"}, id : Nat]
      /\ UNCHANGED <<started, stopping, connections, nextId, stopper, sess, thread, closed>>
  BY SMTT(30), <1>1, <1>2, IdsAssumption DEF AcceptOpen, AcceptAt, AcceptGoes, AcceptInv, AcceptTypeOK
<1>4. NoEvent(i) /\ ~Event(i, "open")
  BY SMTT(30), <1>1, <1>2, <1>3 DEF OpenInv, NoEvent, Event
<1>5. /\ log' \in Seq([kind : {"open", "message", "close"}, id : Ids])
      /\ EventsWellFormed'
      /\ \A j \in Ids : \A q \in {"open", "close"} :
           Event(j, q)' <=> Event(j, q) \/ (~closed /\ j = i /\ q = "open")
      /\ \A j \in Ids : NoEvent(j) /\ (closed \/ j # i) => NoEvent(j)'
  <2>1. Pushed([kind |-> "open", id |-> i])
    BY Zenon, <1>2 DEF AcceptOpen, Push, Pushed
  <2> QED BY Zenon, <1>1, <1>4, <2>1, PushKept
<1>6. SessionInv'
  BY Zenon, <1>1, <1>3, <1>5, SessionsStand
<1>7. AcceptTypeOK' /\ StopInv'
  BY SMTT(30), <1>1, <1>3 DEF AcceptTypeOK, StopInv
<1>8. AcceptInv'
  <2>1. ASSUME NEW j \in Ids, Unlisted(j)' PROVE Untouched(j)' /\ j \notin connections' \cup stopper'.left
    <3>1. Unlisted(j) /\ j # i
      BY <1>2, <1>3, <2>1 DEF Unlisted
    <3>2. Untouched(j) /\ j \notin connections' \cup stopper'.left
      BY Zenon, <1>1, <1>3, <3>1 DEF AcceptInv
    <3> QED BY Zenon, <1>3, <1>5, <3>1, <3>2 DEF Untouched
  <2> QED BY Zenon, <1>1, <1>2, <1>3, <2>1 DEF AcceptInv
<1>9. OpenInv'
  <2>1. Event(i, "open")' \/ closed'
    BY Zenon, <1>1, <1>3, <1>5
  <2>2. Event(accept.id, "open")' \/ closed'
    BY Zenon, <1>3, <2>1 DEF Event
  <2>3. ASSUME NEW j \in connections \cup stopper.left PROVE Event(j, "open")' \/ closed'
    <3>1. j \in Ids /\ (Event(j, "open") \/ closed \/ j = i)
      BY SMTT(30), <1>1, <1>2, <2>3 DEF OpenInv, AcceptTypeOK
    <3> QED BY Zenon, <1>3, <1>5, <2>1, <3>1
  <2> QED BY Zenon, <1>3, <2>2, <2>3 DEF OpenInv
<1>10. ReachInv'
  BY SMTT(30), <1>1, <1>2, <1>3 DEF ReachInv, Ending
<1>11. ListInv'
  BY Zenon, <1>1, <1>2, <1>3 DEF ListInv, Watched
<1> QED BY SMTT(30), <1>6, <1>7, <1>8, <1>9, <1>10, <1>11 DEF ServerInv

\* A reader starts on a session nobody has started: what changes.
LEMMA ReaderStarts ==
  ASSUME SessionInv, NEW i \in Ids, ~sess[i].opened, StartReader(i), UNCHANGED closed,
         sess' = [sess EXCEPT ![i].opened = TRUE],
         Event(i, "open")' \/ closed,
         log' \in Seq([kind : {"open", "message", "close"}, id : Ids]), EventsWellFormed',
         \A j \in Ids : /\ Event(j, "open") => Event(j, "open")'
                        /\ Event(j, "close")' => Event(j, "close")
  PROVE  /\ SessionInv'
         /\ thread[Reader(i)].todo = <<>> /\ thread'[Reader(i)].todo = <<"loop">>
         /\ \A u \in Threads \ {Reader(i)} : thread'[u] = thread[u]
         /\ \A j \in Ids \ {i} : sess'[j] = sess[j]
         /\ sess'[i].opened /\ sess'[i].stopped = sess[i].stopped
         /\ sess'[i].reported = sess[i].reported
         /\ \A j \in Ids : Ending(j) => Ending(j)'
         /\ \A j \in Ids \ {i} : Untouched(j) /\ NoEvent(j)' => Untouched(j)'
<1>1. /\ thread \in [Threads -> [id : Nat, todo : Todo]] /\ sess \in SessType /\ closed \in BOOLEAN
      /\ i \in Nat /\ <<"loop">> \in Todo /\ Reader(i) \in Threads
  BY Zenon, IdsAssumption DEF SessionInv, SessionTypeOK, SessType, Todo, Threads
<1>2. thread[Reader(i)].todo = <<>>
  BY Zenon DEF SessionInv, ThreadInv
<1>3. /\ thread' \in [Threads -> [id : Nat, todo : Todo]]
      /\ \A u \in Threads \ {Reader(i)} : thread'[u] = thread[u]
      /\ thread'[Reader(i)].todo = <<"loop">> /\ thread'[Reader(i)].id = i
  BY Zenon, <1>1 DEF StartReader, Run
<1>4. /\ sess' \in SessType /\ sess'[i].opened /\ sess'[i].stopped = sess[i].stopped
      /\ sess'[i].reported = sess[i].reported /\ \A j \in Ids \ {i} : sess'[j] = sess[j]
  BY ZenonT(60), <1>1 DEF SessType
<1>5. /\ <<"loop">> \notin Leaving \cup {<<"stop">>} /\ <<"loop">> \notin {<<"report">>, <<"unlist">>, <<"tell">>}
      /\ <<"loop">> \notin {SendSteps, <<"write">>}
  BY Zenon DEF Leaving, SendSteps
<1>6. \A j \in Ids : Reader(i) = Reader(j) => i = j
  BY Zenon DEF Reader
<1>7. SessionInv'
  <2>1. SessionMove(Reader(i), i, <<"loop">>)
    BY Zenon, <1>1, <1>3, <1>4, <1>5, <1>6 DEF SessionMove
  <2> QED BY Zenon, <1>1, <2>1, SessionKept
<1>8. ASSUME NEW j \in Ids, Ending(j) PROVE Ending(j)'
  <2>1. PICK u \in Threads : thread[u].id = j /\ \E n \in DOMAIN thread[u].todo :
                               thread[u].todo[n] \in {"report", "unlist", "tell", "stop"}
    BY Zenon, <1>8 DEF Ending
  <2>2. u # Reader(i)
    BY <1>2, <2>1
  <2> QED BY Zenon, <1>3, <2>1, <2>2 DEF Ending
<1>9. \A j \in Ids \ {i} : Untouched(j) /\ NoEvent(j)' => Untouched(j)'
  BY ZenonT(60), <1>3, <1>4 DEF Untouched
<1> QED BY Zenon, <1>2, <1>3, <1>4, <1>7, <1>8, <1>9

\* The reader of the new session starts.
LEMMA StartKept ==
  ASSUME ServerInv, AcceptStart
  PROVE  ServerInv'
<1>1. /\ SessionInv /\ AcceptTypeOK /\ AcceptInv /\ OpenInv /\ StopInv /\ ReachInv /\ ListInv
  BY Zenon DEF ServerInv
<1>2. PICK i \in Ids : i = accept.id
  BY Zenon, <1>1 DEF AcceptStart, AcceptAt, AcceptInv
<1>3. /\ accept.at = "start" /\ i < nextId /\ i \in Nat /\ nextId \in Nat
      /\ accept'.at = "loop" /\ accept'.id = i /\ ~sess[i].opened
      /\ accept' \in [at : {"none", "loop", "socket", "number", "handshake", "list", "open", "start",
                            "ended"}, id : Nat]
      /\ UNCHANGED <<started, stopping, connections, nextId, stopper, log, closed>>
  BY SMTT(30), <1>1, <1>2, IdsAssumption DEF AcceptStart, AcceptAt, AcceptGoes, AcceptInv, AcceptTypeOK
<1>4. \A j, k : (Event(j, k)' <=> Event(j, k)) /\ (NoEvent(j)' <=> NoEvent(j))
  BY Zenon, <1>3 DEF Event, NoEvent
<1>5. Event(i, "open") \/ closed
  BY Zenon, <1>1, <1>2, <1>3 DEF OpenInv, Event
<1>6. /\ SessionInv'
      /\ thread[Reader(i)].todo = <<>> /\ thread'[Reader(i)].todo = <<"loop">>
      /\ \A u \in Threads \ {Reader(i)} : thread'[u] = thread[u]
      /\ \A j \in Ids \ {i} : sess'[j] = sess[j]
      /\ sess'[i].opened /\ sess'[i].stopped = sess[i].stopped
      /\ sess'[i].reported = sess[i].reported
      /\ \A j \in Ids : Ending(j) => Ending(j)'
      /\ \A j \in Ids \ {i} : Untouched(j) /\ NoEvent(j)' => Untouched(j)'
  <2>1. StartReader(i) /\ sess' = [sess EXCEPT ![i].opened = TRUE]
    BY Zenon, <1>2 DEF AcceptStart
  <2>2. log' \in Seq([kind : {"open", "message", "close"}, id : Ids]) /\ EventsWellFormed'
    BY ZenonT(60), <1>1, <1>3 DEF SessionInv, SessionTypeOK, EventsWellFormed
  <2> QED BY Zenon, <1>1, <1>3, <1>4, <1>5, <2>1, <2>2, ReaderStarts
<1>7. AcceptTypeOK' /\ StopInv'
  BY Zenon, <1>1, <1>3 DEF AcceptTypeOK, StopInv
<1>8. AcceptInv'
  <2>1. ASSUME NEW j \in Ids, Unlisted(j)' PROVE Untouched(j)' /\ j \notin connections' \cup stopper'.left
    <3>1. Unlisted(j) /\ j # i
      BY SMTT(30), <1>2, <1>3, <2>1 DEF Unlisted
    <3>2. Untouched(j) /\ j \notin connections' \cup stopper'.left
      BY ZenonT(60), <1>1, <1>3, <3>1 DEF AcceptInv
    <3>3. NoEvent(j)'
      BY SMTT(30), <1>4, <3>2 DEF Untouched
    <3> QED BY Zenon, <1>6, <3>1, <3>2, <3>3
  <2> QED BY SMTT(30), <1>3, <2>1 DEF AcceptInv
<1>9. OpenInv'
  BY SMTT(30), <1>1, <1>3, <1>4 DEF OpenInv
<1>10. ReachInv'
  BY Zenon, <1>1, <1>2, <1>3, <1>6 DEF ReachInv
<1>11. ListInv'
  <2>1. ASSUME NEW j \in connections PROVE Watched(j)'
    <3>1. j \in Ids /\ Watched(j)
      BY SMTT(30), <1>1, <2>1 DEF ListInv, AcceptTypeOK
    <3>2. \A u \in Threads : thread[u].todo \in Reporting \cup Unlisting => thread'[u] = thread[u]
      <4>1. <<>> \notin Reporting \cup Unlisting
        BY SMTT(30) DEF Reporting
      <4> QED BY Zenon, <1>6, <4>1
    <3>3. CASE j = i
      <4>1. <<"loop">> # <<>> /\ <<"read">> # <<>>
        BY SMTT(30)
      <4> QED BY Zenon, <1>6, <3>1, <3>2, <3>3, <4>1 DEF Watched
    <3>4. CASE j # i
      <4>1. Reader(j) \in Threads \ {Reader(i)}
        BY Zenon, <3>1, <3>4 DEF Threads, Reader
      <4> QED BY ZenonT(60), <1>2, <1>6, <3>1, <3>2, <3>4, <4>1 DEF Watched
    <3> QED BY Zenon, <3>3, <3>4
  <2> QED BY Zenon, <1>3, <2>1 DEF ListInv
<1> QED BY Zenon, <1>6, <1>7, <1>8, <1>9, <1>10, <1>11 DEF ServerInv

\* A thread takes its session out of the table.
LEMMA UnlistMoves ==
  ASSUME SessionInv, NEW t \in Threads, At(t, "unlist"), NEW k, k = thread[t].id,
         NEW s \in {<<>>, <<"tell">>}, Then(t, s), UNCHANGED <<sess, log, closed>>
  PROVE  /\ SessionInv' /\ Kept
         /\ k \in Ids /\ thread[t].todo # <<>>
         /\ s = <<"tell">> => Ending(k)'
         /\ \A j \in Ids : j # k /\ UNCHANGED accept /\ Watched(j) => Watched(j)'
<1>1. thread \in [Threads -> [id : Nat, todo : Todo]] /\ sess \in SessType
  BY Zenon DEF SessionInv, SessionTypeOK, SessType
<1>2. thread[t].todo \in Unlisting /\ thread[t].todo # <<>>
  BY SMTT(30), <1>1, TodoShape DEF At
<1>3. PICK i \in Ids, r \in Todo : i = thread[t].id /\ r = s \o Tail(thread[t].todo)
                                   /\ r \in {<<>>, <<"tell">>, <<"stop">>, <<"tell", "stop">>}
                                   /\ (r = <<>> => thread[t].todo = <<"unlist">>)
                                   /\ (r = <<"tell">> => thread[t].todo = <<"unlist">>)
                                   /\ (s = <<"tell">> => r \in {<<"tell">>, <<"tell", "stop">>})
  <2>1. thread[t].id \in Ids
    BY Zenon, <1>2 DEF SessionInv, ThreadInv
  <2>2. {<<>>, <<"tell">>, <<"stop">>, <<"tell", "stop">>} \subseteq Todo
    BY Zenon DEF Todo, Leaving
  <2>3. CASE thread[t].todo = <<"unlist">>
    BY Zenon, <2>1, <2>2, <2>3, ThenShape
  <2>4. CASE thread[t].todo = <<"unlist", "stop">>
    BY ZenonT(60), <2>1, <2>2, <2>4, ThenShape
  <2> QED BY SMTT(30), <1>2, <2>3, <2>4
<1>4. Moved(t, r)
  BY Zenon, <1>1, <1>3 DEF Then, Run, Moved
<1>5. /\ sess[i].reported /\ (thread[t].todo = <<"unlist">> => sess[i].stopped)
      /\ thread[t].todo \in Leaving
  BY Zenon, <1>2, <1>3 DEF SessionInv, ReportInv, Leaving
<1>6. /\ {<<"tell">>, <<"stop">>, <<"tell", "stop">>} \subseteq EndTodo
      /\ {<<>>, <<"tell">>, <<"stop">>, <<"tell", "stop">>} \cap {<<"write">>, <<"report">>, <<"unlist">>, SendSteps} = {}
  BY SMTT(30) DEF EndTodo, Todo, Leaving, SendSteps, CloseSteps
<1>7. SessionInv' /\ Kept
  BY ZenonT(60), <1>1, <1>2, <1>3, <1>4, <1>5, <1>6, QuietMove
<1>8. s = <<"tell">> => Ending(k)'
  <2>1. ASSUME s = <<"tell">> PROVE Ending(i)'
    <3>1. thread'[t].todo = r /\ thread'[t].id = i
      <4>1. r # <<>>
        BY SMTT(30), <1>3, <2>1
      <4> QED BY ZenonT(60), <1>2, <1>3, <1>4, <4>1, MovedFacts
    <3>2. \E n \in DOMAIN r : r[n] \in {"report", "unlist", "tell", "stop"}
      BY SMTT(30), <1>3, <1>6, <2>1, TodoShape
    <3> QED BY SMTT(30), <3>1, <3>2 DEF Ending
  <2> QED BY Zenon, <1>3, <2>1
<1>9. ASSUME NEW j \in Ids, j # k, UNCHANGED accept, Watched(j) PROVE Watched(j)'
  BY Zenon, <1>2, <1>4, <1>9, WatchedApart
<1> QED BY Zenon, <1>2, <1>3, <1>7, <1>8, <1>9

\* remove_server_connection keeps the server's invariant.
LEMMA UnlistKept ==
  ASSUME ServerInv, NEW t \in Threads, Unlist(t)
  PROVE  ServerInv'
<1>1. SessionInv /\ AcceptTypeOK /\ AcceptInv /\ StopInv /\ ListInv
  BY Zenon DEF ServerInv
<1>2. PICK i : i = thread[t].id
  BY Zenon
<1>3. PICK s \in {<<>>, <<"tell">>} : Then(t, s) /\ (i \in connections => s = <<"tell">>)
  BY Zenon, <1>2 DEF Unlist
<1>4. /\ At(t, "unlist") /\ connections' = connections \ {i}
      /\ UNCHANGED <<started, stopping, nextId, accept, stopper>> /\ UNCHANGED <<sess, log, closed>>
  BY SMTT(30), <1>2 DEF Unlist
<1>5. /\ SessionInv' /\ Kept /\ i \in Ids
      /\ s = <<"tell">> => Ending(i)'
      /\ \A j \in Ids : j # i /\ UNCHANGED accept /\ Watched(j) => Watched(j)'
  BY ZenonT(60), <1>1, <1>2, <1>3, <1>4, UnlistMoves
<1>6. SessionsGo /\ \A j \in Ids : Unlisted(j) => Untouched(j)'
  BY Zenon, <1>1, <1>5 DEF Kept, SessionsGo, AcceptInv
<1>7. AcceptTypeOK' /\ StopInv'
  BY Zenon, <1>1, <1>4 DEF AcceptTypeOK, StopInv
<1>8. \A j \in connections' : Watched(j)'
  BY Zenon, <1>1, <1>4, <1>5 DEF ListInv, AcceptTypeOK
<1>9. i \in connections => Ending(i)'
  BY SMTT(30), <1>3, <1>5
<1>10. ServerMove
  BY Zenon, <1>4, <1>5, <1>6, <1>7, <1>8, <1>9 DEF ServerMove
<1> QED BY Zenon, <1>10, ServerKept

\* A step of a session's thread.
LEMMA ServerStepKept ==
  ASSUME ServerInv, NEW t \in Threads, ThreadStep(t), UNCHANGED serverVars
  PROVE  ServerInv'
<1>1. SessionInv /\ AcceptTypeOK /\ AcceptInv /\ StopInv /\ ListInv
  BY SMTT(30) DEF ServerInv
<1>2. SessionInv' /\ SessionsGo /\ \A j \in Ids : Unlisted(j) => Untouched(j)'
  BY Zenon, <1>1, StepKept DEF Kept, SessionsGo, AcceptInv
<1>3. AcceptTypeOK' /\ StopInv'
  BY Zenon, <1>1 DEF AcceptTypeOK, StopInv
<1>4. \A j \in connections' : Watched(j)'
  BY Zenon, <1>1, WatchedKept DEF ListInv, AcceptTypeOK
<1>5. ServerMove
  BY Zenon, <1>2, <1>3, <1>4 DEF ServerMove
<1> QED BY Zenon, <1>5, ServerKept

\* send_stream() and close(), and stop() as it closes a session.
LEMMA ServerCallKept ==
  ASSUME ServerInv, NEW i \in Ids,
         \/ \E c \in Callers : SendStream(c, i) \/ Close(c, i)
         \/ StopSession(i)
  PROVE  ServerInv'
<1>1. SessionInv /\ AcceptTypeOK /\ AcceptInv /\ OpenInv /\ StopInv /\ ListInv
  BY Zenon DEF ServerInv
<1>2. PICK t \in Threads, s \in {SendSteps, CloseSteps} :
        /\ \A j \in Ids : t # Reader(j)
        /\ thread[t].todo = <<>> /\ Run(t, i, s)
        /\ \/ UNCHANGED stopper
           \/ s = CloseSteps /\ stopper' = [stopper EXCEPT !.left = @ \ {i}]
  <2>1. CASE \E c \in Callers : SendStream(c, i) \/ Close(c, i)
    <3>1. PICK c \in Callers : SendStream(c, i) \/ Close(c, i)
      BY Zenon, <2>1
    <3>2. Caller(c) \in Threads /\ \A j \in Ids : Caller(c) # Reader(j)
      BY Zenon DEF Threads, Caller, Reader
    <3> QED BY Zenon, <3>1, <3>2 DEF SendStream, Close
  <2>2. CASE StopSession(i)
    <3>1. Stopper \in Threads /\ \A j \in Ids : Stopper # Reader(j)
      BY Zenon DEF Threads, Stopper, Reader
    <3> QED BY Zenon, <2>2, <3>1 DEF StopSession
  <2> QED BY Zenon, <2>1, <2>2
<1>3. /\ UNCHANGED <<started, stopping, connections, nextId, accept, sess, log, closed>>
      /\ i \in connections \cup stopper.left
  BY Zenon DEF SendStream, Close, StopSession
<1>4. Event(i, "open") \/ closed
  <2>1. CASE \E c \in Callers : SendStream(c, i) \/ Close(c, i)
    <3>1. PICK n \in DOMAIN log : log[n].kind = "open" /\ log[n].id = i
      BY ZenonT(60), <2>1 DEF SendStream, Close, Known
    <3>2. log[n] \in [kind : {"open", "message", "close"}, id : Ids]
      <4> DEFINE E == [kind : {"open", "message", "close"}, id : Ids]
      <4>1. log \in Seq(E)
        BY Zenon, <1>1 DEF SessionInv, SessionTypeOK
      <4> HIDE DEF E
      <4>2. log[n] \in E
        BY SMTT(30), <4>1
      <4> QED BY Zenon, <4>2 DEF E
    <3>3. log[n] = [kind |-> "open", id |-> i]
      BY Zenon, <3>1, <3>2
    <3> QED BY SMTT(30), <3>3 DEF Event
  <2>2. CASE StopSession(i)
    <3>1. accept.at # "open" /\ i \in stopper.left
      BY Zenon, <1>1, <2>2 DEF StopSession, StopInv
    <3> QED BY Zenon, <1>1, <3>1 DEF OpenInv
  <2> QED BY Zenon, <2>1, <2>2
<1>5. /\ SessionInv' /\ SessionsGo
      /\ \A j \in Ids \ {i} : Untouched(j) => Untouched(j)'
      /\ s = CloseSteps => Ending(i)'
      /\ \A j \in Ids : Watched(j) => Watched(j)'
  BY SMTT(30), <1>1, <1>2, <1>3, <1>4, CallKept
<1>6. \A j \in Ids : Unlisted(j) => Untouched(j)'
  BY Zenon, <1>1, <1>3, <1>5 DEF AcceptInv
<1>7. /\ stopper'.at = stopper.at /\ stopper'.left \subseteq stopper.left
      /\ stopper.left \subseteq stopper'.left \cup {i}
      /\ stopper' # stopper => s = CloseSteps
      /\ stopper' \in [at : {"none", "join", "sessions"}, left : SUBSET Ids]
  BY ZenonT(60), <1>1, <1>2 DEF AcceptTypeOK
<1>8. AcceptTypeOK' /\ StopInv'
  BY Zenon, <1>1, <1>3, <1>7 DEF AcceptTypeOK, StopInv
<1>9. \A j \in connections' : Watched(j)'
  BY Zenon, <1>1, <1>3, <1>5 DEF ListInv, AcceptTypeOK
<1>10. ServerMove
  BY Zenon, <1>3, <1>5, <1>6, <1>7, <1>8, <1>9 DEF ServerMove
<1> QED BY Zenon, <1>10, ServerKept

\* stop() ends, and the peer goes away.
LEMMA ServerEndKept ==
  ASSUME ServerInv,
         \/ StopIdle \/ StopEnd
         \/ \E i \in Ids : PeerGoes(i) /\ UNCHANGED serverVars
  PROVE  ServerInv'
<1>1. /\ SessionInv /\ AcceptTypeOK /\ AcceptInv /\ StopInv /\ ListInv
      /\ sess \in SessType /\ closed \in BOOLEAN
  BY Zenon DEF ServerInv, SessionInv, SessionTypeOK, SessType
<1>2. /\ UNCHANGED <<started, stopping, connections, nextId, accept, thread, log>>
      /\ stopper'.left = stopper.left /\ closed' \in {TRUE, closed}
  BY Zenon, <1>1 DEF StopIdle, StopEnd, PeerGoes, AcceptTypeOK
<1>3. /\ sess' \in SessType
      /\ \A j \in Ids : /\ sess'[j].opened = sess[j].opened
                        /\ sess'[j].stopped = sess[j].stopped
                        /\ sess'[j].reported = sess[j].reported
  <2>1. CASE sess' = sess
    BY Zenon, <1>1, <2>1
  <2>2. ASSUME NEW i \in Ids, sess' = [sess EXCEPT ![i].peer = FALSE]
        PROVE  /\ sess' \in SessType
               /\ \A j \in Ids : /\ sess'[j].opened = sess[j].opened
                                 /\ sess'[j].stopped = sess[j].stopped
                                 /\ sess'[j].reported = sess[j].reported
    BY Zenon, <1>1, <2>2 DEF SessType
  <2> QED BY Zenon, <2>1, <2>2 DEF StopIdle, StopEnd, PeerGoes
<1>4. SessionInv' /\ SessionsGo /\ \A j \in Ids : Untouched(j) => Untouched(j)'
  BY Zenon, <1>1, <1>2, <1>3, FlagsRise
<1>5. \A j \in Ids : Unlisted(j) => Untouched(j)'
  BY Zenon, <1>1, <1>4 DEF AcceptInv
<1>6. AcceptTypeOK' /\ StopInv'
  BY SMTT(30), <1>1, <1>2 DEF AcceptTypeOK, StopInv, StopIdle, StopEnd, PeerGoes
<1>7. \A j \in connections' : Watched(j)'
  BY SMTT(30), <1>1, <1>2, <1>3 DEF ListInv, AcceptTypeOK, Watched
<1>8. ServerMove
  BY Zenon, <1>2, <1>4, <1>5, <1>6, <1>7 DEF ServerMove
<1> QED BY Zenon, <1>8, ServerKept

\* Every step of a server keeps its invariant.
LEMMA ServerInvKept ==
  ASSUME ServerInv, ServerNext
  PROVE  ServerInv'
<1>1. CASE \/ \E f \in BOOLEAN : Start(f)
           \/ AcceptCheck \/ AcceptSocket \/ StopBegin \/ StopJoin
           \/ AcceptNumber /\ ~Running
  <2>1. UNCHANGED sessVars
    BY Zenon, <1>1 DEF Start, AcceptCheck, AcceptSocket, StopBegin, StopJoin, AcceptNumber
  <2> QED BY Zenon, <1>1, <2>1, TableKept
<1>2. CASE AcceptNumber /\ Running
  BY Zenon, <1>2, NumberKept
<1>3. CASE AcceptHandshake
  BY Zenon, <1>3, HandshakeKept
<1>4. CASE AcceptList
  BY Zenon, <1>4, ListKept
<1>5. CASE AcceptOpen
  BY Zenon, <1>5, OpenKept
<1>6. CASE AcceptStart
  BY <1>6, StartKept
<1>7. CASE StopIdle \/ StopEnd \/ \E i \in Ids : PeerGoes(i) /\ UNCHANGED serverVars
  BY Zenon, <1>7, ServerEndKept
<1>8. CASE \E i \in Ids : StopSession(i)
  BY Zenon, <1>8, ServerCallKept
<1>9. CASE \E c \in Callers, i \in Ids : SendStream(c, i) \/ Close(c, i)
  BY Zenon, <1>9, ServerCallKept
<1>10. CASE \E t \in Threads : ServerThread(t)
  BY Zenon, <1>10, UnlistKept, ServerStepKept DEF ServerThread
<1> QED BY ZenonT(60), <1>1, <1>2, <1>3, <1>4, <1>5, <1>6, <1>7, <1>8, <1>9, <1>10 DEF ServerNext, Accept, Stop

-----------------------------------------------------------------------------
(* The client. *)

\* A step that leaves the client's generation alone, and its session too
\* unless some thread is ending it.
ClientMove ==
  /\ SessionInv' /\ SessionsGo /\ ConnectTypeOK'
  /\ \A j \in Ids : j > generation \/ (\E c \in Connectors : connecting[c].id = j) => Untouched(j)'
  /\ generation' = generation
  /\ \A c \in Connectors :
       \/ connecting'[c] = connecting[c] \/ connecting'[c] = Out
       \/ /\ connecting[c] # Out /\ connecting'[c].id = connecting[c].id
          /\ connecting'[c].at \in {"making", "made"}
  /\ \/ UNCHANGED <<connected, session>>
     \/ /\ ~connected'
        /\ \A j \in Ids : connected /\ session = j => Ending(j)'

\* Such a step keeps the client's invariant.
LEMMA ClientKept ==
  ASSUME ClientInv, ClientMove
  PROVE  ClientInv'
<1> USE DEF ClientMove
<1>1. SessionInv /\ ConnectTypeOK /\ ConnectInv /\ CurrentInv /\ Out.id = 0 /\ 0 \notin Ids
  BY Zenon, IdsAssumption DEF ClientInv, Out
<1>2. \A c \in Connectors : connecting'[c].id # 0 =>
        connecting'[c].id = connecting[c].id /\ connecting[c] # Out
  BY SMTT(30), <1>1
<1>3. ConnectInv'
  <2>1. ASSUME NEW c \in Connectors
        PROVE  \/ connecting'[c] = Out
               \/ connecting'[c].id \in Ids /\ connecting'[c].id <= generation'
                  /\ connecting'[c].at \in {"making", "made"}
    BY Zenon, <1>1, <2>1 DEF ConnectInv
  <2>2. ASSUME NEW c \in Connectors, NEW d \in Connectors, connecting'[c].id = connecting'[d].id,
               connecting'[c] # Out
        PROVE  c = d
    <3>1. connecting'[c].id \in Ids
      BY SMTT(30), <2>1, <2>2
    <3>2. connecting[c].id = connecting[d].id /\ connecting[c] # Out
      BY ZenonT(60), <1>1, <1>2, <2>2, <3>1
    <3> QED BY Zenon, <1>1, <3>2 DEF ConnectInv
  <2>3. ASSUME NEW j \in Ids, j > generation' \/ (\E c \in Connectors : connecting'[c].id = j)
        PROVE  Untouched(j)'
    BY Zenon, <1>1, <1>2, <2>3
  <2> QED BY SMTT(30), <2>1, <2>2, <2>3 DEF ConnectInv, Out
<1>4. CurrentInv'
  <2>1. PICK g : g = generation
    BY SMTT(30)
  <2>2. ASSUME connected' PROVE /\ connected /\ session' = session /\ session = g /\ g \in Ids
                                /\ \A c \in Connectors : connecting'[c].id # g
                                /\ Event(g, "open")' \/ closed'
    <3>1. /\ connected /\ session' = session /\ session = g /\ g \in Ids
          /\ \A c \in Connectors : connecting[c].id # g
          /\ Event(g, "open") \/ closed
      BY Zenon, <1>1, <2>1, <2>2 DEF CurrentInv, Event
    <3>2. \A c \in Connectors : connecting'[c].id # g
      BY Zenon, <1>1, <1>2, <3>1
    <3> QED BY ZenonT(60), <3>1, <3>2 DEF SessionsGo
  <2>3. connected' => Event(generation, "open")' \/ closed'
    BY Zenon, <2>1, <2>2 DEF Event
  <2>4. ASSUME NEW j \in Ids, sess'[j].opened, ~sess'[j].stopped
        PROVE  Ending(j)' \/ (connected' /\ session' = j)
    <3>1. Ending(j) \/ (connected /\ session = j)
      BY ZenonT(60), <1>1, <2>4 DEF CurrentInv, SessionsGo
    <3>2. Ending(j) => Ending(j)'
      BY Zenon, <2>4 DEF SessionsGo
    <3> QED BY SMTT(30), <3>1, <3>2
  <2> QED BY ZenonT(60), <2>1, <2>2, <2>3, <2>4 DEF CurrentInv
<1> QED BY Zenon, <1>3, <1>4 DEF ClientInv

\* connect() as it begins: a new generation.
LEMMA BeginKept ==
  ASSUME ClientInv, NEW c \in Connectors, ConnectBegin(c)
  PROVE  ClientInv'
<1>1. SessionInv /\ ConnectTypeOK /\ ConnectInv /\ CurrentInv /\ Out.id = 0 /\ 0 \notin Ids
  BY Zenon, IdsAssumption DEF ClientInv, Out
<1>2. PICK g \in Ids : g = generation + 1
  BY Zenon DEF ConnectBegin
<1>3. /\ generation \in Nat /\ generation' = g /\ ~connected
      /\ connecting' \in [Connectors -> [at : {"out", "making", "made"}, id : Nat]]
      /\ connecting'[c] = [at |-> "making", id |-> g]
      /\ \A d \in Connectors \ {c} : connecting'[d] = connecting[d]
      /\ UNCHANGED <<connected, session>> /\ UNCHANGED sessVars
  BY SMTT(30), <1>1, <1>2 DEF ConnectBegin, ConnectTypeOK
<1>4. \A d \in Connectors : connecting[d].id # g
  BY SMTT(30), <1>1, <1>2, <1>3 DEF ConnectInv
<1>5. ConnectTypeOK'
  BY SMTT(30), <1>1, <1>2, <1>3 DEF ConnectTypeOK
<1>6. ConnectInv'
  <2>1. ASSUME NEW d \in Connectors
        PROVE  \/ connecting'[d] = Out
               \/ connecting'[d].id \in Ids /\ connecting'[d].id <= generation'
                  /\ connecting'[d].at \in {"making", "made"}
    <3>1. CASE d = c
      BY SMTT(30), <1>2, <1>3, <3>1, IdsAssumption
    <3>2. CASE d # c
      BY SMTT(30), <1>1, <1>2, <1>3, <3>2, IdsAssumption DEF ConnectInv
    <3> QED BY Zenon, <3>1, <3>2
  <2>2. ASSUME NEW d \in Connectors, NEW e \in Connectors, connecting'[d].id = connecting'[e].id,
               connecting'[d] # Out
        PROVE  d = e
    BY SMTT(30), <1>1, <1>3, <1>4, <2>2 DEF ConnectInv
  <2>3. ASSUME NEW j \in Ids, j > generation' \/ (\E d \in Connectors : connecting'[d].id = j)
        PROVE  Untouched(j)'
    <3>1. j > generation \/ (\E d \in Connectors : connecting[d].id = j)
      <4>1. CASE j > generation'
        BY SMTT(30), <1>2, <1>3, <4>1, IdsAssumption
      <4>2. CASE \E d \in Connectors : connecting'[d].id = j
        BY SMTT(30), <1>2, <1>3, <4>2
      <4> QED BY SMTT(30), <2>3, <4>1, <4>2
    <3> QED BY Zenon, <1>1, <1>3, <3>1, Still DEF ConnectInv
  <2> QED BY Zenon, <2>1, <2>2, <2>3 DEF ConnectInv, Out
<1>7. CurrentInv'
  BY Zenon, <1>1, <1>3, Still DEF CurrentInv
<1> QED BY Zenon, <1>1, <1>3, <1>5, <1>6, <1>7, Still DEF ClientInv

\* connect() makes its session or fails to; the peer goes away.
LEMMA MakingKept ==
  ASSUME ClientInv,
         \/ \E c \in Connectors : ConnectMade(c) \/ ConnectFails(c)
         \/ \E i \in Ids : PeerGoes(i) /\ UNCHANGED clientVars
  PROVE  ClientInv'
<1>1. /\ SessionInv /\ ConnectTypeOK /\ ConnectInv
      /\ sess \in SessType /\ closed \in BOOLEAN
  BY Zenon DEF ClientInv, SessionInv, SessionTypeOK, SessType
<1>2. UNCHANGED <<connected, generation, session, thread, log, closed>>
  BY Zenon DEF ConnectMade, ConnectFails, PeerGoes
<1>3. /\ sess' \in SessType
      /\ \A j \in Ids : /\ sess'[j].opened = sess[j].opened
                        /\ sess'[j].stopped = sess[j].stopped
                        /\ sess'[j].reported = sess[j].reported
  <2>1. CASE sess' = sess
    BY Zenon, <1>1, <2>1
  <2>2. ASSUME NEW i \in Ids, \/ sess' = [sess EXCEPT ![i].peer = FALSE]
                              \/ sess' = [sess EXCEPT ![i].made = TRUE]
        PROVE  /\ sess' \in SessType
               /\ \A j \in Ids : /\ sess'[j].opened = sess[j].opened
                                 /\ sess'[j].stopped = sess[j].stopped
                                 /\ sess'[j].reported = sess[j].reported
    <3>1. CASE sess' = [sess EXCEPT ![i].peer = FALSE]
      BY ZenonT(60), <1>1, <3>1 DEF SessType
    <3>2. CASE sess' = [sess EXCEPT ![i].made = TRUE]
      BY ZenonT(60), <1>1, <3>2 DEF SessType
    <3> QED BY Zenon, <2>2, <3>1, <3>2
  <2>3. ASSUME NEW c \in Connectors, ConnectMade(c)
        PROVE  \E i \in Ids : sess' = [sess EXCEPT ![i].made = TRUE]
    <3>1. connecting[c].at = "making" /\ connecting[c] # Out
      BY <2>3 DEF ConnectMade, Out
    <3>2. connecting[c].id \in Ids
      BY ZenonT(60), <1>1, <3>1 DEF ConnectInv
    <3> QED BY Zenon, <2>3, <3>2 DEF ConnectMade
  <2> QED BY Zenon, <2>1, <2>2, <2>3 DEF ConnectFails, PeerGoes
<1>4. SessionInv' /\ SessionsGo /\ \A j \in Ids : Untouched(j) => Untouched(j)'
  BY SMTT(30), <1>1, <1>2, <1>3, FlagsRise
<1>5. \A j \in Ids : j > generation \/ (\E c \in Connectors : connecting[c].id = j) => Untouched(j)'
  BY Zenon, <1>1, <1>4 DEF ConnectInv
<1>6. /\ connecting' \in [Connectors -> [at : {"out", "making", "made"}, id : Nat]]
      /\ \A c \in Connectors :
           \/ connecting'[c] = connecting[c] \/ connecting'[c] = Out
           \/ /\ connecting[c] # Out /\ connecting'[c].id = connecting[c].id
              /\ connecting'[c].at \in {"making", "made"}
  <2>1. CASE connecting' = connecting
    BY ZenonT(60), <1>1, <2>1 DEF ConnectTypeOK
  <2>2. ASSUME NEW c \in Connectors, ConnectMade(c)
        PROVE  <1>6!1 /\ <1>6!2
    BY <1>1, <2>2 DEF ConnectMade, ConnectTypeOK, Out
  <2>3. ASSUME NEW c \in Connectors, ConnectFails(c)
        PROVE  <1>6!1 /\ <1>6!2
    BY Zenon, <1>1, <2>3 DEF ConnectFails, ConnectTypeOK, Out
  <2> QED BY Zenon, <2>1, <2>2, <2>3
<1>7. ConnectTypeOK'
  BY Zenon, <1>1, <1>2, <1>6 DEF ConnectTypeOK
<1>8. ClientMove
  BY Zenon, <1>2, <1>4, <1>5, <1>6, <1>7 DEF ClientMove
<1> QED BY Zenon, <1>8, ClientKept

\* connect() as it ends, overtaken or not.
LEMMA EndKept ==
  ASSUME ClientInv, NEW c \in Connectors, ConnectEnd(c)
  PROVE  ClientInv'
<1>1. /\ SessionInv /\ ConnectTypeOK /\ ConnectInv /\ CurrentInv /\ Out.id = 0 /\ 0 \notin Ids
      /\ sess \in SessType /\ closed \in BOOLEAN
  BY Zenon, IdsAssumption DEF ClientInv, SessionInv, SessionTypeOK, SessType, Out
<1>2. connecting[c].at = "made" /\ connecting[c] # Out
  BY DEF ConnectEnd, Out
<1>3. PICK i \in Ids : i = connecting[c].id
  BY Zenon, <1>1, <1>2 DEF ConnectInv
<1>4. /\ i \in Nat /\ generation \in Nat /\ i <= generation
      /\ UNCHANGED <<generation, closed>>
      /\ connecting' \in [Connectors -> [at : {"out", "making", "made"}, id : Nat]]
      /\ connecting'[c] = Out /\ \A d \in Connectors \ {c} : connecting'[d] = connecting[d]
  BY SMTT(30), <1>1, <1>2, <1>3, IdsAssumption DEF ConnectEnd, ConnectTypeOK, ConnectInv, Out
<1>5. /\ Untouched(i) /\ \A d \in Connectors \ {c} : connecting[d].id # i
  BY Zenon, <1>1, <1>2, <1>3 DEF ConnectInv
<1>6. ConnectTypeOK'
  <2>1. session' \in {session, i} /\ connected' \in {connected, TRUE}
    BY ZenonT(60), <1>3 DEF ConnectEnd
  <2> QED BY Zenon, <1>1, <1>3, <1>4, <2>1 DEF ConnectTypeOK
<1>7. ASSUME \A j \in Ids \ {i} : Untouched(j) => Untouched(j)'
      PROVE  ConnectInv'
  <2>1. \A d \in Connectors :
             \/ connecting'[d] = Out
             \/ connecting'[d].id \in Ids /\ connecting'[d].id <= generation'
                /\ connecting'[d].at \in {"making", "made"}
    BY ZenonT(60), <1>1, <1>4 DEF ConnectInv
  <2>2. ASSUME NEW d \in Connectors, NEW e \in Connectors, connecting'[d].id = connecting'[e].id,
               connecting'[d] # Out
        PROVE  d = e
    <3>1. d # c /\ connecting'[d].id # 0
      BY SMTT(30), <1>1, <1>4, <2>1, <2>2
    <3>2. e # c
      BY SMTT(30), <1>1, <1>4, <2>2, <3>1
    <3> QED BY ZenonT(60), <1>1, <1>4, <2>2, <3>1, <3>2 DEF ConnectInv
  <2>3. ASSUME NEW j \in Ids, j > generation' \/ (\E d \in Connectors : connecting'[d].id = j)
        PROVE  Untouched(j)'
    <3>1. j # i
      BY SMTT(30), <1>1, <1>4, <1>5, <2>3
    <3>2. j > generation \/ (\E d \in Connectors : connecting[d].id = j)
      BY Zenon, <1>1, <1>4, <2>3
    <3> QED BY SMTT(30), <1>1, <1>7, <3>1, <3>2 DEF ConnectInv
  <2> QED BY Zenon, <2>1, <2>2, <2>3 DEF ConnectInv, Out
<1>8. CASE generation # i
  <2>1. /\ sess' = [sess EXCEPT ![i].stopped = TRUE]
        /\ UNCHANGED <<connected, session, log, thread>>
    BY Zenon, <1>3, <1>8 DEF ConnectEnd
  <2>2. /\ sess' \in SessType /\ sess'[i].stopped
        /\ \A j \in Ids : /\ sess'[j].opened = sess[j].opened
                          /\ sess[j].stopped => sess'[j].stopped
                          /\ j # i => sess'[j].stopped = sess[j].stopped
                          /\ sess'[j].reported = sess[j].reported
    BY ZenonT(60), <1>1, <2>1 DEF SessType
  <2>3. /\ SessionInv' /\ SessionsGo
        /\ \A j \in Ids : Event(j, "open")' <=> Event(j, "open")
        /\ \A j \in Ids \ {i} : Untouched(j) => Untouched(j)'
    BY Zenon, <1>1, <1>4, <2>1, <2>2, FlagsRise
  <2>4. CurrentInv'
    <3>1. ASSUME connected PROVE /\ session \in Ids /\ session = generation
                                 /\ \A d \in Connectors : connecting'[d].id # generation
                                 /\ Event(generation, "open")' \/ closed'
      <4>1. /\ session \in Ids /\ session = generation
            /\ \A d \in Connectors : connecting[d].id # generation
            /\ Event(generation, "open") \/ closed
        BY Zenon, <1>1, <3>1 DEF CurrentInv
      <4>2. Event(generation, "open") => Event(generation, "open")'
        BY Zenon, <1>4, <2>1 DEF Event
      <4> QED BY Zenon, <1>1, <1>4, <4>1, <4>2
    <3>2. ASSUME NEW j \in Ids, sess'[j].opened, ~sess'[j].stopped
          PROVE  Ending(j)' \/ (connected' /\ session' = j)
      <4>1. Ending(j) \/ (connected /\ session = j)
        BY Zenon, <1>1, <2>2, <3>2 DEF CurrentInv
      <4> QED BY SMTT(30), <2>1, <2>3, <3>2, <4>1 DEF SessionsGo
    <3> QED BY Zenon, <1>4, <2>1, <3>1, <3>2 DEF CurrentInv
  <2> QED BY Zenon, <1>6, <1>7, <2>3, <2>4 DEF ClientInv
<1>9. CASE generation = i
  <2>1. /\ session' = i /\ connected' = TRUE
        /\ sess' = [sess EXCEPT ![i].opened = TRUE]
        /\ Pushed([kind |-> "open", id |-> i]) /\ StartReader(i)
    BY SMTT(30), <1>3, <1>9 DEF ConnectEnd, Push, Pushed
  <2>2. NoEvent(i) /\ ~Event(i, "open") /\ ~sess[i].opened
    BY <1>5 DEF Untouched, NoEvent, Event
  <2>3. /\ log' \in Seq([kind : {"open", "message", "close"}, id : Ids])
        /\ EventsWellFormed'
        /\ \A j \in Ids : \A q \in {"open", "close"} :
             Event(j, q)' <=> Event(j, q) \/ (~closed /\ j = i /\ q = "open")
        /\ \A j \in Ids : NoEvent(j) /\ (closed \/ j # i) => NoEvent(j)'
    BY Zenon, <1>1, <2>1, <2>2, PushKept
  <2>4. Event(i, "open")' \/ closed
    BY Zenon, <1>1, <2>3
  <2>5. /\ SessionInv'
        /\ \A j \in Ids \ {i} : sess'[j] = sess[j]
        /\ \A j \in Ids : Ending(j) => Ending(j)'
        /\ \A j \in Ids \ {i} : Untouched(j) /\ NoEvent(j)' => Untouched(j)'
    BY Zenon, <1>1, <1>4, <2>1, <2>2, <2>3, <2>4, ReaderStarts
  <2>6. \A j \in Ids \ {i} : Untouched(j) => Untouched(j)'
    BY Zenon, <2>3, <2>5 DEF Untouched
  <2>7. CurrentInv'
    <3>1. \A d \in Connectors : connecting'[d].id # generation'
      BY SMTT(30), <1>1, <1>3, <1>4, <1>5, <1>9
    <3>2. Event(generation, "open")' \/ closed'
      BY Zenon, <1>4, <1>9, <2>4 DEF Event
    <3>3. ASSUME NEW j \in Ids, sess'[j].opened, ~sess'[j].stopped
          PROVE  Ending(j)' \/ (connected' /\ session' = j)
      <4>1. CASE j = i
        BY ZenonT(60), <2>1, <4>1
      <4>2. CASE j # i
        <5>1. Ending(j) \/ (connected /\ session = j)
          BY Zenon, <1>1, <2>5, <3>3, <4>2 DEF CurrentInv
        <5>2. connected => session = i
          BY Zenon, <1>1, <1>9 DEF CurrentInv
        <5> QED BY SMTT(30), <2>5, <4>2, <5>1, <5>2
      <4> QED BY Zenon, <4>1, <4>2
    <3> QED BY SMTT(30), <1>4, <1>9, <2>1, <3>1, <3>2, <3>3 DEF CurrentInv
  <2> QED BY ZenonT(60), <1>6, <1>7, <2>5, <2>6, <2>7 DEF ClientInv
<1> QED BY Zenon, <1>8, <1>9

\* send_stream() and close() of a client.
LEMMA ClientCallKept ==
  ASSUME ClientInv, NEW c \in Callers, ClientClose(c) \/ ClientSend(c)
  PROVE  ClientInv'
<1>1. SessionInv /\ ConnectTypeOK /\ ConnectInv /\ CurrentInv
  BY SMTT(30) DEF ClientInv
<1>2. connected /\ UNCHANGED <<generation, connecting, sess, log, closed>>
  BY ZenonT(60) DEF ClientClose, ClientSend
<1>3. PICK i \in Ids : i = session /\ i = generation
  BY Zenon, <1>1, <1>2 DEF CurrentInv
<1>4. Event(i, "open") \/ closed
  BY Zenon, <1>1, <1>2, <1>3 DEF CurrentInv, Event
<1>5. Caller(c) \in Threads /\ \A j \in Ids : Caller(c) # Reader(j)
  BY SMTT(30) DEF Threads, Caller, Reader
<1>6. PICK s \in {SendSteps, CloseSteps} :
        /\ thread[Caller(c)].todo = <<>> /\ Run(Caller(c), i, s)
        /\ \/ UNCHANGED <<connected, session>>
           \/ s = CloseSteps /\ connected' = FALSE /\ session' = 0
  BY ZenonT(60), <1>3 DEF ClientClose, ClientSend
<1>7. /\ SessionInv' /\ SessionsGo
      /\ \A j \in Ids \ {i} : Untouched(j) => Untouched(j)'
      /\ s = CloseSteps => Ending(i)'
  BY ZenonT(60), <1>1, <1>2, <1>4, <1>5, <1>6, CallKept
<1>8. \A j \in Ids : j > generation \/ (\E d \in Connectors : connecting[d].id = j) => Untouched(j)'
  <2>1. ~(i > generation) /\ \A d \in Connectors : connecting[d].id # i
    BY SMTT(30), <1>1, <1>2, <1>3 DEF CurrentInv, ConnectTypeOK
  <2> QED BY Zenon, <1>1, <1>7, <2>1 DEF ConnectInv
<1>9. ConnectTypeOK'
  BY Zenon, <1>1, <1>2, <1>6 DEF ConnectTypeOK
<1>10. ClientMove
  BY Zenon, <1>2, <1>3, <1>6, <1>7, <1>8, <1>9 DEF ClientMove
<1> QED BY Zenon, <1>10, ClientKept

\* on_close of a client, and a step of a session's thread.
LEMMA ClientThreadKept ==
  ASSUME ClientInv, NEW t \in Threads, ClientThread(t)
  PROVE  ClientInv'
<1>1. SessionInv /\ ConnectTypeOK /\ ConnectInv /\ CurrentInv
  BY Zenon DEF ClientInv
<1>2. ASSUME SessionInv', Kept, ConnectTypeOK', UNCHANGED <<generation, connecting>>,
             \/ UNCHANGED <<connected, session>>
             \/ ~connected' /\ \A j \in Ids : connected /\ session = j => Ending(j)'
      PROVE  ClientInv'
  <2>1. SessionsGo
    BY ZenonT(60), <1>2 DEF Kept, SessionsGo
  <2>2. \A j \in Ids : j > generation \/ (\E d \in Connectors : connecting[d].id = j) => Untouched(j)'
    BY ZenonT(60), <1>1, <1>2 DEF ConnectInv, Kept
  <2>3. ClientMove
    BY Zenon, <1>2, <2>1, <2>2 DEF ClientMove
  <2> QED BY SMTT(30), <2>3, ClientKept
<1>3. CASE ThreadStep(t) /\ UNCHANGED clientVars
  <2>1. SessionInv' /\ Kept
    BY Zenon, <1>1, <1>3, StepKept
  <2> QED BY Zenon, <1>1, <1>2, <1>3, <2>1 DEF ConnectTypeOK
<1>4. CASE Forget(t)
  <2>1. PICK i : i = thread[t].id
    OBVIOUS
  <2>2. PICK s \in {<<>>, <<"tell">>} :
          /\ Then(t, s)
          /\ \/ UNCHANGED <<connected, session>>
             \/ s = <<"tell">> /\ generation = i /\ connected' = FALSE /\ session' = 0
    BY Zenon, <1>4, <2>1 DEF Forget
  <2>3. At(t, "unlist") /\ UNCHANGED <<generation, connecting, sess, log, closed>>
    BY SMTT(30), <1>4 DEF Forget
  <2>4. SessionInv' /\ Kept /\ (s = <<"tell">> => Ending(i)')
    BY Zenon, <1>1, <2>1, <2>2, <2>3, UnlistMoves
  <2>5. ConnectTypeOK'
    BY Zenon, <1>1, <2>2, <2>3 DEF ConnectTypeOK
  <2>6. \/ UNCHANGED <<connected, session>>
        \/ ~connected' /\ \A j \in Ids : connected /\ session = j => Ending(j)'
    BY Zenon, <1>1, <2>2, <2>4 DEF CurrentInv
  <2> QED BY Zenon, <1>2, <2>3, <2>4, <2>5, <2>6
<1> QED BY Zenon, <1>3, <1>4 DEF ClientThread

\* Every step of a client keeps its invariant.
LEMMA ClientInvKept ==
  ASSUME ClientInv, ClientNext
  PROVE  ClientInv'
<1>1. CASE \/ \E c \in Connectors : ConnectMade(c) \/ ConnectFails(c)
           \/ \E i \in Ids : PeerGoes(i) /\ UNCHANGED clientVars
  BY Zenon, <1>1, MakingKept
<1>2. CASE \E c \in Connectors : ConnectBegin(c) \/ ConnectEnd(c)
  BY Zenon, <1>2, BeginKept, EndKept
<1>3. CASE \E c \in Callers : ClientClose(c) \/ ClientSend(c)
  BY Zenon, <1>3, ClientCallKept
<1>4. CASE \E t \in Threads : ClientThread(t)
  BY Zenon, <1>4, ClientThreadKept
<1> QED BY Zenon, <1>1, <1>2, <1>3, <1>4 DEF ClientNext

-----------------------------------------------------------------------------
(* The theorems. *)

\* No session is made, no thread at work and no event pushed at first.
LEMMA SessionsInit ==
  ASSUME SessionInit
  PROVE  /\ SessionInv /\ \A i \in Ids : Untouched(i)
<1>1. /\ \A i \in Ids : sess[i] = Fresh
      /\ \A t \in Threads : thread[t].todo = <<>>
      /\ DOMAIN log = {}
  BY DEF SessionInit, Idle
<1>2. SessionTypeOK
  <2>1. Idle \in [id : Nat, todo : Todo]
    BY Zenon DEF Idle, Todo
  <2>2. Fresh \in [made : BOOLEAN, opened : BOOLEAN, stopped : BOOLEAN, reported : BOOLEAN,
                   frames : Nat, peer : BOOLEAN]
    BY Zenon DEF Fresh
  <2>3. <<>> \in Seq([kind : {"open", "message", "close"}, id : Ids])
    <3>1. \A S : <<>> \in Seq(S)
      OBVIOUS
    <3> QED BY Zenon, <3>1
  <2> DEFINE W == [id : Nat, todo : Todo]
             S == [made : BOOLEAN, opened : BOOLEAN, stopped : BOOLEAN, reported : BOOLEAN,
                   frames : Nat, peer : BOOLEAN]
  <2>4. Idle \in W /\ Fresh \in S
    BY Zenon, <2>1, <2>2
  <2> HIDE DEF W, S
  <2>5. thread \in [Threads -> W] /\ sess \in [Ids -> S]
    BY SMTT(30), <2>4 DEF SessionInit
  <2> QED BY Zenon, <2>3, <2>5 DEF SessionInit, SessionTypeOK, W, S
<1>3. \A i : \A k : ~Event(i, k) /\ NoEvent(i)
  BY SMTT(30), <1>1 DEF Event, NoEvent
<1>4. ThreadInv
  <2>1. \A i \in Ids : Reader(i) \in Threads
    BY SMTT(30) DEF Threads
  <2> QED BY Zenon, <1>1, <2>1 DEF ThreadInv
<1>5. ReportInv
  <2>1. <<>> \notin {<<"report">>, <<"unlist">>, <<"tell">>} \cup Leaving \cup {<<"stop">>}
    BY Zenon DEF Leaving
  <2> QED BY Zenon, <1>1, <1>3, <2>1 DEF ReportInv
<1>6. EventsWellFormed
  <2>1. \A n \in DOMAIN log : FALSE
    BY Zenon, <1>1
  <2> QED BY Zenon, <2>1 DEF EventsWellFormed
<1>7. \A i \in Ids : Untouched(i)
  <2>1. ~Fresh.opened /\ ~Fresh.stopped /\ ~Fresh.reported
    BY Zenon DEF Fresh
  <2> QED BY Zenon, <1>1, <1>3, <2>1 DEF Untouched
<1> QED BY Zenon, <1>2, <1>4, <1>5, <1>6, <1>7 DEF SessionInv

\* The inductive invariant holds of a new server and of a new client.
LEMMA PartInit == MCInit => PartInv
<1> SUFFICES ASSUME MCInit PROVE PartInv
  BY Zenon
<1>1. SessionInv /\ \A i \in Ids : Untouched(i)
  BY Zenon, SessionsInit DEF MCInit
<1>2. \A i \in Ids : ~sess[i].opened
  BY SMTT(30), <1>1 DEF Untouched
<1>3. /\ connections = {} /\ stopper.left = {} /\ stopper.at = "none" /\ accept.at = "none"
      /\ started = FALSE /\ AcceptTypeOK
  BY ZenonT(60) DEF MCInit, ServerInit, AcceptTypeOK
<1>4. ServerInv
  BY ZenonT(60), <1>1, <1>2, <1>3 DEF ServerInv, AcceptInv, OpenInv, StopInv, ReachInv, ListInv
<1>5. /\ ConnectTypeOK /\ \A c \in Connectors : connecting[c] = Out /\ connecting[c].id = 0
      /\ connected = FALSE /\ 0 \notin Ids
  BY Zenon, IdsAssumption DEF MCInit, ClientInit, ConnectTypeOK, Out
<1>6. ClientInv
  BY Zenon, <1>1, <1>2, <1>5 DEF ClientInv, ConnectInv, CurrentInv
<1> QED BY Zenon, <1>3, <1>4, <1>6 DEF PartInv

\* Every step keeps it.
LEMMA PartNext == PartInv /\ [MCNext]_vars => PartInv'
<1> SUFFICES ASSUME PartInv, [MCNext]_vars PROVE PartInv'
  BY Zenon
<1>1. CASE ServerPart
  <2>1. part = "server" /\ part' = part /\ ServerInv /\ ServerNext
    BY Zenon, <1>1 DEF PartInv, ServerPart
  <2> QED BY Zenon, <2>1, ServerInvKept DEF PartInv
<1>2. CASE ClientPart
  <2>1. part = "client" /\ part' = part /\ ClientInv /\ connections = {} /\ connections' = {}
        /\ ClientNext
    BY Zenon, <1>2 DEF PartInv, ClientPart
  <2> QED BY Zenon, <2>1, ClientInvKept DEF PartInv
<1>3. CASE UNCHANGED vars
  <2>1. UNCHANGED <<part, sess, thread, log, closed, started, stopping, connections, nextId, accept,
                    stopper, connected, generation, session, connecting>>
    BY SMTT(30), <1>3 DEF vars
  <2>2. \A i, k : (Event(i, k)' <=> Event(i, k)) /\ (NoEvent(i)' <=> NoEvent(i))
    BY ZenonT(60), <2>1 DEF Event, NoEvent
  <2>3. \A i : (Ending(i)' <=> Ending(i)) /\ (Watched(i)' <=> Watched(i))
    BY SMTT(30), <2>1 DEF Ending, Watched
  <2>4. \A i : (Untouched(i)' <=> Untouched(i)) /\ (Unlisted(i)' <=> Unlisted(i))
    BY Zenon, <2>1, <2>2 DEF Untouched, Unlisted
  <2>5. SessionInv => SessionInv'
    BY Zenon, <2>1, Still
  <2>6. ServerInv => ServerInv'
    <3>1. ASSUME ServerInv PROVE ServerMove
      BY ZenonT(60), <2>1, <2>2, <2>3, <2>4, <2>5, <3>1
         DEF ServerMove, ServerInv, SessionsGo, AcceptTypeOK, StopInv, AcceptInv, ListInv
    <3> QED BY SMTT(30), <3>1, ServerKept
  <2>7. ClientInv => ClientInv'
    <3>1. ASSUME ClientInv PROVE ClientMove
      BY ZenonT(60), <2>1, <2>2, <2>3, <2>4, <2>5, <3>1
         DEF ClientMove, ClientInv, SessionsGo, ConnectTypeOK, ConnectInv
    <3> QED BY Zenon, <3>1, ClientKept
  <2> QED BY Zenon, <2>1, <2>6, <2>7 DEF PartInv
<1> QED BY Zenon, <1>1, <1>2, <1>3 DEF MCNext

\* The inductive invariant of ws.cpp: what the accept thread, stop(), connect()
\* and the threads at work on the sessions say of the table and of the events.
THEOREM WebSocketInvariant == MCSpec => []PartInv
<1> QED BY PartInit, PartNext, PTL DEF MCSpec

\* The events of every connection that next() hands out are well formed, for any
\* number of connections, callers and frames (ws.cpp:549, 279).
THEOREM WebSocketEvents == MCSpec => []EventsWellFormed
<1>1. PartInv => EventsWellFormed
  BY Zenon DEF PartInv, ServerInv, ClientInv, SessionInv
<1> QED BY <1>1, WebSocketInvariant, PTL

\* No session that runs is out of its owner's reach, however stop() meets the
\* accept thread and the late close of an old connection a new one (ws.cpp:540,
\* 612, 1041).
THEOREM WebSocketReach == MCSpec => []NoOrphanSession
<1>1. ASSUME PartInv, NEW i \in Ids, sess[i].opened, ~sess[i].stopped
      PROVE  Ending(i) \/ IF part = "server" THEN ServerOwns(i) ELSE ClientOwns(i)
  <2>1. CASE part = "server"
    <3>1. ReachInv /\ StopInv
      BY SMTT(30), <1>1, <2>1 DEF PartInv, ServerInv
    <3>2. Ending(i) \/ i \in connections \cup stopper.left
      BY ZenonT(60), <1>1, <3>1 DEF ReachInv
    <3>3. i \in connections => started
      BY ZenonT(60), <3>1 DEF StopInv
    <3> QED BY Zenon, <2>1, <3>2, <3>3 DEF ServerOwns
  <2>2. CASE part # "server"
    <3>1. CurrentInv
      BY Zenon, <1>1, <2>2 DEF PartInv, ClientInv
    <3> QED BY Zenon, <1>1, <2>2, <3>1 DEF CurrentInv, ClientOwns
  <2> QED BY Zenon, <2>1, <2>2
<1>2. PartInv => NoOrphanSession
  BY SMTT(30), <1>1 DEF NoOrphanSession
<1> QED BY <1>2, WebSocketInvariant, PTL

\* The table of a server never keeps a dead connection (ws.cpp:391, 202, 218).
THEOREM WebSocketTable == MCSpec => []DeadIsUnlisted
<1>1. ASSUME PartInv, NEW i \in connections
      PROVE  \/ \E t \in Threads : Has(t, i, {"unlist"})
             \/ /\ ~sess[i].reported
                /\ \/ \E t \in Threads : Has(t, i, {"report"})
                   \/ Has(Reader(i), i, {"read"})
                   \/ /\ ~sess[i].stopped
                      /\ (accept.id = i /\ ~sess[i].opened) \/ thread[Reader(i)].todo # <<>>
  <2>1. SessionInv /\ AcceptTypeOK /\ AcceptInv /\ Watched(i) /\ i \in Ids
    BY SMTT(30), <1>1 DEF PartInv, ServerInv, ListInv, AcceptTypeOK
  <2>2. ASSUME NEW t \in Threads, thread[t].id = i, thread[t].todo \in Unlisting
        PROVE  Has(t, i, {"unlist"})
    <3>1. 1 \in DOMAIN thread[t].todo /\ thread[t].todo[1] = "unlist"
      BY SMTT(30), <2>2
    <3> QED BY ZenonT(60), <2>2, <3>1 DEF Has
  <2>3. ASSUME NEW t \in Threads, thread[t].id = i, thread[t].todo \in Reporting
        PROVE  Has(t, i, {"report"})
    <3>1. 1 \in DOMAIN thread[t].todo /\ thread[t].todo[1] = "report"
      BY <2>3 DEF Reporting
    <3> QED BY ZenonT(60), <2>3, <3>1 DEF Has
  <2>4. ASSUME thread[Reader(i)].todo = <<"read">> PROVE Has(Reader(i), i, {"read"})
    <3>1. 1 \in DOMAIN <<"read">> /\ <<"read">>[1] = "read" /\ <<"read">> # <<>>
      BY SMTT(30)
    <3>2. thread[Reader(i)].id = i
      BY ZenonT(60), <2>1, <2>4, <3>1 DEF SessionInv, ThreadInv
    <3> QED BY Zenon, <2>4, <3>1, <3>2 DEF Has
  <2>5. accept.id = i /\ accept.at \in {"open", "start"} => ~sess[i].opened
    BY Zenon, <2>1 DEF AcceptInv
  <2> QED BY ZenonT(60), <2>1, <2>2, <2>3, <2>4, <2>5 DEF Watched
<1>2. PartInv => DeadIsUnlisted
  BY Zenon, <1>1 DEF DeadIsUnlisted
<1> QED BY <1>2, WebSocketInvariant, PTL
=============================================================================
