------------------------------- MODULE WebApp -------------------------------
(***************************************************************************)
(* App::listen of layer3/src/app.cpp: the accept loop, the requests of a   *)
(* connection (read_request_from_socket, validate_request and              *)
(* should_keep_alive of layer2/src/server.cpp), the middleware chain, and  *)
(* the normal, the streamed and the error response.                        *)
(*                                                                         *)
(* Connections are served one after the other: accept() is only reached    *)
(* again when the loop of the previous client has ended.                   *)
(***************************************************************************)
EXTENDS HttpParser

CONSTANTS Chains,        \* the middleware chains: sequences of kinds
          MaxKeepAlive,  \* max_keep_alive_requests of the policy
          ReadLimit      \* max_body_bytes + max_header_bytes, in bytes

VARIABLES chain,     \* middlewares_ of the App
          conn,      \* where the connection is
          unread,    \* bytes the client sent that were not received yet
          consumed,  \* consumed_bytes of read_request_from_socket
          cur,       \* the request being served
          level,     \* index of run_middleware_chain
          thrown,    \* status of the exception on its way out of the chain, or 0
          resp,      \* ctx.response, and whether ctx.stream was called
          handled,   \* conn_state.handled_requests
          out,       \* what was written to the client, oldest first
          hooks      \* calls of on_error for this request

webVars == <<client, pending, ready, chain, conn, unread, consumed, cur, level,
             thrown, resp, handled, out, hooks>>

Blank == [status |-> 200, stream |-> FALSE]
Req == Message(cur)

WebInit ==
  /\ client = 0 /\ chain \in Chains /\ conn = "accept"
  /\ pending = <<>> /\ ready = <<>> /\ unread = <<>> /\ consumed = 0
  /\ cur = 0 /\ level = 0 /\ thrown = 0 /\ resp = Blank
  /\ handled = 0 /\ out = <<>> /\ hooks = 0

\* accept(), a new parser and a new ServerConnectionState.
Accept ==
  /\ conn = "accept" /\ client < Len(Sends)
  /\ client' = client + 1 /\ unread' = AllBytes(client + 1)
  /\ pending' = <<>> /\ ready' = <<>> /\ consumed' = 0
  /\ cur' = 0 /\ handled' = 0 /\ out' = <<>> /\ conn' = "read"
  /\ UNCHANGED <<chain, level, thrown, resp, hooks>>

----------------------------------------------------------------------------
(* read_request_from_socket.                                               *)

connVars == <<client, chain, handled, out>>
runVars == <<level, thrown, resp, hooks>>

\* A whole message is taken and validated; a limit it breaks is thrown.
NextRequest ==
  /\ conn = "read" /\ ready # <<>>
  /\ cur' = Head(ready) /\ ready' = Tail(ready) /\ consumed' = 0
  /\ IF Message(Head(ready)).over = 0
     THEN /\ conn' = "chain" /\ level' = 1
          /\ thrown' = 0 /\ resp' = Blank /\ hooks' = 0
     ELSE conn' = "failed" /\ UNCHANGED runVars
  /\ UNCHANGED <<connVars, pending, unread>>

ReadSome(n) ==
  /\ conn = "read" /\ ready = <<>> /\ n \in 1..Len(unread)
  /\ LET fed == Fed(SubSeq(unread, 1, n))
     IN IF consumed + n > ReadLimit
        THEN conn' = "failed" /\ UNCHANGED parserVars
        ELSE /\ pending' = fed.pending /\ ready' = fed.ready
             /\ conn' = IF fed.failed THEN "failed" ELSE "read"
  /\ unread' = SubSeq(unread, n + 1, Len(unread))
  /\ consumed' = consumed + n
  /\ UNCHANGED <<connVars, runVars, cur>>

\* The client has closed its side: nullopt, and the connection is dropped.
ReadEnd ==
  /\ conn = "read" /\ ready = <<>> /\ unread = <<>>
  /\ conn' = "accept"
  /\ UNCHANGED <<connVars, runVars, parserVars, unread, consumed, cur>>

\* read_timeout, or a reset.
ReadFails ==
  /\ conn = "read" /\ ready = <<>>
  /\ conn' = "failed"
  /\ UNCHANGED <<connVars, runVars, parserVars, unread, consumed, cur>>

----------------------------------------------------------------------------
(* run_middleware_chain: calls of level 1..Len(chain) are middlewares, the *)
(* innermost one is the router.                                            *)

restVars == <<connVars, parserVars, unread, consumed, cur>>

\* An exception leaves the call of this level: on_error, then rethrow.
Throw(status) == thrown' = status /\ hooks' = hooks + 1 /\ conn' = "unwind"

Enter ==
  /\ conn = "chain" /\ level <= Len(chain)
  /\ \/ /\ chain[level] = "guard" /\ Req.guarded > 0   \* body_limit, rate_limit, validate
        /\ Throw(Req.guarded) /\ UNCHANGED <<level, resp>>
     \/ /\ chain[level] = "cors" /\ Req.preflight    \* answers without next()
        /\ resp' = [resp EXCEPT !.status = 204]
        /\ conn' = "unwind" /\ UNCHANGED <<level, thrown, hooks>>
     \/ /\ ~(chain[level] = "guard" /\ Req.guarded > 0)
        /\ ~(chain[level] = "cors" /\ Req.preflight)
        /\ level' = level + 1
        /\ UNCHANGED <<conn, thrown, resp, hooks>>
  /\ UNCHANGED restVars

\* match() and the handler, or 405, 204 and 404.
Route ==
  /\ conn = "chain" /\ level = Len(chain) + 1
  /\ CASE Req.handler = "value"   -> conn' = "unwind" /\ UNCHANGED <<thrown, hooks, resp>>
       [] Req.handler = "stream"  ->
            conn' = "unwind" /\ resp' = [resp EXCEPT !.stream = TRUE]
            /\ UNCHANGED <<thrown, hooks>>
       [] Req.handler = "throws"  -> Throw(500) /\ UNCHANGED resp
       [] Req.handler = "stream, then throws" ->
            Throw(500) /\ resp' = [resp EXCEPT !.stream = TRUE]
       [] Req.handler = "missing" ->
            conn' = "unwind" /\ resp' = [resp EXCEPT !.status = 404]
            /\ UNCHANGED <<thrown, hooks>>
       [] Req.handler = "other method" ->
            conn' = "unwind" /\ resp' = [resp EXCEPT !.status = IF Req.preflight THEN 204 ELSE 405]
            /\ UNCHANGED <<thrown, hooks>>
  /\ UNCHANGED <<restVars, level>>

\* The call of `level` has ended; the middleware outside it goes on.
Unwind ==
  /\ conn = "unwind" /\ level > 1
  /\ level' = level - 1
  /\ CASE thrown > 0 /\ chain[level - 1] = "error_handler" ->
            thrown' = 0 /\ resp' = [resp EXCEPT !.status = thrown] /\ UNCHANGED hooks
       [] thrown > 0 /\ chain[level - 1] # "error_handler" ->
            hooks' = hooks + 1 /\ UNCHANGED <<thrown, resp>>
       [] thrown = 0 /\ chain[level - 1] = "etag" /\ Req.known ->
            /\ resp' = IF resp.status = 200 /\ ~resp.stream
                       THEN [resp EXCEPT !.status = 304] ELSE resp
            /\ UNCHANGED <<thrown, hooks>>
       [] OTHER -> UNCHANGED <<thrown, resp, hooks>>
  /\ UNCHANGED <<restVars, conn>>

Unwound ==
  /\ conn = "unwind" /\ level = 1
  /\ conn' = IF thrown > 0 THEN "failed" ELSE "respond"
  /\ UNCHANGED <<restVars, level, thrown, resp, hooks>>

----------------------------------------------------------------------------
(* The response.                                                           *)

should_keep_alive == handled + 1 < MaxKeepAlive /\ ~Req.close

Entry(kind, status, keep) == [kind |-> kind, status |-> status, for |-> cur, keep |-> keep]
Write(entry) == out' = Append(out, entry)

\* Mutant: the connection is read on after its last response.
AnswerStays ==
  /\ conn = "respond" /\ ~resp.stream
  /\ Write(Entry("answer", resp.status, should_keep_alive))
  /\ handled' = handled + 1
  /\ conn' = "read"
  /\ UNCHANGED <<client, chain, parserVars, unread, consumed, cur, runVars>>

\* write_response_to_socket, handled_requests++, and the next turn or the end.
Answer ==
  /\ conn = "respond" /\ ~resp.stream
  /\ Write(Entry("answer", resp.status, should_keep_alive))
  /\ handled' = handled + 1
  /\ conn' = IF should_keep_alive THEN "read" ELSE "accept"
  /\ UNCHANGED <<client, chain, parserVars, unread, consumed, cur, runVars>>

\* The head of a streamed response; its handler then runs on the socket.
StreamHead ==
  /\ conn = "respond" /\ resp.stream
  /\ Write(Entry("head", resp.status, should_keep_alive))
  /\ conn' = "streaming"
  /\ UNCHANGED <<client, chain, handled, parserVars, unread, consumed, cur, runVars>>

\* The stream handler returned and the last chunk was written.
StreamEnd ==
  /\ conn = "streaming"
  /\ out' = [out EXCEPT ![Len(out)].kind = "answer"]
  /\ handled' = handled + 1
  /\ conn' = IF should_keep_alive THEN "read" ELSE "accept"
  /\ UNCHANGED <<client, chain, parserVars, unread, consumed, cur, runVars>>

\* write_timeout, a reset, or a stream handler that throws.
AnswerFails ==
  /\ conn \in {"respond", "streaming"}
  /\ conn' = "failed"
  /\ UNCHANGED <<client, chain, handled, out, parserVars, unread, consumed, cur, runVars>>

\* send_internal_error; a second failure is swallowed.
InternalError ==
  /\ conn = "failed"
  /\ \/ Write(Entry("error", 500, FALSE)) \/ UNCHANGED out
  /\ conn' = "accept"
  /\ UNCHANGED <<client, chain, handled, parserVars, unread, consumed, cur, runVars>>

WebNext ==
  \/ Accept \/ NextRequest \/ ReadEnd \/ ReadFails
  \/ \E n \in 1..Len(unread) : ReadSome(n)
  \/ Enter \/ Route \/ Unwind \/ Unwound
  \/ Answer \/ StreamHead \/ StreamEnd \/ AnswerFails \/ InternalError

----------------------------------------------------------------------------
\* The answers of a connection are those of its requests, one each and in
\* their order, never more than max_keep_alive_requests; only a response that
\* said keep-alive is followed by another one, and the 500 that the loop adds
\* (app.cpp:361), possibly after the head of a stream it cuts off, is the last
\* thing a client is sent.
AnswersInOrder ==
  \A n \in DOMAIN out :
    /\ out[n].kind # "error" => out[n].for = n /\ (n > 1 => n <= MaxKeepAlive)
    /\ n < Len(out) => \/ out[n].kind = "answer" /\ out[n].keep
                       \/ /\ out[n].kind = "head" /\ n + 1 = Len(out)
                          /\ out[n + 1].kind = "error" /\ out[n + 1].for = n

\* However the client's bytes are cut into reads, none is lost and none is read
\* twice between two requests of a connection: what was served, what is ready,
\* what is pending and what is still to come are the client's bytes
\* (parser.cpp:219, 460).
BytesConserved ==
  client > 0 /\ conn \in {"read", "chain", "unwind", "respond", "streaming"} =>
    FlattenSeq([k \in 1..cur |-> BytesOf(client, k)])
      \o FlattenSeq([n \in DOMAIN ready |-> BytesOf(client, ready[n])])
      \o pending \o unread = AllBytes(client)

\* design.md:381: a request over a limit is answered with the status of that
\* limit (431, 414, 413).
LimitStatus ==
  \A n \in DOMAIN out :
    out[n].for > 0 /\ Message(out[n].for).over # 0 => out[n].status = Message(out[n].for).over
=============================================================================
