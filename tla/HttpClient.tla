---------------------------- MODULE HttpClient -----------------------------
(***************************************************************************)
(* flux::http::Client of layer2/src/http.cpp: execute() and its retries,   *)
(* execute_async() with the interceptors, the redirect loop of             *)
(* execute_with_beast_blocking(), and download_to_file() on top of them.   *)
(*                                                                         *)
(* The server may answer anything and may lose its answer; a resource is   *)
(* the sequence Entity of pieces, so that a range request has a meaning.   *)
(***************************************************************************)
EXTENDS Naturals, Sequences

CONSTANTS Calls,         \* the calls to make: see CallType
          MaxRedirects,  \* max_redirects of BeastExecRequest
          Entity,        \* what the url holds
          Old,           \* what the output file held before the download
          Parts          \* contents a .part file may be left with

VARIABLES call,      \* the call, its policy and the client's configuration
          pc,        \* where the call is
          attempt,   \* attempt of Client::execute
          now,       \* the current method, body and redirect count
          sent,      \* every exchange, oldest first
          streamed,  \* what on_chunk was given since the builder was made
          told,      \* the interceptors called in this attempt
          answer,    \* the response or the error at hand
          temp, output, offset, run   \* download_to_file
httpVars == <<call, pc, attempt, now, sent, streamed, told, answer,
              temp, output, offset, run>>

CallType == [kind : {"execute", "download"}, method : {"GET", "POST"},
             valid : {"ok", "early", "late"}, max_attempts : 0..3, idempotent_only : BOOLEAN,
             on_5xx : BOOLEAN, throws : BOOLEAN, follow : BOOLEAN,
             noisy : BOOLEAN,    \* error and redirect responses carry bodies
             resume : BOOLEAN, use_temp : BOOLEAN, overwrite : BOOLEAN]

ASSUME HttpAssumption == Calls \subseteq CallType /\ MaxRedirects \in Nat

None == [kind |-> "none", status |-> 0]
Fresh(c) == [method |-> c.method, body |-> c.method = "POST", hops |-> 0]
Absent == <<0>>   \* a file that does not exist

\* A .part file is what an earlier download of the same resource left behind.
ASSUME FilesAssumption ==
  /\ Entity \in Seq(Nat) /\ Old \in Seq(Nat)
  /\ \A part \in Parts : part = Absent \/ \E n \in 0..Len(Entity) : part = SubSeq(Entity, 1, n)

HttpInit ==
  /\ call \in Calls
  /\ pc = IF call.kind = "download" THEN "stat" ELSE "attempt"
  /\ attempt = 1 /\ now = Fresh(call)
  /\ sent = <<>> /\ streamed = <<>> /\ told = <<>> /\ answer = None
  /\ temp \in IF call.kind = "download" THEN Parts ELSE {Absent}
  /\ output \in IF call.kind = "download" THEN {Absent, Old} ELSE {Absent}
  /\ offset = 0 /\ run = 0

file == <<temp, output, offset, run>>

\* execute_async up to the blocking call: the runtime and the url are checked,
\* interceptors see the request, headers, format, body and proxy are settled.
Attempt ==
  /\ pc = "attempt"
  /\ now' = Fresh(call)
  /\ told' = IF call.valid = "early" THEN <<>> ELSE <<"request">>
  /\ IF call.valid = "ok"
     THEN pc' = "hop" /\ UNCHANGED answer
     ELSE pc' = "error" /\ answer' = [kind |-> "invalid", status |-> 0]
  /\ UNCHANGED <<call, attempt, sent, streamed>> /\ UNCHANGED file

RangeFrom == IF run = 1 THEN offset ELSE 0

\* What a server that knows the resource may answer.
Rest(from) == SubSeq(Entity, from + 1, Len(Entity))
Payload(status) ==
  CASE status = 200 -> Entity
    [] status = 206 -> Rest(RangeFrom)
    [] OTHER        -> IF call.noisy THEN <<status>> ELSE <<>>
Statuses ==
  (IF call.kind = "download" /\ RangeFrom > 0
   THEN IF RangeFrom < Len(Entity) THEN {200, 206} ELSE {200, 416}
   ELSE {200}) \cup {302, 303, 307, 404, 503}
Redirects == {302, 303, 307}

Exchange(ok) == [method |-> now.method, body |-> now.body, ok |-> ok]

\* A transport error: before the request reached the server or after.
ExchangeFails(kind) ==
  /\ pc = "hop"
  /\ sent' = Append(sent, Exchange(FALSE))
  /\ answer' = [kind |-> kind, status |-> 0]
  /\ pc' = "error"
  /\ UNCHANGED <<call, attempt, now, streamed, told>> /\ UNCHANGED file

\* should_switch_to_get_on_redirect.
SwitchToGet(status, method) ==
  status = 303 \/ (status \in {301, 302} /\ method = "POST")

\* A response: the chunk goes to on_chunk, then the redirect is followed, or
\* refused after max_redirects, or the response is the result.
ExchangeAnswers(status, location) ==
  /\ pc = "hop" /\ status \in Statuses /\ (location => status \in Redirects)
  /\ sent' = Append(sent, Exchange(TRUE))
  /\ streamed' = streamed \o Payload(status)
  /\ \/ /\ ~call.follow \/ status \notin Redirects \/ ~location
        /\ answer' = [kind |-> "response", status |-> status]
        /\ pc' = "response" /\ UNCHANGED now
     \/ /\ call.follow /\ status \in Redirects /\ location
        /\ now.hops >= MaxRedirects
        /\ answer' = [kind |-> "redirects", status |-> 0]
        /\ pc' = "error" /\ UNCHANGED now
     \/ /\ call.follow /\ status \in Redirects /\ location
        /\ now.hops < MaxRedirects
        /\ now' = IF SwitchToGet(status, now.method)
                  THEN [method |-> "GET", body |-> FALSE, hops |-> now.hops + 1]
                  ELSE [now EXCEPT !.hops = @ + 1]
        /\ UNCHANGED <<pc, answer>>
  /\ UNCHANGED <<call, attempt, told>> /\ UNCHANGED file

\* Back on the loop: response interceptors, then the status is judged.
Respond ==
  /\ pc = "response"
  /\ told' = Append(told, "response")
  /\ IF call.throws /\ answer.status \notin 200..299
     THEN pc' = "error" /\ answer' = [answer EXCEPT !.kind = "status"]
     ELSE pc' = "value" /\ UNCHANGED answer
  /\ UNCHANGED <<call, attempt, now, sent, streamed>> /\ UNCHANGED file

\* Mutant: retry_idempotent_only is not looked at.
ShouldRetryAnyMethod ==
  /\ attempt + 1 <= call.max_attempts
  /\ \/ answer.kind = "status" /\ call.on_5xx /\ answer.status \in 500..599
     \/ answer.kind \in {"timeout", "dns", "connect", "reset"}

\* should_retry_error, for the next attempt.
ShouldRetry ==
  /\ attempt + 1 <= call.max_attempts
  /\ call.idempotent_only => call.method \in {"GET", "HEAD", "PUT", "DELETE", "OPTIONS"}
  /\ \/ answer.kind = "status" /\ call.on_5xx /\ answer.status \in 500..599
     \/ answer.kind \in {"timeout", "dns", "connect", "reset"}

\* The catch of execute_async, then the catch of execute and its backoff.
Fail ==
  /\ pc = "error"
  /\ told' = Append(told, "error")
  /\ IF ShouldRetry
     THEN pc' = "attempt" /\ attempt' = attempt + 1
     ELSE pc' = "threw" /\ UNCHANGED attempt
  /\ UNCHANGED <<call, now, sent, streamed, answer>> /\ UNCHANGED file

ClientStep ==
  \/ Attempt \/ Respond \/ Fail
  \/ \E kind \in {"timeout", "connect", "tls"} : ExchangeFails(kind)
  \/ \E status \in {200, 206, 302, 303, 307, 404, 416, 503},
        location \in BOOLEAN : ExchangeAnswers(status, location)

----------------------------------------------------------------------------
(* download_to_file.  Without use_temp_file the "temporary" file is the    *)
(* output itself.                                                          *)

TempFile == IF call.use_temp THEN temp ELSE output
WriteTemp(content) ==
  IF call.use_temp THEN temp' = content /\ UNCHANGED output
                   ELSE output' = content /\ UNCHANGED temp

\* A run of run_once starts with an empty `streamed` and a fresh execute().
RunOnce(n, from) ==
  /\ run' = n /\ offset' = from
  /\ attempt' = 1 /\ streamed' = <<>> /\ pc' = "attempt"

DownloadStat ==
  /\ pc = "stat"
  /\ RunOnce(1, IF call.resume /\ TempFile # Absent THEN Len(TempFile) ELSE 0)
  /\ UNCHANGED <<call, now, sent, told, answer, temp, output>>

\* run_once opens the file (append or truncate), writes and closes it.
DownloadWrite ==
  /\ pc = "value" /\ call.kind = "download"
  /\ WriteTemp(IF run = 1 /\ offset > 0 THEN TempFile \o streamed ELSE streamed)
  /\ pc' = "written"
  /\ UNCHANGED <<call, attempt, now, sent, streamed, told, answer, offset, run>>

\* A write that fails half way leaves a part of what was streamed.
DownloadWriteFails ==
  /\ pc = "value" /\ call.kind = "download" /\ streamed # <<>>
  /\ WriteTemp((IF run = 1 /\ offset > 0 THEN TempFile ELSE <<>>) \o <<Head(streamed)>>)
  /\ pc' = "threw"
  /\ UNCHANGED <<call, attempt, now, sent, streamed, told, answer, offset, run>>

\* Mutant: a range the server ignored is taken as honoured.
DownloadIgnoresRange ==
  /\ pc = "written" /\ pc' = "rename"
  /\ UNCHANGED <<call, attempt, now, sent, streamed, told, answer>> /\ UNCHANGED file

\* The server ignored the range: everything is fetched again.
DownloadWritten ==
  /\ pc = "written"
  /\ IF run = 1 /\ offset > 0 /\ answer.status = 200
     THEN RunOnce(2, offset)
     ELSE pc' = "rename" /\ UNCHANGED <<run, offset, attempt, streamed>>
  /\ UNCHANGED <<call, now, sent, told, answer, temp, output>>

\* exists(output), remove(output).
DownloadReplace ==
  /\ pc = "rename"
  /\ \/ ~call.use_temp /\ pc' = "done" /\ UNCHANGED output
     \/ call.use_temp /\ output = Absent /\ pc' = "move" /\ UNCHANGED output
     \/ /\ call.use_temp /\ output # Absent
        /\ IF call.overwrite THEN pc' = "move" /\ output' = Absent
                             ELSE pc' = "threw" /\ UNCHANGED output
  /\ UNCHANGED <<call, attempt, now, sent, streamed, told, answer, temp, offset, run>>

DownloadMove ==
  /\ pc = "move"
  /\ output' = temp /\ temp' = Absent /\ pc' = "done"
  /\ UNCHANGED <<call, attempt, now, sent, streamed, told, answer, offset, run>>

HttpNext ==
  \/ ClientStep
  \/ DownloadStat \/ DownloadWrite \/ DownloadWriteFails \/ DownloadWritten
  \/ DownloadReplace \/ DownloadMove

HttpSpec == HttpInit /\ [][HttpNext]_httpVars

----------------------------------------------------------------------------
\* A request that must not be repeated is not repeated after an exchange whose
\* outcome is unknown, whichever redirects and retries surround it: with
\* retry_idempotent_only a failed exchange of a POST is the last of the call
\* (http.cpp:233, 1293).
NoBlindRepeat ==
  call.idempotent_only /\ call.method = "POST" =>
    \A n \in DOMAIN sent : ~sent[n].ok => n = Len(sent)

Whole(content) == content = Entity

\* With a temporary file the output is at every moment the old file or the
\* whole new one; it is missing only while the whole new one waits to be
\* renamed (http.cpp:1391).  Assumed: the .part file is a prefix of the same
\* resource, and responses that are not the last have no bodies: on_chunk is
\* given those too (http.cpp:804), and `streamed` keeps them.
OldOrNew ==
  call.kind = "download" /\ call.use_temp /\ call.throws /\ ~call.noisy =>
    \/ output = Old
    \/ Whole(output)
    \/ output = Absent /\ (pc = "move" => Whole(temp))
----------------------------------------------------------------------------
(* The inductive invariant.                                                *)

AnswerType ==
  [kind : {"none", "invalid", "timeout", "connect", "tls", "redirects", "response", "status"},
   status : Nat]

HttpTypeOK ==
  /\ call \in CallType
  /\ sent \in Seq([method : {"GET", "POST"}, body : BOOLEAN, ok : BOOLEAN])
  /\ now.method \in {"GET", "POST"} /\ now.body \in BOOLEAN
  /\ answer \in AnswerType
  /\ temp \in Seq(Nat) /\ output \in Seq(Nat) /\ streamed \in Seq(Nat)
  /\ run \in 0..2 /\ offset \in Nat

\* After a failed exchange of a request that must not be repeated the call is
\* on its way out.
RepeatInv ==
  call.idempotent_only /\ call.method = "POST" =>
    \A n \in DOMAIN sent : ~sent[n].ok => n = Len(sent) /\ pc \in {"error", "threw"}

\* Under the assumptions of OldOrNew `streamed` is the payload of the response
\* at hand and nothing else, the .part file is the prefix that the range of the
\* first run leaves out, and what is renamed is whole.
DownloadInv ==
  call.kind = "download" /\ call.use_temp /\ call.throws /\ ~call.noisy =>
    /\ pc = "stat" => temp \in Parts
    /\ pc \in {"stat", "attempt", "hop", "error"} => streamed = <<>>
    /\ pc \in {"response", "value"} =>
         answer.status \in Statuses /\ streamed = Payload(answer.status)
    /\ pc = "value" => answer.status \in 200..299
    /\ run = 1 /\ offset > 0 /\ pc \in {"attempt", "hop", "response", "value", "error"} =>
         offset <= Len(Entity) /\ temp = SubSeq(Entity, 1, offset)
    /\ pc = "written" => (run = 1 /\ offset > 0 /\ answer.status = 200) \/ Whole(temp)
    /\ pc \in {"rename", "move"} => Whole(temp)

HttpInv == HttpTypeOK /\ RepeatInv /\ DownloadInv /\ OldOrNew
=============================================================================
