---------------------------- MODULE HttpBuilder ----------------------------
(***************************************************************************)
(* Client::RequestBuilder and the part of execute_async that settles what  *)
(* the builder collected (layer2/src/http.cpp).  Bodies are abstracted to  *)
(* their presence, headers to the two names the builder cares about.       *)
(***************************************************************************)
EXTENDS Naturals, Sequences

CONSTANTS MaxParts,     \* bound on the multipart parts of a request
          MaxTypes,     \* bound on the Content-Type headers of a request
          DefaultTypes  \* Content-Type headers of Config::default_headers

MimeOf == [json |-> "application/json", xml |-> "application/xml",
           form |-> "application/x-www-form-urlencoded", text |-> "text/plain",
           binary |-> "application/octet-stream"]
Mimes == {MimeOf[format] : format \in DOMAIN MimeOf}

ASSUME BuilderAssumption == MaxParts \in Nat /\ DefaultTypes \in Seq(Mimes)

VARIABLES request,  \* the Request under construction
          phase,    \* "building", "sent" or "refused"
          wire      \* what was sent: the body and the headers that count

builderVars == <<request, phase, wire>>

NoFormat == "none"

BuilderInit ==
  /\ request = [body |-> FALSE, parts |-> 0, method |-> "POST",
                request_format |-> NoFormat, response_format |-> NoFormat,
                types |-> <<>>, accept |-> NoFormat]
  /\ phase = "building"
  /\ wire = [body |-> "none", type |-> NoFormat, accept |-> NoFormat]

\* set_header_if_absent.
TypeIfAbsent(types, format) ==
  IF types # <<>> \/ format = "multipart" THEN types ELSE <<MimeOf[format]>>
AcceptIfAbsent(accept, format) == IF accept # NoFormat THEN accept ELSE MimeOf[format]

Build(new) == phase = "building" /\ request' = new /\ UNCHANGED <<phase, wire>>

\* header("Content-Type", ...).
HeaderType(format) ==
  /\ Len(request.types) < MaxTypes
  /\ Build([request EXCEPT !.types = Append(@, MimeOf[format])])

SetMethod(method) == Build([request EXCEPT !.method = method])

Body == Build([request EXCEPT !.body = TRUE, !.request_format = "text"])

\* json, xml, form_urlencoded.
Typed(format) ==
  Build([request EXCEPT !.body = TRUE,
                        !.request_format = format, !.response_format = format,
                        !.types = TypeIfAbsent(@, format),
                        !.accept = AcceptIfAbsent(@, format)])

\* form_data, form_file, form_binary, multipart.
Part ==
  /\ request.parts < MaxParts
  /\ Build([request EXCEPT !.parts = @ + 1,
                           !.request_format = "multipart", !.response_format = "json",
                           !.accept = AcceptIfAbsent(@, "json")])

RequestFormat(format) ==
  Build([request EXCEPT !.request_format = format, !.types = TypeIfAbsent(@, format)])

ResponseFormat(format) ==
  Build([request EXCEPT !.response_format = format,
                        !.accept = AcceptIfAbsent(@, format)])

Effective ==
  IF request.request_format # NoFormat THEN request.request_format
  ELSE IF request.parts > 0 THEN "multipart" ELSE "text"

\* Mutant: parts beside a body or another format are let through.
RefusedMixed ==
  \/ Effective = "multipart" /\ request.parts = 0
  \/ request.parts > 0 /\ request.method \notin {"POST", "PUT"}

\* The checks of execute_async, in their order; all throw invalid_request.
Refused ==
  \/ request.parts > 0 /\ request.body
  \/ Effective = "multipart" /\ request.parts = 0
  \/ Effective # "multipart" /\ request.parts > 0
  \/ request.parts > 0 /\ request.method \notin {"POST", "PUT"}

Replaced(types, mime) ==
  IF types = <<>> THEN <<mime>> ELSE [types EXCEPT ![1] = mime]

\* The final Content-Type headers: the defaults of the client, those of the
\* request, the one of the format if there is none, the one with the boundary.
FinalTypes(types) ==
  LET all == TypeIfAbsent(types, Effective)
  IN IF request.parts > 0 THEN Replaced(all, "multipart/form-data") ELSE all

\* What goes out: Beast keeps the last header of a name.
Wire ==
  LET types == FinalTypes(DefaultTypes \o request.types)
  IN [body |-> IF request.parts > 0 THEN "parts"
               ELSE IF request.body THEN "plain" ELSE "none",
      type |-> types[Len(types)],
      accept |-> AcceptIfAbsent(request.accept,
                   IF request.response_format = NoFormat THEN "json"
                   ELSE request.response_format)]

\* send(), then execute_async.
Send ==
  /\ phase = "building"
  /\ IF Refused THEN phase' = "refused" /\ UNCHANGED wire
                ELSE phase' = "sent" /\ wire' = Wire
  /\ UNCHANGED request

BuilderNext ==
  \/ Body \/ Part \/ Send
  \/ \E format \in {"json", "xml", "form"} : Typed(format)
  \/ \E format \in DOMAIN MimeOf : HeaderType(format)
  \/ \E format \in DOMAIN MimeOf \cup {"multipart"} : RequestFormat(format)
  \/ \E format \in {"json", "xml", "form", "text"} : ResponseFormat(format)
  \/ \E method \in {"GET", "POST", "PUT"} : SetMethod(method)

BuilderSpec == BuilderInit /\ [][BuilderNext]_builderVars
----------------------------------------------------------------------------
\* In whatever order the builder is used, what is sent is of one kind: the
\* parts of a multipart request travel under the multipart Content-Type, and a
\* body that was set is never sent in their place (http.cpp:1009, 1040).
\* Assumed: one Content-Type header at most; with two the replaced one is the
\* first and the one that counts is the last.
PartsMeanMultipart ==
  phase = "sent" /\ Len(DefaultTypes \o request.types) <= 1 =>
    /\ (wire.type = "multipart/form-data") = (request.parts > 0)
    /\ (wire.body = "parts") = (request.parts > 0)
    /\ request.body => wire.body = "plain"

Formats == DOMAIN MimeOf \cup {NoFormat, "multipart"}
RequestType ==
  [body : BOOLEAN, parts : Nat, method : {"GET", "POST", "PUT"}, request_format : Formats,
   response_format : Formats, types : Seq(Mimes), accept : Mimes \cup {NoFormat}]

\* The inductive invariant: nothing is built once the request is sent, and what
\* was sent passed the checks.
BuilderInv == request \in RequestType /\ (phase = "sent" => ~Refused /\ wire = Wire)
============================================================================
