----------------------------- MODULE HttpParser -----------------------------
(***************************************************************************)
(* flux::http::HttpParser in request mode (layer2/src/parser.cpp): bytes   *)
(* come in chunks of any size, whole messages go out.                      *)
(*                                                                         *)
(* A message is a record of Sends; on the wire it is the bytes <<k, 1>>,   *)
(* ..., <<k, size>>, of which the first `head` are its start line and its  *)
(* headers up to the empty line.                                           *)
(***************************************************************************)
EXTENDS Naturals, Sequences, SequencesExt

CONSTANT Sends  \* what each client sends: a sequence of sequences of messages

VARIABLES client,   \* the connection being served: an index of Sends
          pending,  \* pending_
          ready     \* ready_: the indices of the messages

parserVars == <<pending, ready>>

Message(k) == Sends[client][k]
BytesOf(c, k) == [i \in 1..Sends[c][k].size |-> <<k, i>>]
AllBytes(c) == FlattenSeq([k \in DOMAIN Sends[c] |-> BytesOf(c, k)])

\* try_parse_message: nothing is judged before the empty line has come; then
\* the start line and the headers are, and Beast is given all there is.  A
\* message that Beast refuses is not `done` and waits as an incomplete one.
TryParse(bytes) ==
  LET m == Message(bytes[1][1])
  IN IF bytes = <<>> THEN "more"
     ELSE IF Len(bytes) < m.head THEN "more"
     ELSE IF m.bad_header THEN "error"
     ELSE IF m.malformed \/ Len(bytes) < m.size THEN "more" ELSE "message"

RECURSIVE ParseAllGreedy(_, _)

\* Mutant: a message takes all the bytes with it.
ParseAllGreedy(bytes, found) ==
  IF TryParse(bytes) = "message"
  THEN ParseAllGreedy(<<>>, Append(found, bytes[1][1]))
  ELSE [pending |-> bytes, ready |-> found, failed |-> TryParse(bytes) = "error"]

\* The loop of feed, with the erase of what a message consumed.
RECURSIVE ParseAll(_, _)
ParseAll(bytes, found) ==
  IF TryParse(bytes) = "message"
  THEN LET k == bytes[1][1]
       IN ParseAll(SubSeq(bytes, Message(k).size + 1, Len(bytes)), Append(found, k))
  ELSE [pending |-> bytes, ready |-> found, failed |-> TryParse(bytes) = "error"]

\* feed(chunk): `failed` is the ParseError it throws.
Fed(chunk) == ParseAll(pending \o chunk, ready)
=============================================================================
