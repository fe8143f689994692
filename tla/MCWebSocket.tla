---------------------------- MODULE MCWebSocket ----------------------------
(***************************************************************************)
(* The WebSocket server and the WebSocket client, one at a time over the   *)
(* same sessions: `part` says which of the two a behaviour is about.       *)
(***************************************************************************)
EXTENDS WsServer, WsClient, TLC

VARIABLE part

vars == <<part, sessVars, serverVars, clientVars>>

MCInit ==
  /\ SessionInit /\ ServerInit /\ ClientInit
  /\ part \in {"server", "client"}

ServerPart == part = "server" /\ ServerNext /\ UNCHANGED <<part, clientVars>>
ClientPart == part = "client" /\ ClientNext /\ UNCHANGED <<part, serverVars>>

MCNext == ServerPart \/ ClientPart

MCSpec == MCInit /\ [][MCNext]_vars

Swaps == Permutations(Connectors)

\* A session that runs is one its owner can still reach or one that some
\* thread is ending: stop() leaves no connection behind however it meets the
\* accept thread (ws.cpp:540), and the late close of an old connection never
\* makes a client lose its new one (ws.cpp:612, 1041).
NoOrphanSession ==
  \A i \in Ids :
    sess[i].opened /\ ~sess[i].stopped =>
      Ending(i) \/ IF part = "server" THEN ServerOwns(i) ELSE ClientOwns(i)

Has(t, i, steps) ==
  thread[t].id = i /\ \E n \in DOMAIN thread[t].todo : thread[t].todo[n] \in steps

\* A server's table never keeps a dead connection: whatever is listed and not
\* yet reported is watched by its reader, and once its transport is stopped
\* (by a failed send(), by close(), by the reader itself) some thread is on
\* its way to take it out of the table (ws.cpp:391, 202, 218).
DeadIsUnlisted ==
  \A i \in connections :
    \/ \E t \in Threads : Has(t, i, {"unlist"})
    \/ /\ ~sess[i].reported
       /\ \/ \E t \in Threads : Has(t, i, {"report"})
          \/ Has(Reader(i), i, {"read"})
          \/ /\ ~sess[i].stopped
             /\ (accept.id = i /\ ~sess[i].opened) \/ thread[Reader(i)].todo # <<>>

\* The inductive invariant of whichever of the two it is; a client has no table.
PartInv == IF part = "server" THEN ServerInv ELSE ClientInv /\ connections = {}
=============================================================================
