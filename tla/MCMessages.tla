----------------------------- MODULE MCMessages -----------------------------
(***************************************************************************)
(* The mailbox and the message bus for TLC, with fairness: a behaviour is  *)
(* one of the mailbox (the bus is at rest) or one of the bus.  Liveness is *)
(* checked, so there is no symmetry.                                       *)
(***************************************************************************)
EXTENDS Mailbox

CONSTANTS Msg, Sub, TopicCap, SubCap, None

VARIABLES part, shut, topic, closing, topicClosed, registered, doomed, victim, ingress, disp,
          payload, target, todo, pub, sub, subClosed, subClosing, egress, next, seen, log, late

busVars == <<shut, topic, closing, topicClosed, registered, doomed, victim, ingress, disp,
             payload, target, todo, pub, sub, subClosed, subClosing, egress, next, seen, log,
             late>>

Bus == INSTANCE MessageBus

MCInit == Init /\ Bus!Init /\ part \in {"mailbox", "bus"}

MCNext ==
  /\ UNCHANGED part
  /\ \/ part = "mailbox" /\ Next /\ UNCHANGED busVars
     \/ part = "bus" /\ Bus!Next /\ UNCHANGED vars

\* Nothing that is fair is enabled in the part at rest.
MCSpec == MCInit /\ [][MCNext]_<<part, vars, busVars>> /\ Fairness /\ Bus!Fairness

\* Every call of the mailbox returns: a recv() once the mailbox is closed, a
\* send on a full or a closed mailbox too (message.h:730, 787).
MailboxCallsReturn == CloseEndsRecv /\ SendReturns

\* A slow subscriber delays the topic and its publishers, it does not stop
\* them; one that is closed while the fan-out waits on its full channel does
\* (message.h:255, 269).
BusMovesOn == Bus!FanOutResumes /\ Bus!PublishReturns
=============================================================================
