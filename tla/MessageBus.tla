----------------------------- MODULE MessageBus -----------------------------
(***************************************************************************)
(* flux::MessageBus with one topic name.  Publishers send into the topic's *)
(* ingress channel; a dispatcher receives one message at a time and sends  *)
(* it to the egress channel of each subscriber in turn; subscribers        *)
(* receive from their egress channel.  close_topic(), close() of the bus   *)
(* and close() of a subscription come at any moment.                       *)
(*                                                                         *)
(* Both channels are Asio concurrent_channels.  A send on an open channel  *)
(* goes to a waiting receiver, into the buffer, or waits.  close() ends    *)
(* the waiting receivers; it leaves the buffer to be received and leaves   *)
(* the waiting senders alone: they complete when a receive makes room.     *)
(*                                                                         *)
(* A message stands for the one call that publishes it.                    *)
(***************************************************************************)
EXTENDS Integers, Sequences, FiniteSets, Functions

CONSTANTS
  Msg,           \* calls of publish, sync_publish[_for], async_publish
  Sub,           \* calls of subscribe()
  TopicCap,      \* options.topic_capacity
  SubCap,        \* options.subscription_capacity
  None           \* no message, no subscriber

ASSUME BusAssumption ==
  /\ TopicCap \in Nat \ {0}
  /\ SubCap \in Nat \ {0}
  /\ None \notin Msg \cup Sub

VARIABLES
  shut,         \* the bus is closed, or the name is in closed_topics
  topic,        \* the name in State::topics: "none", "mapped", "erased"
  closing,      \* where the call that closes the TopicState is
  topicClosed,  \* TopicState::closed
  registered,   \* TopicState::subscribers
  doomed,       \* the list close_subscribers took
  victim,       \* the subscriber of that list being closed
  ingress,      \* open, buf and senders of the ingress channel
  disp,         \* where the dispatcher is
  payload,      \* the message it fans out
  target,       \* the subscriber it is sending to
  todo,         \* the subscribers it has still to send to
  pub,          \* where each publish is, or its result
  sub,          \* where each subscribe and its Subscription are
  subClosed,    \* SubscriberState::closed
  subClosing,   \* subscriptions whose close() has marked them, no more
  egress,       \* open and buf of each egress channel
  next,         \* where the next() of each subscription is
  seen,         \* history: the messages received from each egress channel
  log,          \* history: the messages the ingress channel took, in order
  late          \* history: subscribers added after close_subscribers

busVars   == <<shut, topic, closing>>
topicVars == <<topicClosed, registered, doomed, victim>>
dispVars  == <<disp, payload, target, todo>>
inVars    == <<ingress, pub, log>>
subVars   == <<sub, subClosed, subClosing, late>>
outVars   == <<egress, next, seen>>
vars == <<busVars, topicVars, dispVars, inVars, subVars, outVars>>

Published == {"true", "false", "stopped"}

Init ==
  /\ shut = "no" /\ topic = "none" /\ closing = "no"
  /\ topicClosed = FALSE /\ registered = {} /\ doomed = {} /\ victim = None
  /\ disp = "none" /\ payload = None /\ target = None /\ todo = {}
  /\ ingress = [open |-> TRUE, buf |-> <<>>, senders |-> <<>>]
  /\ pub = [m \in Msg |-> "idle"] /\ log = <<>>
  /\ sub = [s \in Sub |-> "none"]
  /\ subClosed = [s \in Sub |-> FALSE] /\ subClosing = {} /\ late = {}
  /\ egress = [s \in Sub |-> [open |-> TRUE, buf |-> <<>>]]
  /\ next = [s \in Sub |-> "idle"]
  /\ seen = [s \in Sub |-> <<>>]

(***************************************************************************)
(* get_or_create_topic                                                     *)
(***************************************************************************)

Refuses == shut # "no"

\* Under topics_mutex the name is found or a TopicState made for it; then the
\* first caller starts the dispatcher.  A TopicState once erased is not found
\* again: the name stays in closed_topics, or the bus is closed.
GetOrCreateTopic ==
  /\ ~Refuses
  /\ topic' = "mapped"
  /\ disp' = IF disp = "none" THEN "receive" ELSE disp

(***************************************************************************)
(* Publishing: publish, and what its four wrappers make of it              *)
(***************************************************************************)

PublishRefused(m) ==
  /\ pub[m] = "idle"
  /\ Refuses
  /\ pub' = [pub EXCEPT ![m] = "false"]
  /\ UNCHANGED <<busVars, topicVars, dispVars, ingress, log, subVars, outVars>>

Publish(m) ==
  /\ pub[m] = "idle"
  /\ GetOrCreateTopic
  /\ pub' = [pub EXCEPT ![m] = "found"]
  /\ UNCHANGED <<shut, closing, topicVars, payload, target, todo, ingress, log,
                 subVars, outVars>>

\* The look at topic->closed, which may have been taken any time since, and
\* ingress.async_send: the topic is closed by the look or by the send, ...
SendFails(m) ==
  /\ pub[m] = "found"
  /\ topicClosed
  /\ pub' = [pub EXCEPT ![m] = "false"]
  /\ UNCHANGED <<busVars, topicVars, dispVars, ingress, log, subVars, outVars>>

\* A publish whose message is in the channel returns true.  (A timeout that
\* comes before the completion is delivered makes the caller see false; the
\* message is in the channel all the same, so this is no other state.)
Complete(m) == pub' = [pub EXCEPT ![m] = "true"]

\* ... or the message goes to the waiting dispatcher, into the buffer, or waits.
SendHands(m) ==
  /\ pub[m] = "found"
  /\ ingress.open
  /\ disp = "waiting"
  /\ disp' = "handle"
  /\ payload' = m
  /\ Complete(m)
  /\ log' = Append(log, m)
  /\ UNCHANGED <<busVars, topicVars, target, todo, ingress, subVars, outVars>>

SendBuffers(m) ==
  /\ pub[m] = "found"
  /\ ingress.open
  /\ disp # "waiting"
  /\ Len(ingress.buf) < TopicCap
  /\ ingress' = [ingress EXCEPT !.buf = Append(@, m)]
  /\ Complete(m)
  /\ log' = Append(log, m)
  /\ UNCHANGED <<busVars, topicVars, dispVars, subVars, outVars>>

SendWaits(m) ==
  /\ pub[m] = "found"
  /\ ingress.open
  /\ Len(ingress.buf) >= TopicCap
  /\ ingress' = [ingress EXCEPT !.senders = Append(@, m)]
  /\ pub' = [pub EXCEPT ![m] = "pending"]
  /\ UNCHANGED <<busVars, topicVars, dispVars, log, subVars, outVars>>

\* The timeout of sync_publish_for, or a cancellation, takes a waiting send
\* back.
PublishStopped(m) ==
  /\ pub[m] = "pending"
  /\ \E k \in DOMAIN ingress.senders :
       /\ ingress.senders[k] = m
       /\ ingress' = [ingress EXCEPT !.senders = SubSeq(@, 1, k - 1) \o SubSeq(@, k + 1, Len(@))]
  /\ pub' = [pub EXCEPT ![m] = "stopped"]
  /\ UNCHANGED <<busVars, topicVars, dispVars, log, subVars, outVars>>

(***************************************************************************)
(* The dispatcher                                                          *)
(***************************************************************************)

\* Mutant: a sender that waited stays in the queue of senders.
ReceiveTwice ==
  /\ disp = "receive"
  /\ ingress.buf # <<>>
  /\ disp' = "handle"
  /\ payload' = Head(ingress.buf)
  /\ IF ingress.senders = <<>>
     THEN /\ ingress' = [ingress EXCEPT !.buf = Tail(@)]
          /\ UNCHANGED <<pub, log>>
     ELSE LET m == Head(ingress.senders)
          IN  /\ ingress' = [ingress EXCEPT !.buf = Append(Tail(@), m)]
              /\ Complete(m)
              /\ log' = Append(log, m)
  /\ UNCHANGED <<busVars, topicVars, target, todo, subVars, outVars>>

\* start_dispatch_loop: ingress.async_receive.
ReceiveBuffered ==
  /\ disp = "receive"
  /\ ingress.buf # <<>>
  /\ disp' = "handle"
  /\ payload' = Head(ingress.buf)
  /\ IF ingress.senders = <<>>
     THEN /\ ingress' = [ingress EXCEPT !.buf = Tail(@)]
          /\ UNCHANGED <<pub, log>>
     ELSE LET m == Head(ingress.senders)
          IN  /\ ingress' = [ingress EXCEPT !.buf = Append(Tail(@), m),
                                            !.senders = Tail(@)]
              /\ Complete(m)
              /\ log' = Append(log, m)
  /\ UNCHANGED <<busVars, topicVars, target, todo, subVars, outVars>>

\* The channel is closed and drained: the handler calls close_topic, which
\* finds the topic closed already.
ReceiveWaits ==
  /\ disp = "receive"
  /\ ingress.buf = <<>>
  /\ disp' = IF ingress.open THEN "waiting" ELSE "ended"
  /\ UNCHANGED <<busVars, topicVars, payload, target, todo, inVars, subVars,
                 outVars>>

\* weak_ptr::lock succeeds: there is a Subscription, or the dispatcher has
\* still to do with the subscriber.
Lock(s) == sub[s] # "dropped" \/ s \in todo \cup {target}

\* collect_subscribers also forgets those whose Subscription is gone.
Collect ==
  /\ disp = "handle"
  /\ disp' = "fan"
  /\ registered' = {s \in registered : Lock(s)}
  /\ todo' = registered'
  /\ UNCHANGED <<busVars, topicClosed, doomed, victim, payload, target, inVars,
                 subVars, outVars>>

\* fanout_next: a subscriber is closed, ...
FanSkip(s) ==
  /\ disp = "fan"
  /\ s \in todo
  /\ subClosed[s] \/ ~egress[s].open
  /\ subClosed' = [subClosed EXCEPT ![s] = TRUE]
  /\ registered' = registered \ {s}
  /\ todo' = todo \ {s}
  /\ UNCHANGED <<busVars, topicClosed, doomed, victim, disp, payload, target,
                 inVars, sub, subClosing, late, outVars>>

\* ... or it is sent the message, ...
FanTo(s) ==
  /\ disp = "fan"
  /\ s \in todo
  /\ ~subClosed[s] /\ egress[s].open
  /\ disp' = "sending"
  /\ target' = s
  /\ todo' = todo \ {s}
  /\ UNCHANGED <<busVars, topicVars, payload, inVars, subVars, outVars>>

\* Mutant: the loop starts again after the first subscriber.
FanDoneEarly ==
  /\ disp = "fan"
  /\ disp' = "receive"
  /\ payload' = None
  /\ todo' = {}
  /\ UNCHANGED <<busVars, topicVars, target, inVars, subVars, outVars>>

\* ... or the list is done and the loop starts again.
FanDone ==
  /\ disp = "fan"
  /\ todo = {}
  /\ disp' = "receive"
  /\ payload' = None
  /\ UNCHANGED <<busVars, topicVars, target, todo, inVars, subVars, outVars>>

\* egress.async_send, and the handler of its completion.
EgressFails ==
  /\ disp = "sending"
  /\ ~egress[target].open
  /\ subClosed' = [subClosed EXCEPT ![target] = TRUE]
  /\ registered' = registered \ {target}
  /\ disp' = "fan"
  /\ target' = None
  /\ UNCHANGED <<busVars, topicClosed, doomed, victim, payload, todo, inVars,
                 sub, subClosing, late, outVars>>

EgressHands ==
  /\ disp = "sending"
  /\ egress[target].open
  /\ next[target] = "waiting"
  /\ next' = [next EXCEPT ![target] = "idle"]
  /\ seen' = [seen EXCEPT ![target] = Append(@, payload)]
  /\ disp' = "fan"
  /\ target' = None
  /\ UNCHANGED <<busVars, topicVars, payload, todo, inVars, subVars, egress>>

EgressBuffers ==
  /\ disp = "sending"
  /\ egress[target].open
  /\ next[target] # "waiting"
  /\ Len(egress[target].buf) < SubCap
  /\ egress' = [egress EXCEPT ![target].buf = Append(@, payload)]
  /\ disp' = "fan"
  /\ target' = None
  /\ UNCHANGED <<busVars, topicVars, payload, todo, inVars, subVars, next, seen>>

EgressWaits ==
  /\ disp = "sending"
  /\ egress[target].open
  /\ Len(egress[target].buf) >= SubCap
  /\ disp' = "blocked"
  /\ UNCHANGED <<busVars, topicVars, payload, target, todo, inVars, subVars,
                 outVars>>

(***************************************************************************)
(* subscribe, and the Subscription                                         *)
(***************************************************************************)

SubscribeRefused(s) ==
  /\ sub[s] = "none"
  /\ Refuses
  /\ sub' = [sub EXCEPT ![s] = "refused"]
  /\ UNCHANGED <<busVars, topicVars, dispVars, inVars, subClosed, subClosing,
                 late, outVars>>

Subscribe(s) ==
  /\ sub[s] = "none"
  /\ GetOrCreateTopic
  /\ sub' = [sub EXCEPT ![s] = "found"]
  /\ UNCHANGED <<shut, closing, topicVars, payload, target, todo, inVars,
                 subClosed, subClosing, late, outVars>>

\* topic->closed is looked at, ...
SubscribeClosed(s) ==
  /\ sub[s] = "found"
  /\ topicClosed
  /\ sub' = [sub EXCEPT ![s] = "refused"]
  /\ UNCHANGED <<busVars, topicVars, dispVars, inVars, subClosed, subClosing,
                 late, outVars>>

\* ... and add_subscriber does not look at it again: it may have been set since.
AddSubscriber(s) ==
  /\ sub[s] = "found"
  /\ sub' = [sub EXCEPT ![s] = "live"]
  /\ registered' = registered \cup {s}
  /\ late' = IF closing \in {"subscribers", "done"} THEN late \cup {s} ELSE late
  /\ UNCHANGED <<busVars, topicClosed, doomed, victim, dispVars, inVars,
                 subClosed, subClosing, outVars>>

\* Subscription::next.
NextClosed(s) ==
  /\ sub[s] = "live"
  /\ next[s] = "idle"
  /\ subClosed[s]
  /\ next' = [next EXCEPT ![s] = "nullopt"]
  /\ UNCHANGED <<busVars, topicVars, dispVars, inVars, subVars, egress, seen>>

NextCall(s) ==
  /\ sub[s] = "live"
  /\ next[s] = "idle"
  /\ ~subClosed[s]
  /\ next' = [next EXCEPT ![s] = "checked"]
  /\ UNCHANGED <<busVars, topicVars, dispVars, inVars, subVars, egress, seen>>

\* Mutant: the send the dispatcher is blocked on is not completed.
NextLeavesBlocked(s) ==
  /\ next[s] = "checked"
  /\ egress[s].buf # <<>>
  /\ next' = [next EXCEPT ![s] = "idle"]
  /\ seen' = [seen EXCEPT ![s] = Append(@, Head(egress[s].buf))]
  /\ egress' = [egress EXCEPT ![s].buf = Tail(@)]
  /\ UNCHANGED <<busVars, topicVars, dispVars, inVars, subVars>>

\* egress.async_receive: a buffered message, which lets the send the
\* dispatcher is blocked on complete, ...
NextBuffered(s) ==
  /\ next[s] = "checked"
  /\ egress[s].buf # <<>>
  /\ next' = [next EXCEPT ![s] = "idle"]
  /\ seen' = [seen EXCEPT ![s] = Append(@, Head(egress[s].buf))]
  /\ IF disp = "blocked" /\ target = s
     THEN /\ egress' = [egress EXCEPT ![s].buf = Append(Tail(@), payload)]
          /\ disp' = "fan"
          /\ target' = None
     ELSE /\ egress' = [egress EXCEPT ![s].buf = Tail(@)]
          /\ UNCHANGED <<disp, target>>
  /\ UNCHANGED <<busVars, topicVars, payload, todo, inVars, subVars>>

\* ... or nothing, and the channel is open ...
NextWaits(s) ==
  /\ next[s] = "checked"
  /\ egress[s].buf = <<>>
  /\ egress[s].open
  /\ next' = [next EXCEPT ![s] = "waiting"]
  /\ UNCHANGED <<busVars, topicVars, dispVars, inVars, subVars, egress, seen>>

\* ... or closed (the catch of next()).
NextEnds(s) ==
  /\ next[s] = "checked"
  /\ egress[s].buf = <<>>
  /\ ~egress[s].open
  /\ next' = [next EXCEPT ![s] = "nullopt"]
  /\ subClosed' = [subClosed EXCEPT ![s] = TRUE]
  /\ UNCHANGED <<busVars, topicVars, dispVars, inVars, sub, subClosing, late,
                 egress, seen>>

\* next() under a timeout is stopped; the cancelled receive may reach its
\* catch as a terminal error, which marks the subscription closed.
NextStopped(s) ==
  /\ next[s] = "waiting"
  /\ next' = [next EXCEPT ![s] = "idle"]
  /\ \/ UNCHANGED subClosed
     \/ subClosed' = [subClosed EXCEPT ![s] = TRUE]
  /\ UNCHANGED <<busVars, topicVars, dispVars, inVars, sub, subClosing, late,
                 egress, seen>>

\* The last copy of the Subscription is destroyed without close().
Drop(s) ==
  /\ sub[s] = "live"
  /\ next[s] \in {"idle", "nullopt"}
  /\ s \notin subClosing
  /\ sub' = [sub EXCEPT ![s] = "dropped"]
  /\ UNCHANGED <<busVars, topicVars, dispVars, inVars, subClosed, subClosing,
                 late, outVars>>

\* EgressChannel::close: a waiting receive ends, and next() with it.
EgressClose(s) ==
  /\ egress' = [egress EXCEPT ![s].open = FALSE]
  /\ next' = [next EXCEPT ![s] = IF @ = "waiting" THEN "nullopt" ELSE @]
  /\ UNCHANGED seen

\* Subscription::close: the exchange of closed, ...
SubscriptionClose(s) ==
  /\ sub[s] = "live"
  /\ ~subClosed[s]
  /\ subClosed' = [subClosed EXCEPT ![s] = TRUE]
  /\ subClosing' = subClosing \cup {s}
  /\ UNCHANGED <<busVars, topicVars, dispVars, inVars, sub, late, outVars>>

\* ... then egress.close() and remove_subscriber.
SubscriptionCloseEnd(s) ==
  /\ s \in subClosing
  /\ EgressClose(s)
  /\ registered' = registered \ {s}
  /\ subClosing' = subClosing \ {s}
  /\ UNCHANGED <<busVars, topicClosed, doomed, victim, dispVars, inVars, sub,
                 subClosed, late>>

(***************************************************************************)
(* Closing the topic                                                       *)
(***************************************************************************)

\* Taking the TopicState out of the map, to close it.
Erase ==
  IF topic = "mapped"
  THEN topic' = "erased" /\ closing' = "topic"
  ELSE UNCHANGED <<topic, closing>>

\* State::close_topic also remembers the name.
CloseTopic ==
  /\ shut = "no"
  /\ shut' = "topic"
  /\ Erase
  /\ UNCHANGED <<topicVars, dispVars, inVars, subVars, outVars>>

\* State::close forgets the closed names: the bus is closed.
BusClose ==
  /\ shut # "bus"
  /\ shut' = "bus"
  /\ Erase
  /\ UNCHANGED <<topicVars, dispVars, inVars, subVars, outVars>>

\* TopicState::close_topic: closed.exchange, ingress.close() ...
CloseMark ==
  /\ closing = "topic"
  /\ closing' = "ingress"
  /\ topicClosed' = TRUE
  /\ UNCHANGED <<shut, topic, registered, doomed,
                 victim, dispVars, inVars, subVars, outVars>>

CloseIngress ==
  /\ closing = "ingress"
  /\ closing' = "take"
  /\ ingress' = [ingress EXCEPT !.open = FALSE]
  /\ disp' = IF disp = "waiting" THEN "ended" ELSE disp
  /\ UNCHANGED <<shut, topic, topicVars, payload,
                 target, todo, pub, log, subVars, outVars>>

\* ... and close_subscribers: the list, then closed and egress.close() of each.
CloseTake ==
  /\ closing = "take"
  /\ closing' = "subscribers"
  /\ doomed' = {s \in registered : Lock(s)}
  /\ registered' = {}
  /\ UNCHANGED <<shut, topic, topicClosed, victim,
                 dispVars, inVars, subVars, outVars>>

\* Mutant: a subscriber is marked, its channel is left open.
CloseSubscriberMark(s) ==
  /\ closing = "subscribers"
  /\ s \in doomed
  /\ doomed' = doomed \ {s}
  /\ subClosed' = [subClosed EXCEPT ![s] = TRUE]
  /\ UNCHANGED <<busVars, topicClosed, registered, victim, dispVars, inVars,
                 sub, subClosing, late, outVars>>

CloseSubscriber(s) ==
  /\ closing = "subscribers"
  /\ victim = None
  /\ s \in doomed
  /\ victim' = s
  /\ doomed' = doomed \ {s}
  /\ subClosed' = [subClosed EXCEPT ![s] = TRUE]
  /\ UNCHANGED <<busVars, topicClosed, registered, dispVars, inVars, sub,
                 subClosing, late, outVars>>

CloseSubscriberEgress ==
  /\ victim # None
  /\ EgressClose(victim)
  /\ victim' = None
  /\ UNCHANGED <<busVars, topicClosed, registered, doomed, dispVars, inVars,
                 subVars>>

CloseDone ==
  /\ closing = "subscribers"
  /\ doomed = {} /\ victim = None
  /\ closing' = "done"
  /\ UNCHANGED <<shut, topic, topicVars, dispVars,
                 inVars, subVars, outVars>>

PublishStep(m) ==
  SendFails(m) \/ SendHands(m) \/ SendBuffers(m) \/ SendWaits(m)

Dispatch ==
  \/ ReceiveBuffered \/ ReceiveWaits \/ Collect \/ FanDone
  \/ EgressFails \/ EgressHands \/ EgressBuffers \/ EgressWaits
  \/ \E s \in Sub : FanSkip(s) \/ FanTo(s)

NextStep(s) ==
  NextBuffered(s) \/ NextWaits(s) \/ NextEnds(s)

CloseStep ==
  \/ CloseMark \/ CloseIngress \/ CloseTake
  \/ CloseSubscriberEgress \/ CloseDone
  \/ \E s \in Sub : CloseSubscriber(s) \/ SubscriptionCloseEnd(s)

Next ==
  \/ \E m \in Msg :
       PublishRefused(m) \/ Publish(m) \/ PublishStep(m) \/ PublishStopped(m)
  \/ Dispatch
  \/ \E s \in Sub :
       \/ SubscribeRefused(s) \/ Subscribe(s) \/ SubscribeClosed(s)
       \/ AddSubscriber(s) \/ NextClosed(s) \/ NextCall(s) \/ NextStep(s)
       \/ NextStopped(s) \/ Drop(s) \/ SubscriptionClose(s)
  \/ CloseTopic \/ BusClose \/ CloseStep

Spec == Init /\ [][Next]_vars

\* Calls under way go on, handlers the channels have completed run, and a
\* subscriber calls next() again and again while its subscription is open.
\* Nobody is obliged to publish, to subscribe, to close or to stop anything.
Fairness ==
  /\ \A m \in Msg : WF_vars(PublishStep(m))
  /\ WF_vars(Dispatch)
  /\ \A s \in Sub : WF_vars(NextCall(s) \/ NextStep(s))
  /\ WF_vars(CloseStep)

FairSpec == Spec /\ Fairness

-----------------------------------------------------------------------------

TopicTypeOK ==
  /\ shut \in {"no", "topic", "bus"}
  /\ topic \in {"none", "mapped", "erased"}
  /\ closing \in {"no", "topic", "ingress", "take", "subscribers", "done"}
  /\ topicClosed \in BOOLEAN
  /\ registered \subseteq Sub /\ doomed \subseteq Sub
  /\ victim \in Sub \cup {None}
  /\ disp \in {"none", "receive", "waiting", "handle", "fan", "sending",
               "blocked", "ended"}
  /\ payload \in Msg \cup {None}
  /\ target \in Sub \cup {None}
  /\ todo \subseteq Sub

IngressTypeOK ==
  /\ ingress \in [open : BOOLEAN, buf : Seq(Msg), senders : Seq(Msg)]
  /\ Len(ingress.buf) <= TopicCap
  /\ pub \in [Msg -> {"idle", "found", "pending"} \cup Published]
  /\ log \in Seq(Msg)

SubTypeOK ==
  /\ sub \in [Sub -> {"none", "found", "live", "dropped", "refused"}]
  /\ subClosed \in [Sub -> BOOLEAN]
  /\ subClosing \subseteq Sub /\ late \subseteq Sub
  /\ next \in [Sub -> {"idle", "checked", "waiting", "nullopt"}]

EgressTypeOK ==
  /\ egress \in [Sub -> [open : BOOLEAN, buf : Seq(Msg)]]
  /\ \A s \in Sub : Len(egress[s].buf) <= SubCap
  /\ seen \in [Sub -> Seq(Msg)]

\* Every part of the state has its type; both channels are bounded.
TypeOK == TopicTypeOK /\ IngressTypeOK /\ SubTypeOK /\ EgressTypeOK

\* What the subscriber got, what its channel holds and what waits to enter it.
Stream(s) ==
  seen[s] \o egress[s].buf
    \o IF disp = "blocked" /\ target = s THEN <<payload>> ELSE <<>>

\* The dispatcher has a message in hand, which s has not been sent yet.
Handing == {"handle", "fan", "sending", "blocked"}
TurnToCome(s) ==
  /\ disp \in Handing
  /\ s \in todo \/ disp = "handle" \/ (disp = "sending" /\ target = s)

\* How much of the log has been fanned out to s: what the dispatcher took out
\* of the channel, but for the message whose turn at s is to come.
Taken == Len(log) - Len(ingress.buf)
Reach(s) == Taken - IF TurnToCome(s) THEN 1 ELSE 0

\* The sequence t is the piece of the log that ends at position k.
EndsAt(t, k) ==
  t = <<>> \/ (Len(t) <= k /\ \A j \in 1..Len(t) : t[j] = log[k - Len(t) + j])

\* Each subscriber gets the messages in the order the topic took them, none
\* twice and none left out: its stream is a contiguous piece of the log, and
\* while its subscription is open the piece reaches up to the last message
\* fanned out.
InOrderNoGaps ==
  \A s \in Sub :
    /\ \E k \in 0..Len(log) : EndsAt(Stream(s), k)
    /\ s \in registered /\ ~subClosed[s] => EndsAt(Stream(s), Reach(s))

\* A publish that completed put its message into the topic, one that was
\* refused, still waits or was taken back did not, and none did so twice.
ResultIsTrue ==
  /\ IsInjective(log)
  /\ \A m \in Msg : pub[m] = "true" <=> m \in Range(log)

\* No lost wake-up at either channel: whoever waits on one waits for a good
\* reason.  A publisher waits only while the buffer is full and the
\* dispatcher is busy, the dispatcher only while there is nothing to
\* receive, next() only while there is nothing for it, and a blocked fan-out
\* only for a full egress channel.
WaitsForAReason ==
  /\ ingress.senders # <<>> =>
       Len(ingress.buf) = TopicCap /\ disp \notin {"none", "waiting", "ended"}
  /\ disp = "waiting" => ingress.open /\ ingress.buf = <<>>
  /\ \A s \in Sub : next[s] = "waiting" =>
       egress[s].open /\ egress[s].buf = <<>> /\ ~(disp = "blocked" /\ target = s)
  /\ disp = "blocked" => Len(egress[target].buf) = SubCap

\* When the call that closes a topic is through, every subscription of it is
\* closed and no next() waits any more (but for one whose own close() is about
\* to end it), except for subscriptions added after close_subscribers took its
\* list: subscribe() looks at closed before add_subscriber, not after, and
\* nobody closes those.
ClosedTopicEnds ==
  closing = "done" =>
    \A s \in Sub : sub[s] = "live" /\ s \notin late =>
      subClosed[s] /\ (next[s] = "waiting" => s \in subClosing)

\* The dispatcher is stuck in a send for ever only on the full channel of a
\* subscription that is closed or dropped and so never calls next() again:
\* closing an egress channel does not complete the send that waits on it.
Stuck ==
  disp = "blocked" /\ (subClosed[target] \/ sub[target] = "dropped")

\* A blocked fan-out goes on, or is stuck as above: a slow subscriber delays
\* the topic, it does not stop it.
FanOutResumes == disp = "blocked" ~> disp # "blocked" \/ Stuck

\* A publish returns, unless the dispatcher is stuck.
PublishReturns ==
  \A m \in Msg : pub[m] \in {"found", "pending"} ~> pub[m] \in Published \/ Stuck

-----------------------------------------------------------------------------
(* The inductive invariant behind InOrderNoGaps, ResultIsTrue,             *)
(* WaitsForAReason and ClosedTopicEnds.                                    *)

\* The buffer of the channel is the end of the log, and the message in hand is
\* the last one taken out of the channel.
LogInv ==
  /\ Taken >= 0
  /\ \A j \in 1..Len(ingress.buf) : ingress.buf[j] = log[Taken + j]
  /\ disp \in Handing => Taken >= 1 /\ payload = log[Taken]

\* The dispatcher has subscribers to serve only while it fans out, and a
\* publish finds it running.
DispatchInv ==
  /\ disp \notin {"fan", "sending", "blocked"} => todo = {}
  /\ disp \in {"sending", "blocked"} <=> target # None
  /\ target \notin todo
  /\ disp = "none" => \A m \in Msg : pub[m] \notin {"found", "pending"}
  /\ disp = "ended" => ~ingress.open

\* The senders in the queue of the channel are the publishes that wait there.
SenderInv ==
  /\ IsInjective(ingress.senders)
  /\ \A m \in Range(ingress.senders) : pub[m] = "pending"

\* The dispatcher will send to s, this message or the next.
InLine(s) ==
  \/ ~subClosed[s] /\ s \in registered \cup todo
  \/ disp = "sending" /\ target = s

StreamInv ==
  \A s \in Sub :
    /\ InLine(s) => EndsAt(Stream(s), Reach(s))
    /\ \E k \in 0..Len(log) : EndsAt(Stream(s), k)
    /\ sub[s] \in {"none", "found", "refused"} =>
         Stream(s) = <<>> /\ s \notin registered \cup todo \cup {target}

\* Who closes which subscription: an open one is known to the topic or to the
\* call that closes it, and the channel of a closed one has been closed, is
\* about to be, or has nobody reading from it.  A topic is closed once: its name
\* is not found again.
CloseInv ==
  /\ \A s \in Sub :
       /\ subClosed[s] /\ egress[s].open /\ next[s] \in {"checked", "waiting"} =>
            s \in subClosing \cup {victim}
       /\ s \in subClosing => subClosed[s]
       /\ sub[s] = "live" /\ ~subClosed[s] =>
            s \in IF closing \in {"subscribers", "done"} THEN doomed \cup late ELSE registered
  /\ closing # "subscribers" => doomed = {} /\ victim = None
  /\ closing # "no" => topic = "erased" /\ shut # "no"

BusInv ==
  /\ TypeOK /\ WaitsForAReason /\ DispatchInv /\ LogInv
  /\ SenderInv /\ ResultIsTrue
  /\ StreamInv /\ CloseInv
=============================================================================
