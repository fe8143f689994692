----------------------------- MODULE BusProofs ------------------------------
(***************************************************************************)
(* Proofs about MessageBus: the invariant BusInv is inductive, and with it *)
(* every subscriber gets a contiguous piece of what its topic took, the    *)
(* result of a publish is true, nobody waits without a reason, and closing *)
(* a topic closes its subscriptions.                                       *)
(*                                                                         *)
(* A step has many actions and each conjunct of BusInv depends on few      *)
(* variables.  So the proof goes by what a step can do to one part of the  *)
(* state: InSteps (the ingress channel), OutSteps (the egress channels),   *)
(* DispKept (the dispatcher), NextSteps (the next() calls), SubSteps (the  *)
(* subscribers), StreamSteps and ReachSteps (what a subscriber got, and    *)
(* how far the fan-out to it has come).                                    *)
(***************************************************************************)
EXTENDS MessageBus, SequenceLemmas

USE DEF vars, busVars, topicVars, dispVars, inVars, subVars, outVars

Publishing(m) == PublishRefused(m) \/ Publish(m) \/ PublishStep(m) \/ PublishStopped(m)

Subscribing(s) ==
  \/ SubscribeRefused(s) \/ Subscribe(s) \/ SubscribeClosed(s) \/ AddSubscriber(s)
  \/ NextClosed(s) \/ NextCall(s) \/ NextStep(s) \/ NextStopped(s) \/ Drop(s)
  \/ SubscriptionClose(s)

-----------------------------------------------------------------------------
(* Types. *)

\* One more at the end, and one less at the front.
LEMMA AppendFacts ==
  ASSUME NEW S, NEW s \in Seq(S), NEW e \in S
  PROVE  /\ Append(s, e) \in Seq(S) /\ Append(s, e) # <<>>
         /\ Len(s) \in Nat /\ Len(Append(s, e)) = Len(s) + 1
         /\ \A i \in 1..Len(s) : Append(s, e)[i] = s[i]
         /\ Append(s, e)[Len(s) + 1] = e
OBVIOUS

\* One less at the front, as a receive takes it.
LEMMA TailFacts ==
  ASSUME NEW S, NEW s \in Seq(S), s # <<>>
  PROVE  /\ Tail(s) \in Seq(S) /\ Head(s) \in S /\ Head(s) = s[1]
         /\ Len(s) \in Nat /\ Len(s) >= 1 /\ Len(Tail(s)) = Len(s) - 1
         /\ \A i \in 1..(Len(s) - 1) : Tail(s)[i] = s[i + 1]
OBVIOUS

\* Taking an element out of a sequence.
LEMMA RemoveType ==
  ASSUME NEW S, NEW s \in Seq(S), NEW k \in DOMAIN s
  PROVE  SubSeq(s, 1, k - 1) \o SubSeq(s, k + 1, Len(s)) \in Seq(S)
<1>1. Len(s) \in Nat /\ k \in 1..Len(s)
  OBVIOUS
<1>2. SubSeq(s, 1, k - 1) \in Seq(S) /\ SubSeq(s, k + 1, Len(s)) \in Seq(S)
  BY <1>1
<1> QED BY <1>2

\* Every step keeps the types of the topic and of the dispatcher.
LEMMA TopicTypeStep ==
  ASSUME TypeOK, Next
  PROVE  TopicTypeOK'
<1> USE DEF TypeOK, TopicTypeOK
<1>1. ASSUME NEW m \in Msg, Publishing(m) PROVE TopicTypeOK'
  BY <1>1 DEF Publishing, PublishRefused, Publish, PublishStep, PublishStopped, SendFails,
              SendHands, SendBuffers, SendWaits, GetOrCreateTopic
<1>2. CASE Dispatch
  <2>1. ASSUME NEW s \in Sub, FanSkip(s) \/ FanTo(s) PROVE TopicTypeOK'
    BY <2>1 DEF FanSkip, FanTo
  <2>2. CASE ReceiveBuffered
    <3>1. Head(ingress.buf) \in Msg
      BY <2>2 DEF ReceiveBuffered, IngressTypeOK
    <3> QED BY Zenon, <2>2, <3>1 DEF ReceiveBuffered
  <2>3. CASE ReceiveWaits \/ Collect \/ FanDone
    BY Zenon, <2>3 DEF ReceiveWaits, Collect, FanDone
  <2>4. CASE EgressFails \/ EgressHands \/ EgressBuffers \/ EgressWaits
    BY <2>4 DEF EgressFails, EgressHands, EgressBuffers, EgressWaits
  <2> QED BY Zenon, <1>2, <2>1, <2>2, <2>3, <2>4 DEF Dispatch
<1>3. ASSUME NEW s \in Sub, Subscribing(s) PROVE TopicTypeOK'
  <2>1. CASE NextBuffered(s)
    BY <2>1 DEF NextBuffered
  <2>2. CASE SubscribeRefused(s) \/ SubscribeClosed(s) \/ AddSubscriber(s) \/ Drop(s)
    BY <2>2 DEF SubscribeRefused, SubscribeClosed, AddSubscriber, Drop
  <2>3. CASE Subscribe(s)
    BY SMTT(30), <2>3 DEF Subscribe, GetOrCreateTopic
  <2>4. CASE NextClosed(s) \/ NextCall(s) \/ NextWaits(s) \/ NextEnds(s) \/ NextStopped(s)
             \/ SubscriptionClose(s)
    BY <2>4 DEF NextClosed, NextCall, NextWaits, NextEnds, NextStopped, SubscriptionClose
  <2> QED BY Zenon, <1>3, <2>1, <2>2, <2>3, <2>4 DEF Subscribing, NextStep
<1>4. CASE CloseTopic \/ BusClose \/ CloseMark \/ CloseIngress \/ CloseTake
           \/ CloseSubscriberEgress \/ CloseDone
  BY <1>4, ZenonT(60) DEF CloseTopic, BusClose, Erase, CloseMark, CloseIngress, CloseTake,
              CloseSubscriberEgress, CloseDone
<1>5. ASSUME NEW s \in Sub, CloseSubscriber(s) \/ SubscriptionCloseEnd(s) PROVE TopicTypeOK'
  BY <1>5 DEF CloseSubscriber, SubscriptionCloseEnd
<1> QED BY Zenon, <1>1, <1>2, <1>3, <1>4, <1>5 DEF Next, CloseStep, Publishing, Subscribing

\* Every step keeps the types of the subscriptions.
LEMMA SubTypeStep ==
  ASSUME TypeOK, Next
  PROVE  SubTypeOK'
<1> USE DEF TypeOK, SubTypeOK
<1>1. ASSUME NEW m \in Msg, Publishing(m) PROVE SubTypeOK'
  BY Zenon, <1>1 DEF Publishing, PublishRefused, Publish, PublishStep, PublishStopped, SendFails,
              SendHands, SendBuffers, SendWaits, GetOrCreateTopic
<1>2. CASE Dispatch
  <2>0. target \in Sub \cup {None}
    BY Zenon DEF TopicTypeOK
  <2>1. ASSUME NEW s \in Sub, FanSkip(s) \/ FanTo(s) PROVE SubTypeOK'
    BY Zenon, <2>1 DEF FanSkip, FanTo
  <2>2. CASE ReceiveBuffered \/ ReceiveWaits \/ Collect \/ FanDone
    BY Zenon, <2>2 DEF ReceiveBuffered, ReceiveWaits, Collect, FanDone
  <2>4. CASE EgressFails \/ EgressHands \/ EgressBuffers \/ EgressWaits
    BY Zenon, <2>4 DEF EgressFails, EgressHands, EgressBuffers, EgressWaits
  <2> QED BY Zenon, <1>2, <2>1, <2>2, <2>4 DEF Dispatch
<1>3. ASSUME NEW s \in Sub, Subscribing(s) PROVE SubTypeOK'
  BY Zenon, <1>3 DEF Subscribing, SubscribeRefused, Subscribe, GetOrCreateTopic, SubscribeClosed,
              AddSubscriber, NextClosed, NextCall, NextStep, NextBuffered, NextWaits, NextEnds,
              NextStopped, Drop, SubscriptionClose
<1>4. CASE CloseTopic \/ BusClose \/ CloseMark \/ CloseIngress \/ CloseTake
           \/ CloseSubscriberEgress \/ CloseDone
  BY ZenonT(60), <1>4 DEF CloseTopic, BusClose, Erase, CloseMark, CloseIngress, CloseTake, EgressClose,
              CloseSubscriberEgress, CloseDone
<1>5. ASSUME NEW s \in Sub, CloseSubscriber(s) \/ SubscriptionCloseEnd(s) PROVE SubTypeOK'
  BY <1>5, ZenonT(60) DEF CloseSubscriber, SubscriptionCloseEnd, EgressClose
<1> QED BY Zenon, <1>1, <1>2, <1>3, <1>4, <1>5 DEF Next, CloseStep, Publishing, Subscribing

\* What the types say of the ingress channel, field by field.
LEMMA IngressShape ==
  ASSUME TypeOK
  PROVE  /\ ingress.open \in BOOLEAN /\ ingress.buf \in Seq(Msg) /\ ingress.senders \in Seq(Msg)
         /\ ingress = [open |-> ingress.open, buf |-> ingress.buf, senders |-> ingress.senders]
         /\ Len(ingress.buf) \in Nat /\ Len(ingress.senders) \in Nat
         /\ Len(ingress.buf) <= TopicCap
         /\ pub \in [Msg -> {"idle", "found", "pending"} \cup Published]
         /\ log \in Seq(Msg) /\ Len(log) \in Nat
BY DEF TypeOK, IngressTypeOK

\* What the ingress channel becomes, field by field.
LEMMA IngressBecomes ==
  ASSUME NEW b \in BOOLEAN, NEW t \in Seq(Msg), NEW u \in Seq(Msg), Len(t) <= TopicCap,
         ingress' = [open |-> b, buf |-> t, senders |-> u]
  PROVE  /\ ingress' \in [open : BOOLEAN, buf : Seq(Msg), senders : Seq(Msg)]
         /\ Len(ingress'.buf) <= TopicCap
         /\ ingress'.open = b /\ ingress'.buf = t /\ ingress'.senders = u
BY Zenon

\* The actions that touch the ingress channel, the publishes or the log.
LEMMA InKept ==
  ASSUME Next
  PROVE  \/ UNCHANGED inVars
         \/ \E m \in Msg : Publishing(m)
         \/ ReceiveBuffered
         \/ CloseIngress
<1>1. ASSUME NEW s \in Sub, Subscribing(s) PROVE UNCHANGED inVars
  BY Zenon, <1>1 DEF Subscribing, SubscribeRefused, Subscribe, SubscribeClosed, AddSubscriber,
       NextClosed, NextCall, NextStep, NextBuffered, NextWaits, NextEnds, NextStopped, Drop,
       SubscriptionClose
<1>2. ASSUME NEW s \in Sub, FanSkip(s) \/ FanTo(s) \/ CloseSubscriber(s) \/ SubscriptionCloseEnd(s)
      PROVE  UNCHANGED inVars
  BY Zenon, <1>2 DEF FanSkip, FanTo, CloseSubscriber, SubscriptionCloseEnd
<1>3. ASSUME \/ ReceiveWaits \/ Collect \/ FanDone
             \/ EgressFails \/ EgressHands \/ EgressBuffers \/ EgressWaits
             \/ CloseTopic \/ BusClose \/ CloseMark \/ CloseTake
             \/ CloseSubscriberEgress \/ CloseDone
      PROVE  UNCHANGED inVars
  BY Zenon, <1>3 DEF ReceiveWaits, Collect, FanDone, EgressFails, EgressHands, EgressBuffers,
       EgressWaits, CloseTopic, BusClose, CloseMark, CloseTake, CloseSubscriberEgress, CloseDone
<1> QED BY Zenon, <1>1, <1>2, <1>3 DEF Next, Dispatch, CloseStep, Publishing, Subscribing

\* What a step does to the ingress channel, the publishes and the log.
LEMMA InSteps ==
  ASSUME TypeOK, Next
  PROVE  \/ UNCHANGED inVars
         \/ \E m \in Msg :
              /\ UNCHANGED <<ingress, log>>
              /\ \/ pub[m] = "idle" /\ pub' = [pub EXCEPT ![m] = "false"]
                 \/ pub[m] = "idle" /\ disp' # "none" /\ pub' = [pub EXCEPT ![m] = "found"]
                 \/ pub[m] = "found" /\ pub' = [pub EXCEPT ![m] = "false"]
         \/ \E m \in Msg : SendHands(m)
         \/ \E m \in Msg : SendBuffers(m)
         \/ \E m \in Msg : SendWaits(m)
         \/ \E m \in Msg : PublishStopped(m)
         \/ ReceiveBuffered
         \/ CloseIngress
<1>1. ASSUME NEW m \in Msg, PublishRefused(m) \/ Publish(m) \/ SendFails(m)
      PROVE  /\ UNCHANGED <<ingress, log>>
             /\ \/ pub[m] = "idle" /\ pub' = [pub EXCEPT ![m] = "false"]
                \/ pub[m] = "idle" /\ disp' # "none" /\ pub' = [pub EXCEPT ![m] = "found"]
                \/ pub[m] = "found" /\ pub' = [pub EXCEPT ![m] = "false"]
  BY Zenon, <1>1 DEF PublishRefused, Publish, GetOrCreateTopic, SendFails
<1> QED BY Zenon, <1>1, InKept DEF Publishing, PublishStep

\* Every step keeps the types of the publishes and the bound on the ingress
\* channel: a send adds to the buffer only below topic_capacity.
LEMMA IngressTypeStep ==
  ASSUME TypeOK, Next
  PROVE  IngressTypeOK'
<1> USE DEF IngressTypeOK
<1>1. CASE UNCHANGED inVars
  BY Zenon, <1>1 DEF TypeOK
<1>2. ASSUME NEW m \in Msg, UNCHANGED <<ingress, log>>,
             NEW x \in {"false", "found"}, pub' = [pub EXCEPT ![m] = x]
      PROVE  IngressTypeOK'
  BY Zenon, <1>2 DEF TypeOK, Published
<1>3. ASSUME NEW m \in Msg, SendHands(m) PROVE IngressTypeOK'
  BY <1>3 DEF TypeOK, SendHands, Complete, Published
<1>4. ASSUME NEW m \in Msg, SendBuffers(m) PROVE IngressTypeOK'
  <2>1. ingress' = [open |-> ingress.open, buf |-> Append(ingress.buf, m),
                    senders |-> ingress.senders]
    BY Zenon, <1>4, IngressShape DEF SendBuffers
  <2>2. Append(ingress.buf, m) \in Seq(Msg) /\ Len(Append(ingress.buf, m)) <= TopicCap
    BY <1>4, IngressShape, BusAssumption DEF SendBuffers
  <2>3. /\ ingress' \in [open : BOOLEAN, buf : Seq(Msg), senders : Seq(Msg)]
        /\ Len(ingress'.buf) <= TopicCap
    BY Zenon, <2>1, <2>2, IngressShape, IngressBecomes
  <2>4. log' \in Seq(Msg) /\ pub' \in [Msg -> {"idle", "found", "pending"} \cup Published]
    BY <1>4, IngressShape DEF SendBuffers, Complete, Published
  <2> QED BY Zenon, <2>3, <2>4
<1>5. ASSUME NEW m \in Msg, SendWaits(m) PROVE IngressTypeOK'
  <2>1. ingress' = [open |-> ingress.open, buf |-> ingress.buf,
                    senders |-> Append(ingress.senders, m)]
    BY Zenon, <1>5, IngressShape DEF SendWaits
  <2>2. Append(ingress.senders, m) \in Seq(Msg)
    BY IngressShape
  <2>3. /\ ingress' \in [open : BOOLEAN, buf : Seq(Msg), senders : Seq(Msg)]
        /\ Len(ingress'.buf) <= TopicCap
    BY Zenon, <2>1, <2>2, IngressShape, IngressBecomes
  <2>4. log' \in Seq(Msg) /\ pub' \in [Msg -> {"idle", "found", "pending"} \cup Published]
    BY Zenon, <1>5, IngressShape DEF SendWaits, Published
  <2> QED BY <2>3, <2>4
<1>6. ASSUME NEW m \in Msg, PublishStopped(m) PROVE IngressTypeOK'
  <2>1. PICK k \in DOMAIN ingress.senders :
          ingress' = [ingress EXCEPT !.senders = SubSeq(ingress.senders, 1, k - 1)
                                     \o SubSeq(ingress.senders, k + 1, Len(ingress.senders))]
    BY Zenon, <1>6 DEF PublishStopped
  <2> DEFINE t == SubSeq(ingress.senders, 1, k - 1)
                    \o SubSeq(ingress.senders, k + 1, Len(ingress.senders))
  <2>2. ingress' = [open |-> ingress.open, buf |-> ingress.buf, senders |-> t]
    BY Zenon, <2>1, IngressShape
  <2>3. t \in Seq(Msg)
    BY Zenon, IngressShape, RemoveType
  <2> HIDE DEF t
  <2>4. /\ ingress' \in [open : BOOLEAN, buf : Seq(Msg), senders : Seq(Msg)]
        /\ Len(ingress'.buf) <= TopicCap
    BY Zenon, <2>2, <2>3, IngressShape, IngressBecomes
  <2>5. log' \in Seq(Msg) /\ pub' \in [Msg -> {"idle", "found", "pending"} \cup Published]
    BY Zenon, <1>6, IngressShape DEF PublishStopped, Published
  <2> QED BY Zenon, <2>4, <2>5
<1>7. CASE ReceiveBuffered
  <2> DEFINE m == Head(ingress.senders)
  <2>1. CASE ingress.senders = <<>>
    <3>1. ingress' = [open |-> ingress.open, buf |-> Tail(ingress.buf), senders |-> ingress.senders]
      BY Zenon, <1>7, <2>1, IngressShape DEF ReceiveBuffered
    <3>2. Tail(ingress.buf) \in Seq(Msg) /\ Len(Tail(ingress.buf)) <= TopicCap
      BY <1>7, IngressShape, BusAssumption DEF ReceiveBuffered
    <3>3. /\ ingress' \in [open : BOOLEAN, buf : Seq(Msg), senders : Seq(Msg)]
          /\ Len(ingress'.buf) <= TopicCap
      BY Zenon, <3>1, <3>2, IngressShape, IngressBecomes
    <3> QED BY Zenon, <1>7, <2>1, <3>3, IngressShape DEF ReceiveBuffered
  <2>2. CASE ingress.senders # <<>>
    <3>1. ingress' = [open |-> ingress.open, buf |-> Append(Tail(ingress.buf), m),
                      senders |-> Tail(ingress.senders)]
      BY Zenon, <1>7, <2>2, IngressShape DEF ReceiveBuffered
    <3>2. /\ m \in Msg /\ Tail(ingress.senders) \in Seq(Msg)
          /\ Append(Tail(ingress.buf), m) \in Seq(Msg)
          /\ Len(Append(Tail(ingress.buf), m)) <= TopicCap
      BY <1>7, <2>2, IngressShape, BusAssumption DEF ReceiveBuffered
    <3>3. /\ ingress' \in [open : BOOLEAN, buf : Seq(Msg), senders : Seq(Msg)]
          /\ Len(ingress'.buf) <= TopicCap
      BY Zenon, <3>1, <3>2, IngressShape, IngressBecomes
    <3>4. log' = Append(log, m) /\ pub' = [pub EXCEPT ![m] = "true"]
      BY Zenon, <1>7, <2>2 DEF ReceiveBuffered, Complete
    <3>5. log' \in Seq(Msg) /\ pub' \in [Msg -> {"idle", "found", "pending"} \cup Published]
      BY <3>2, <3>4, IngressShape DEF Published
    <3> QED BY Zenon, <3>3, <3>5
  <2> QED BY Zenon, <2>1, <2>2
<1>8. CASE CloseIngress
  <2>1. ingress' = [open |-> FALSE, buf |-> ingress.buf, senders |-> ingress.senders]
    BY <1>8, IngressShape, ZenonT(60) DEF CloseIngress
  <2>2. /\ ingress' \in [open : BOOLEAN, buf : Seq(Msg), senders : Seq(Msg)]
        /\ Len(ingress'.buf) <= TopicCap
    BY Zenon, <2>1, IngressShape, IngressBecomes
  <2> QED BY Zenon, <1>8, <2>2, IngressShape DEF CloseIngress
<1> QED BY Zenon, <1>1, <1>2, <1>3, <1>4, <1>5, <1>6, <1>7, <1>8, InSteps

\* What the types say of the egress channels.
LEMMA EgressShape ==
  ASSUME TypeOK
  PROVE  \A s \in Sub :
           /\ egress[s].open \in BOOLEAN /\ egress[s].buf \in Seq(Msg)
           /\ egress[s] = [open |-> egress[s].open, buf |-> egress[s].buf]
           /\ seen[s] \in Seq(Msg)
           /\ Len(egress[s].buf) \in Nat /\ Len(seen[s]) \in Nat /\ Len(egress[s].buf) <= SubCap
BY DEF TypeOK, EgressTypeOK

\* What an egress channel becomes, field by field.
LEMMA EgressBecomes ==
  ASSUME TypeOK, NEW s \in Sub, NEW b \in BOOLEAN, NEW t \in Seq(Msg), Len(t) <= SubCap,
         egress' = [egress EXCEPT ![s] = [open |-> b, buf |-> t]]
  PROVE  /\ egress' \in [Sub -> [open : BOOLEAN, buf : Seq(Msg)]]
         /\ \A q \in Sub : Len(egress'[q].buf) <= SubCap
         /\ egress'[s].open = b /\ egress'[s].buf = t
         /\ \A q \in Sub \ {s} : egress'[q] = egress[q]
BY Zenon DEF TypeOK, EgressTypeOK

\* Writing one field of an egress channel.
LEMMA EgressWrites ==
  ASSUME TypeOK, NEW s \in Sub
  PROVE  /\ \A b : [egress EXCEPT ![s].open = b]
                     = [egress EXCEPT ![s] = [open |-> b, buf |-> egress[s].buf]]
         /\ \A t : [egress EXCEPT ![s].buf = t]
                     = [egress EXCEPT ![s] = [open |-> egress[s].open, buf |-> t]]
<1>1. egress[s] \in [open : BOOLEAN, buf : Seq(Msg)]
  BY Zenon DEF TypeOK, EgressTypeOK
<1>2. /\ \A b : [egress[s] EXCEPT !.open = b] = [open |-> b, buf |-> egress[s].buf]
      /\ \A t : [egress[s] EXCEPT !.buf = t] = [open |-> egress[s].open, buf |-> t]
  BY <1>1
<1> QED BY Zenon, <1>2

\* What a step does to the egress channels and to what came out of them.
LEMMA OutSteps ==
  ASSUME TypeOK, Next
  PROVE  \/ UNCHANGED <<egress, seen>>
         \/ EgressHands \/ EgressBuffers
         \/ \E s \in Sub : NextBuffered(s)
         \/ \E s \in Sub : SubscriptionCloseEnd(s)
         \/ CloseSubscriberEgress
<1>1. ASSUME NEW m \in Msg, Publishing(m) PROVE UNCHANGED <<egress, seen>>
  BY Zenon, <1>1 DEF Publishing, PublishRefused, Publish, PublishStep, PublishStopped, SendFails,
              SendHands, SendBuffers, SendWaits
<1>2. ASSUME NEW s \in Sub, Subscribing(s), ~NextBuffered(s) PROVE UNCHANGED <<egress, seen>>
  BY Zenon, <1>2 DEF Subscribing, SubscribeRefused, Subscribe, SubscribeClosed, AddSubscriber,
       NextClosed, NextCall, NextStep, NextWaits, NextEnds, NextStopped, Drop, SubscriptionClose
<1>3. ASSUME NEW s \in Sub, FanSkip(s) \/ FanTo(s) \/ CloseSubscriber(s)
      PROVE  UNCHANGED <<egress, seen>>
  BY Zenon, <1>3 DEF FanSkip, FanTo, CloseSubscriber
<1>4. ASSUME \/ ReceiveBuffered \/ ReceiveWaits \/ Collect \/ FanDone \/ EgressFails \/ EgressWaits
             \/ CloseTopic \/ BusClose \/ CloseMark \/ CloseIngress \/ CloseTake \/ CloseDone
      PROVE  UNCHANGED <<egress, seen>>
  BY Zenon, <1>4 DEF ReceiveBuffered, ReceiveWaits, Collect, FanDone, EgressFails,
       EgressWaits, CloseTopic, BusClose, CloseMark, CloseIngress, CloseTake, CloseDone
<1> QED BY Zenon, <1>1, <1>2, <1>3, <1>4 DEF Next, Dispatch, CloseStep, Publishing, Subscribing

\* EgressClose, field by field.
LEMMA EgressCloseShape ==
  ASSUME TypeOK, NEW s \in Sub, EgressClose(s)
  PROVE  /\ egress' \in [Sub -> [open : BOOLEAN, buf : Seq(Msg)]]
         /\ \A q \in Sub : Len(egress'[q].buf) <= SubCap /\ egress'[q].buf = egress[q].buf
         /\ egress'[s].open = FALSE
         /\ \A q \in Sub \ {s} : egress'[q] = egress[q] /\ next'[q] = next[q]
         /\ next'[s] = IF next[s] = "waiting" THEN "nullopt" ELSE next[s]
         /\ seen' = seen
<1>1. egress' = [egress EXCEPT ![s] = [open |-> FALSE, buf |-> egress[s].buf]]
  BY Zenon, EgressWrites DEF EgressClose
<1>2. /\ egress' \in [Sub -> [open : BOOLEAN, buf : Seq(Msg)]]
      /\ \A q \in Sub : Len(egress'[q].buf) <= SubCap
      /\ egress'[s].open = FALSE /\ egress'[s].buf = egress[s].buf
      /\ \A q \in Sub \ {s} : egress'[q] = egress[q]
  BY Zenon, <1>1, EgressShape, EgressBecomes
<1>3. /\ \A q \in Sub \ {s} : next'[q] = next[q]
      /\ next'[s] = IF next[s] = "waiting" THEN "nullopt" ELSE next[s]
      /\ seen' = seen
  BY Zenon DEF EgressClose, TypeOK, SubTypeOK
<1> QED BY Zenon, <1>2, <1>3

\* EgressBuffers, field by field.
LEMMA EgressBuffersShape ==
  ASSUME TypeOK, EgressBuffers, target \in Sub, payload \in Msg
  PROVE  /\ egress' \in [Sub -> [open : BOOLEAN, buf : Seq(Msg)]]
         /\ \A q \in Sub : Len(egress'[q].buf) <= SubCap
         /\ egress'[target].buf = Append(egress[target].buf, payload)
         /\ egress'[target].open = egress[target].open
         /\ \A q \in Sub \ {target} : egress'[q] = egress[q]
<1>1. egress' = [egress EXCEPT ![target] = [open |-> egress[target].open,
                                           buf |-> Append(egress[target].buf, payload)]]
  BY Zenon, EgressWrites DEF EgressBuffers
<1>2. Append(egress[target].buf, payload) \in Seq(Msg)
      /\ Len(Append(egress[target].buf, payload)) <= SubCap
  <2>1. egress[target].buf \in Seq(Msg) /\ Len(egress[target].buf) < SubCap /\ SubCap \in Nat
    BY Zenon, EgressShape, BusAssumption DEF EgressBuffers
  <2> QED BY <2>1, AppendFacts
<1> QED BY <1>1, <1>2, EgressShape, EgressBecomes, ZenonT(60)

\* NextBuffered, field by field.
LEMMA NextBufferedShape ==
  ASSUME TypeOK, NEW s \in Sub, NextBuffered(s), disp = "blocked" => payload \in Msg
  PROVE  /\ egress' \in [Sub -> [open : BOOLEAN, buf : Seq(Msg)]]
         /\ \A q \in Sub : Len(egress'[q].buf) <= SubCap
         /\ egress'[s].open = egress[s].open
         /\ egress'[s].buf = IF disp = "blocked" /\ target = s
                             THEN Append(Tail(egress[s].buf), payload)
                             ELSE Tail(egress[s].buf)
         /\ \A q \in Sub \ {s} : egress'[q] = egress[q] /\ seen'[q] = seen[q]
         /\ seen'[s] = Append(seen[s], Head(egress[s].buf))
         /\ seen' \in [Sub -> Seq(Msg)]
<1> DEFINE t == IF disp = "blocked" /\ target = s THEN Append(Tail(egress[s].buf), payload)
                                                 ELSE Tail(egress[s].buf)
<1>1. egress' = [egress EXCEPT ![s] = [open |-> egress[s].open, buf |-> t]]
  BY Zenon, EgressWrites DEF NextBuffered
<1>2. Tail(egress[s].buf) \in Seq(Msg) /\ Len(Tail(egress[s].buf)) = Len(egress[s].buf) - 1
      /\ Head(egress[s].buf) \in Msg
  <2>1. egress[s].buf \in Seq(Msg) /\ egress[s].buf # <<>>
    BY Zenon, EgressShape DEF NextBuffered
  <2> QED BY Zenon, <2>1, TailFacts
<1>3. t \in Seq(Msg) /\ Len(t) <= SubCap
  <2>1. Len(egress[s].buf) <= SubCap /\ SubCap \in Nat /\ Len(egress[s].buf) \in Nat
    BY Zenon, EgressShape, BusAssumption
  <2> QED BY <1>2, <2>1, AppendFacts
<1>4. seen' = [seen EXCEPT ![s] = Append(seen[s], Head(egress[s].buf))]
  BY Zenon DEF NextBuffered
<1>5. /\ seen' \in [Sub -> Seq(Msg)] /\ \A q \in Sub \ {s} : seen'[q] = seen[q]
      /\ seen'[s] = Append(seen[s], Head(egress[s].buf))
  BY <1>2, <1>4 DEF TypeOK, EgressTypeOK
<1> HIDE DEF t
<1>6. /\ egress' \in [Sub -> [open : BOOLEAN, buf : Seq(Msg)]]
      /\ \A q \in Sub : Len(egress'[q].buf) <= SubCap
      /\ egress'[s].open = egress[s].open /\ egress'[s].buf = t
      /\ \A q \in Sub \ {s} : egress'[q] = egress[q]
  BY <1>1, <1>3, EgressShape, EgressBecomes, ZenonT(60)
<1> QED BY Zenon, <1>5, <1>6 DEF t

\* A message in hand is a message, and one being sent has a receiver.
LEMMA InHand ==
  ASSUME TypeOK, DispatchInv, LogInv
  PROVE  /\ disp \in Handing => payload \in Msg
         /\ disp \in {"sending", "blocked"} => target \in Sub
         /\ disp \notin {"sending", "blocked"} => target = None
         /\ None \notin Sub
<1>1. ASSUME disp \in Handing PROVE payload \in Msg
  <2>1. Taken \in 1..Len(log) /\ payload = log[Taken]
    BY <1>1, IngressShape DEF LogInv, Taken
  <2> QED BY <2>1, IngressShape
<1> QED BY Zenon, <1>1, BusAssumption DEF DispatchInv, TypeOK, TopicTypeOK

\* Every step keeps the bound on the egress channels: the fan-out adds to a
\* buffer only below subscription_capacity.
LEMMA EgressTypeStep ==
  ASSUME TypeOK, DispatchInv, LogInv, Next
  PROVE  EgressTypeOK'
<1> USE DEF EgressTypeOK
<1>1. CASE UNCHANGED <<egress, seen>>
  BY Zenon, <1>1 DEF TypeOK
<1>2. CASE EgressHands
  BY <1>2, InHand DEF EgressHands, TypeOK, Handing
<1>3. CASE EgressBuffers
  <2>1. target \in Sub /\ payload \in Msg /\ seen' = seen
    BY Zenon, <1>3, InHand DEF EgressBuffers, Handing
  <2> QED BY Zenon, <1>3, <2>1, EgressBuffersShape DEF TypeOK
<1>4. ASSUME NEW s \in Sub, NextBuffered(s) PROVE EgressTypeOK'
  <2>1. disp = "blocked" => payload \in Msg
    BY Zenon, InHand DEF Handing
  <2> QED BY Zenon, <1>4, <2>1, NextBufferedShape
<1>5. ASSUME NEW s \in Sub, SubscriptionCloseEnd(s) PROVE EgressTypeOK'
  BY Zenon, <1>5, EgressCloseShape DEF SubscriptionCloseEnd, TypeOK
<1>6. CASE CloseSubscriberEgress
  <2>1. victim \in Sub
    BY Zenon, <1>6 DEF CloseSubscriberEgress, TypeOK, TopicTypeOK
  <2> QED BY <1>6, <2>1, EgressCloseShape, ZenonT(60) DEF CloseSubscriberEgress, TypeOK
<1> QED BY Zenon, <1>1, <1>2, <1>3, <1>4, <1>5, <1>6, OutSteps

\* Every step keeps the types.
LEMMA TypeStep ==
  ASSUME TypeOK, DispatchInv, LogInv, Next
  PROVE  TypeOK'
BY Zenon, TopicTypeStep, IngressTypeStep, SubTypeStep, EgressTypeStep DEF TypeOK

-----------------------------------------------------------------------------
(* The publishes: SenderInv and ResultIsTrue. *)

\* A publish enters the queue of senders once and leaves it when its message
\* enters the log or it is stopped, so no message enters the log twice.
LEMMA SenderStep ==
  ASSUME TypeOK, SenderInv, ResultIsTrue, Next
  PROVE  SenderInv' /\ ResultIsTrue'
<1> DEFINE q == ingress.senders
<1>0. /\ q \in Seq(Msg) /\ log \in Seq(Msg) /\ DOMAIN pub = Msg
      /\ IsInjective(q) /\ IsInjective(log)
      /\ \A m \in Range(q) : pub[m] = "pending"
      /\ \A m \in Msg : pub[m] = "true" <=> m \in Range(log)
      /\ Range(q) \subseteq Msg
  BY Zenon, IngressShape, RangeByPosition DEF SenderInv, ResultIsTrue
<1>1. CASE UNCHANGED inVars
  BY Zenon, <1>1 DEF SenderInv, ResultIsTrue
<1>2. ASSUME NEW m \in Msg, UNCHANGED <<ingress, log>>, pub[m] \in {"idle", "found"},
             NEW x \in {"false", "found"}, pub' = [pub EXCEPT ![m] = x]
      PROVE  SenderInv' /\ ResultIsTrue'
  BY Zenon, <1>0, <1>2 DEF SenderInv, ResultIsTrue
<1>3. ASSUME NEW m \in Msg, pub[m] \in {"found", "pending"}, log' = Append(log, m),
             pub' = [pub EXCEPT ![m] = "true"]
      PROVE  ResultIsTrue'
  <2>1. m \notin Range(log)
    BY Zenon, <1>0, <1>3
  <2>2. IsInjective(log') /\ Range(log') = Range(log) \cup {m}
    BY <1>0, <1>3, <2>1, AppendDistinct
  <2> QED BY Zenon, <1>0, <1>3, <2>2 DEF ResultIsTrue
<1>4. ASSUME NEW m \in Msg, SendHands(m) \/ SendBuffers(m) PROVE SenderInv' /\ ResultIsTrue'
  <2>1. /\ pub[m] = "found" /\ log' = Append(log, m) /\ pub' = [pub EXCEPT ![m] = "true"]
        /\ ingress'.senders = q
    BY Zenon, <1>4, IngressShape DEF SendHands, SendBuffers, Complete
  <2>2. SenderInv'
    BY Zenon, <1>0, <2>1 DEF SenderInv
  <2> QED BY <1>3, <2>1, <2>2, ZenonT(60)
<1>5. ASSUME NEW m \in Msg, SendWaits(m) PROVE SenderInv' /\ ResultIsTrue'
  <2>1. /\ pub[m] = "found" /\ log' = log /\ pub' = [pub EXCEPT ![m] = "pending"]
        /\ ingress'.senders = Append(q, m)
    BY Zenon, <1>5, IngressShape DEF SendWaits
  <2>2. IsInjective(ingress'.senders) /\ Range(ingress'.senders) = Range(q) \cup {m}
    BY <1>0, <2>1, AppendDistinct
  <2> QED BY Zenon, <1>0, <2>1, <2>2 DEF SenderInv, ResultIsTrue
<1>6. ASSUME NEW m \in Msg, PublishStopped(m) PROVE SenderInv' /\ ResultIsTrue'
  <2>1. /\ pub[m] = "pending" /\ log' = log /\ pub' = [pub EXCEPT ![m] = "stopped"]
    BY Zenon, <1>6 DEF PublishStopped
  <2>2. PICK k \in DOMAIN q :
          /\ q[k] = m
          /\ ingress'.senders = SubSeq(q, 1, k - 1) \o SubSeq(q, k + 1, Len(q))
    BY Zenon, <1>6, IngressShape DEF PublishStopped
  <2>3. IsInjective(ingress'.senders) /\ Range(ingress'.senders) = Range(q) \ {m}
    <3> HIDE DEF q
    <3> QED BY <1>0, <2>2, UnlinkDistinct
  <2> QED BY Zenon, <1>0, <2>1, <2>3 DEF SenderInv, ResultIsTrue
<1>7. CASE ReceiveBuffered
  <2>1. CASE q = <<>>
    <3>1. ingress'.senders = q /\ UNCHANGED <<pub, log>>
      BY Zenon, <1>7, <2>1, IngressShape DEF ReceiveBuffered
    <3> QED BY Zenon, <1>0, <3>1 DEF SenderInv, ResultIsTrue
  <2>2. CASE q # <<>>
    <3> DEFINE m == Head(q)
    <3>1. /\ ingress'.senders = Tail(q) /\ log' = Append(log, m)
          /\ pub' = [pub EXCEPT ![m] = "true"]
      BY <1>7, <2>2, IngressShape, ZenonT(60) DEF ReceiveBuffered, Complete
    <3>2. /\ m \in Msg /\ m \in Range(q) /\ IsInjective(Tail(q))
          /\ Range(Tail(q)) = Range(q) \ {m}
      BY Zenon, <1>0, <2>2, TailDistinct
    <3> HIDE DEF m
    <3>3. SenderInv'
      BY Zenon, <1>0, <3>1, <3>2 DEF SenderInv
    <3> QED BY Zenon, <1>0, <1>3, <3>1, <3>2, <3>3
  <2> QED BY Zenon, <2>1, <2>2
<1>8. CASE CloseIngress
  <2>1. ingress'.senders = q /\ UNCHANGED <<pub, log>>
    BY Zenon, <1>8, IngressShape DEF CloseIngress
  <2> QED BY <1>0, <2>1 DEF SenderInv, ResultIsTrue
<1> QED BY Zenon, <1>1, <1>2, <1>4, <1>5, <1>6, <1>7, <1>8, InSteps

-----------------------------------------------------------------------------
(* The channels and who waits at them: DispatchInv and WaitsForAReason. *)

\* Steps that leave the dispatcher where it is, or set it up.
LEMMA DispKept ==
  ASSUME Next
  PROVE  \/ UNCHANGED dispVars
         \/ disp = "none" /\ disp' = "receive" /\ UNCHANGED <<payload, target, todo, inVars>>
         \/ \E m \in Msg : Publish(m) \/ SendHands(m)
         \/ Dispatch
         \/ \E s \in Sub : NextBuffered(s)
         \/ CloseIngress
<1>1. ASSUME NEW m \in Msg, Publishing(m), ~Publish(m), ~SendHands(m) PROVE UNCHANGED dispVars
  BY Zenon, <1>1 DEF Publishing, PublishRefused, PublishStep, PublishStopped, SendFails,
              SendBuffers, SendWaits
<1>2. ASSUME NEW s \in Sub, Subscribe(s)
      PROVE  \/ UNCHANGED dispVars
             \/ disp = "none" /\ disp' = "receive" /\ UNCHANGED <<payload, target, todo, inVars>>
  BY Zenon, <1>2 DEF Subscribe, GetOrCreateTopic
<1>3. ASSUME NEW s \in Sub, Subscribing(s), ~Subscribe(s), ~NextBuffered(s)
      PROVE  UNCHANGED dispVars
  BY Zenon, <1>3 DEF Subscribing, SubscribeRefused, SubscribeClosed, AddSubscriber,
       NextClosed, NextCall, NextStep, NextWaits, NextEnds, NextStopped, Drop, SubscriptionClose
<1>4. ASSUME NEW s \in Sub, CloseSubscriber(s) \/ SubscriptionCloseEnd(s) PROVE UNCHANGED dispVars
  BY Zenon, <1>4 DEF CloseSubscriber, SubscriptionCloseEnd
<1>5. ASSUME \/ CloseTopic \/ BusClose \/ CloseMark \/ CloseTake \/ CloseSubscriberEgress
             \/ CloseDone
      PROVE  UNCHANGED dispVars
  BY Zenon, <1>5 DEF CloseTopic, BusClose, CloseMark, CloseTake, CloseSubscriberEgress, CloseDone
<1> QED BY Zenon, <1>1, <1>2, <1>3, <1>4, <1>5 DEF Next, CloseStep, Publishing, Subscribing

\* A message comes into the dispatcher's hands in two ways only.
LEMMA HandingKept ==
  ASSUME TypeOK, Next, disp' \in Handing
  PROVE  \/ disp \in Handing /\ payload' = payload
         \/ ReceiveBuffered
         \/ \E m \in Msg : SendHands(m)
<1> USE DEF Handing
<1>1. CASE UNCHANGED dispVars
  BY Zenon, <1>1
<1>2. ASSUME NEW m \in Msg, Publish(m) PROVE disp \in Handing /\ payload' = payload
  BY Zenon, <1>2 DEF Publish, GetOrCreateTopic
<1>3. ASSUME Dispatch, ~ReceiveBuffered PROVE disp \in Handing /\ payload' = payload
  BY Zenon, <1>3 DEF Dispatch, ReceiveWaits, Collect, FanDone, EgressFails, EgressHands, EgressBuffers,
       EgressWaits, FanSkip, FanTo
<1>4. ASSUME NEW s \in Sub, NextBuffered(s) PROVE disp \in Handing /\ payload' = payload
  BY Zenon, <1>4 DEF NextBuffered
<1>5. ASSUME CloseIngress PROVE disp \in Handing /\ payload' = payload
  BY Zenon, <1>5 DEF CloseIngress
<1> QED BY Zenon, <1>1, <1>2, <1>3, <1>4, <1>5, DispKept

\* The buffer stays the end of the log: a send adds to both, and a receive
\* takes the oldest message and lets the first waiting sender in behind.
LEMMA LogStep ==
  ASSUME TypeOK, WaitsForAReason, LogInv, Next
  PROVE  LogInv'
<1> DEFINE b == ingress.buf
<1>0. /\ b \in Seq(Msg) /\ log \in Seq(Msg) /\ Len(b) \in Nat /\ Len(log) \in Nat
      /\ Len(b) <= Len(log) /\ Taken = Len(log) - Len(b)
      /\ \A j \in 1..Len(b) : b[j] = log[Len(log) - Len(b) + j]
      /\ disp \in Handing => Len(log) - Len(b) >= 1 /\ payload = log[Len(log) - Len(b)]
  BY IngressShape DEF LogInv, Taken
<1>1. ASSUME log' = log, ingress'.buf = b, disp' \in Handing => disp \in Handing /\ payload' = payload
      PROVE  LogInv'
  BY Zenon, <1>0, <1>1 DEF LogInv, Taken
<1>2. ASSUME NEW m \in Msg, SendHands(m) PROVE LogInv'
  <2>1. b = <<>> /\ ingress' = ingress /\ log' = Append(log, m) /\ payload' = m
    BY Zenon, <1>2 DEF SendHands, WaitsForAReason
  <2>2. Len(log') = Len(log) + 1 /\ log'[Len(log) + 1] = m /\ Len(ingress'.buf) = 0
    BY <1>0, <2>1, AppendFacts
  <2>3. Taken' = Len(log) + 1 /\ log'[Taken'] = m /\ \A j \in 1..Len(ingress'.buf) : FALSE
    BY <1>0, <2>2 DEF Taken
  <2> QED BY <1>0, <2>1, <2>3 DEF LogInv
<1>3. ASSUME NEW m \in Msg, SendBuffers(m) PROVE LogInv'
  <2>1. /\ ingress'.buf = Append(b, m) /\ log' = Append(log, m)
        /\ disp' = disp /\ payload' = payload
    BY Zenon, <1>3, IngressShape DEF SendBuffers
  <2> DEFINE c == ingress'.buf
  <2>2. /\ Len(c) = Len(b) + 1 /\ c[Len(b) + 1] = m /\ \A j \in 1..Len(b) : c[j] = b[j]
        /\ Len(log') = Len(log) + 1 /\ log'[Len(log) + 1] = m
        /\ \A j \in 1..Len(log) : log'[j] = log[j]
    BY <1>0, <2>1, AppendFacts
  <2> HIDE DEF b, c
  <2>3. /\ Len(log') - Len(c) = Len(log) - Len(b)
        /\ \A j \in 1..Len(c) : c[j] = log'[Len(log') - Len(c) + j]
        /\ disp' \in Handing => payload' = log'[Len(log) - Len(b)]
    <3>1. Len(log') - Len(c) = Len(log) - Len(b)
      BY <1>0, <2>2
    <3>2. ASSUME NEW j \in 1..Len(c) PROVE c[j] = log'[Len(log) - Len(b) + j]
      <4>1. CASE j = Len(b) + 1
        BY <1>0, <2>2, <4>1
      <4>2. CASE j \in 1..Len(b)
        <5>1. Len(log) - Len(b) + j \in 1..Len(log)
          BY <1>0, <4>2
        <5> QED BY Zenon, <1>0, <2>2, <4>2, <5>1
      <4> QED BY SMTT(30), <1>0, <2>2, <4>1, <4>2
    <3>3. ASSUME disp' \in Handing PROVE payload' = log'[Len(log) - Len(b)]
      <4>1. Len(log) - Len(b) \in 1..Len(log) /\ payload = log[Len(log) - Len(b)]
        BY <1>0, <2>1, <3>3
      <4> QED BY Zenon, <2>1, <2>2, <4>1
    <3> QED BY Zenon, <3>1, <3>2, <3>3
  <2> QED BY <1>0, <2>1, <2>3, ZenonT(60) DEF LogInv, Taken, c
<1>4. CASE ReceiveBuffered
  <2>1. b # <<>> /\ disp' = "handle" /\ payload' = Head(b)
    BY Zenon, <1>4 DEF ReceiveBuffered
  <2>2. /\ Tail(b) \in Seq(Msg) /\ Head(b) = b[1] /\ Len(b) >= 1 /\ Len(Tail(b)) = Len(b) - 1
        /\ \A i \in 1..(Len(b) - 1) : Tail(b)[i] = b[i + 1]
    BY Zenon, <1>0, <2>1, TailFacts
  <2>3. CASE ingress.senders = <<>>
    <3>1. ingress'.buf = Tail(b) /\ log' = log
      BY Zenon, <1>4, <2>3, IngressShape DEF ReceiveBuffered
    <3> HIDE DEF b
    <3>2. \A j \in 1..Len(ingress'.buf) : ingress'.buf[j] = log'[Len(log') - Len(ingress'.buf) + j]
      BY <1>0, <2>2, <3>1
    <3> QED BY <1>0, <2>1, <2>2, <3>1, <3>2 DEF LogInv, Taken
  <2>4. CASE ingress.senders # <<>>
    <3> DEFINE m == Head(ingress.senders)
               c == ingress'.buf
    <3>1. ingress'.buf = Append(Tail(b), m) /\ log' = Append(log, m) /\ m \in Msg
      BY <1>4, <2>4, IngressShape, TailFacts, ZenonT(60) DEF ReceiveBuffered
    <3> HIDE DEF m
    <3>2. /\ Len(c) = Len(b) /\ c[Len(b)] = m /\ \A j \in 1..(Len(b) - 1) : c[j] = b[j + 1]
          /\ Len(log') = Len(log) + 1 /\ log'[Len(log) + 1] = m
          /\ \A j \in 1..Len(log) : log'[j] = log[j]
      BY <1>0, <2>2, <3>1, AppendFacts
    <3> HIDE DEF b, c
    <3>3. \A j \in 1..Len(c) : c[j] = log'[Len(log') - Len(c) + j]
      <4> SUFFICES ASSUME NEW j \in 1..Len(c) PROVE c[j] = log'[Len(log) + 1 - Len(b) + j]
        BY <3>2
      <4>1. CASE j = Len(b)
        BY <1>0, <3>2, <4>1
      <4>2. CASE j \in 1..(Len(b) - 1)
        <5>1. /\ j + 1 \in 1..Len(b) /\ Len(log) - Len(b) + (j + 1) \in 1..Len(log)
              /\ Len(log) + 1 - Len(b) + j = Len(log) - Len(b) + (j + 1)
          BY <1>0, <4>2
        <5> QED BY Zenon, <1>0, <3>2, <4>2, <5>1
      <4> QED BY <1>0, <3>2, <4>1, <4>2
    <3>4. /\ Len(log') - Len(c) = Len(log) - Len(b) + 1 /\ Len(log) - Len(b) + 1 >= 1
          /\ Len(log) - Len(b) + 1 \in 1..Len(log)
          /\ b[1] = log[Len(log) - Len(b) + 1]
      BY <1>0, <2>2, <3>2
    <3>5. payload' = log'[Len(log) - Len(b) + 1]
      BY Zenon, <2>1, <2>2, <3>2, <3>4
    <3>6. Taken' = Len(log) - Len(b) + 1 /\ Taken' = Len(log') - Len(c) /\ Taken' >= 1
      BY Zenon, <3>4 DEF Taken, c
    <3>7. \A j \in 1..Len(c) : c[j] = log'[Taken' + j]
      BY <3>3, <3>6, ZenonT(60)
    <3>8. payload' = log'[Taken'] /\ Taken' >= 0
      BY <1>0, <3>5, <3>6
    <3> QED BY Zenon, <3>6, <3>7, <3>8 DEF LogInv, c
  <2> QED BY Zenon, <2>3, <2>4
<1>5. ASSUME NEW m \in Msg, SendWaits(m) \/ PublishStopped(m) PROVE log' = log /\ ingress'.buf = b
  BY Zenon, <1>5, IngressShape DEF SendWaits, PublishStopped
<1>6. ASSUME CloseIngress PROVE log' = log /\ ingress'.buf = b
  BY Zenon, <1>6, IngressShape DEF CloseIngress
<1>7. \/ UNCHANGED <<ingress, log>>
      \/ log' = log /\ ingress'.buf = b
      \/ ReceiveBuffered
      \/ \E m \in Msg : SendHands(m) \/ SendBuffers(m)
  BY Zenon, <1>5, <1>6, InSteps
<1> QED BY Zenon, <1>1, <1>2, <1>3, <1>4, <1>7, HandingKept

\* Every step of the dispatcher keeps its target and its list in order.
LEMMA DispatchStep ==
  ASSUME TypeOK, WaitsForAReason, DispatchInv, Next
  PROVE  DispatchInv'
<1> USE BusAssumption DEF DispatchInv, TypeOK, TopicTypeOK
<1>1. CASE UNCHANGED <<dispVars, inVars>>
  BY Zenon, <1>1
<1>2. ASSUME NEW m \in Msg, Publishing(m) PROVE DispatchInv'
  <2>1. DOMAIN pub = Msg /\ ingress'.open = ingress.open
    BY Zenon, <1>2, IngressShape DEF Publishing, PublishRefused, Publish, PublishStep, PublishStopped,
         SendFails, SendHands, SendBuffers, SendWaits
  <2>2. CASE PublishRefused(m) \/ SendFails(m) \/ PublishStopped(m)
    BY Zenon, <2>1, <2>2, IngressShape DEF PublishRefused, PublishStopped, SendFails
  <2>3. CASE Publish(m) \/ SendHands(m)
    BY Zenon, <2>1, <2>3, IngressShape DEF Publish, GetOrCreateTopic, SendHands
  <2>4. CASE SendBuffers(m) \/ SendWaits(m)
    BY Zenon, <2>1, <2>4, IngressShape DEF SendBuffers, SendWaits, Complete
  <2> QED BY Zenon, <1>2, <2>2, <2>3, <2>4 DEF Publishing, PublishStep
<1>3. CASE Dispatch
  <2>1. CASE ReceiveBuffered
    <3>1. ingress'.open = ingress.open
      BY Zenon, <2>1, IngressShape DEF ReceiveBuffered
    <3> QED BY Zenon, <2>1, <3>1 DEF ReceiveBuffered
  <2>2. CASE ReceiveWaits \/ Collect \/ FanDone
    BY Zenon, <2>2 DEF ReceiveWaits, Collect, FanDone
  <2>3. CASE EgressFails \/ EgressHands \/ EgressBuffers \/ EgressWaits
    BY Zenon, <2>3 DEF EgressFails, EgressHands, EgressBuffers, EgressWaits
  <2>4. ASSUME NEW s \in Sub, FanSkip(s) \/ FanTo(s) PROVE DispatchInv'
    BY Zenon, <2>4 DEF FanSkip, FanTo
  <2> QED BY Zenon, <1>3, <2>1, <2>2, <2>3, <2>4 DEF Dispatch
<1>4. ASSUME NEW s \in Sub, NextBuffered(s) PROVE DispatchInv'
  BY Zenon, <1>4 DEF NextBuffered
<1>5. CASE CloseIngress
  <2>1. ingress'.open = FALSE
    BY Zenon, <1>5, IngressShape DEF CloseIngress
  <2> QED BY Zenon, <1>5, <2>1 DEF CloseIngress
<1>6. CASE disp = "none" /\ disp' = "receive" /\ UNCHANGED <<payload, target, todo, inVars>>
  BY Zenon, <1>6
<1> QED BY Zenon, <1>1, <1>2, <1>3, <1>4, <1>5, <1>6, DispKept, InKept DEF Dispatch, Publishing, PublishStep

\* What a step does to the next() calls.
LEMMA NextSteps ==
  ASSUME TypeOK, Next
  PROVE  \/ UNCHANGED next
         \/ \E s \in Sub : NextClosed(s) \/ NextCall(s) \/ NextStep(s) \/ NextStopped(s)
         \/ EgressHands
         \/ \E s \in Sub : SubscriptionCloseEnd(s)
         \/ CloseSubscriberEgress
<1>1. ASSUME NEW m \in Msg, Publishing(m) PROVE UNCHANGED next
  BY Zenon, <1>1 DEF Publishing, PublishRefused, Publish, PublishStep, PublishStopped, SendFails,
              SendHands, SendBuffers, SendWaits
<1>2. CASE ReceiveBuffered \/ ReceiveWaits \/ Collect \/ FanDone \/ EgressFails \/ EgressBuffers
           \/ EgressWaits \/ (\E s \in Sub : FanSkip(s) \/ FanTo(s))
  BY Zenon, <1>2 DEF ReceiveBuffered, ReceiveWaits, Collect, FanDone, EgressFails, EgressBuffers,
       EgressWaits, FanSkip, FanTo
<1>3. CASE \E s \in Sub : SubscribeRefused(s) \/ Subscribe(s) \/ SubscribeClosed(s)
                          \/ AddSubscriber(s) \/ Drop(s) \/ SubscriptionClose(s)
  BY Zenon, <1>3 DEF SubscribeRefused, Subscribe, SubscribeClosed, AddSubscriber, Drop, SubscriptionClose
<1>4. CASE CloseTopic \/ BusClose \/ CloseMark \/ CloseIngress \/ CloseTake \/ CloseDone
           \/ \E s \in Sub : CloseSubscriber(s)
  BY Zenon, <1>4 DEF CloseTopic, BusClose, CloseMark, CloseIngress, CloseTake, CloseDone, CloseSubscriber
<1> QED BY Zenon, <1>1, <1>2, <1>3, <1>4 DEF Next, Dispatch, CloseStep, Publishing

\* The first half of WaitsForAReason: who waits at the ingress channel.
IngressWaits ==
  /\ ingress.senders # <<>> =>
       Len(ingress.buf) = TopicCap /\ disp \notin {"none", "waiting", "ended"}
  /\ disp = "waiting" => ingress.open /\ ingress.buf = <<>>

\* The second half: who waits at the egress channels.
EgressesWait ==
  /\ \A s \in Sub : next[s] = "waiting" =>
       egress[s].open /\ egress[s].buf = <<>> /\ ~(disp = "blocked" /\ target = s)
  /\ disp = "blocked" => Len(egress[target].buf) = SubCap

\* A publish waits only behind a full buffer, and the dispatcher only at an
\* empty one.
LEMMA IngressWaitsStep ==
  ASSUME TypeOK, WaitsForAReason, DispatchInv, SenderInv, Next
  PROVE  IngressWaits'
<1> USE BusAssumption DEF IngressWaits
<1>0. /\ IngressWaits /\ ingress.buf \in Seq(Msg) /\ ingress.senders \in Seq(Msg)
      /\ Len(ingress.buf) \in Nat /\ Len(ingress.senders) \in Nat
      /\ disp \in {"none", "receive", "waiting", "handle", "fan", "sending", "blocked", "ended"}
  BY Zenon, IngressShape DEF WaitsForAReason, TypeOK, TopicTypeOK
<1>1. CASE UNCHANGED <<ingress, disp>>
  BY Zenon, <1>0, <1>1
<1>2. ASSUME NEW m \in Msg, Publishing(m) PROVE IngressWaits'
  <2>1. CASE PublishRefused(m) \/ SendFails(m) \/ Publish(m) \/ SendHands(m)
    BY Zenon, <1>0, <2>1 DEF PublishRefused, SendFails, Publish, GetOrCreateTopic, SendHands
  <2>2. CASE SendBuffers(m)
    <3>1. /\ ingress'.senders = ingress.senders /\ ingress'.buf = Append(ingress.buf, m)
          /\ Len(ingress.buf) < TopicCap /\ disp' = disp /\ disp # "waiting"
      BY Zenon, <2>2, IngressShape DEF SendBuffers
    <3>2. ingress.senders = <<>>
      BY <1>0, <3>1
    <3> QED BY Zenon, <3>1, <3>2
  <2>3. CASE SendWaits(m)
    <3>1. ingress'.buf = ingress.buf /\ ingress'.open = ingress.open /\ disp' = disp
      BY Zenon, <2>3, IngressShape DEF SendWaits
    <3>2. Len(ingress.buf) = TopicCap /\ disp # "waiting" /\ disp # "none" /\ disp # "ended"
      <4>1. Len(ingress.buf) = TopicCap
        BY <2>3, IngressShape DEF SendWaits
      <4>2. disp # "waiting"
        BY Zenon, <1>0, <4>1
      <4> QED BY Zenon, <2>3, <4>1, <4>2 DEF SendWaits, DispatchInv
    <3> QED BY Zenon, <3>1, <3>2
  <2>4. CASE PublishStopped(m)
    <3>1. ingress'.buf = ingress.buf /\ ingress'.open = ingress.open /\ disp' = disp
      BY Zenon, <2>4, IngressShape DEF PublishStopped
    <3>2. ingress.senders # <<>>
      BY <1>0, <2>4 DEF PublishStopped
    <3> QED BY Zenon, <1>0, <3>1, <3>2
  <2> QED BY Zenon, <1>2, <2>1, <2>2, <2>3, <2>4 DEF Publishing, PublishStep
<1>3. CASE ReceiveBuffered
  <2>1. disp' = "handle"
    BY Zenon, <1>3 DEF ReceiveBuffered
  <2>2. CASE ingress.senders = <<>>
    <3>1. ingress'.senders = <<>>
      BY Zenon, <1>3, <2>2, IngressShape DEF ReceiveBuffered
    <3> QED BY Zenon, <2>1, <3>1
  <2>3. CASE ingress.senders # <<>>
    <3> DEFINE m == Head(ingress.senders)
    <3>1. ingress'.buf = Append(Tail(ingress.buf), m) /\ m \in Msg
      BY Zenon, <1>3, <2>3, IngressShape, TailFacts DEF ReceiveBuffered
    <3>2. Tail(ingress.buf) \in Seq(Msg) /\ Len(Tail(ingress.buf)) = Len(ingress.buf) - 1
      BY Zenon, <1>0, <1>3, TailFacts DEF ReceiveBuffered
    <3>3. Len(ingress'.buf) = Len(ingress.buf)
      BY <1>0, <3>1, <3>2, AppendFacts
    <3> QED BY Zenon, <1>0, <2>1, <2>3, <3>3
  <2> QED BY Zenon, <2>2, <2>3
<1>4. CASE Dispatch /\ ~ReceiveBuffered
  <2>1. ingress' = ingress
    BY Zenon, <1>4 DEF Dispatch, ReceiveWaits, Collect, FanDone, EgressFails, EgressHands, EgressBuffers,
         EgressWaits, FanSkip, FanTo
  <2>2. CASE ReceiveWaits
    BY Zenon, <1>0, <2>1, <2>2 DEF ReceiveWaits
  <2>3. CASE disp \notin {"none", "waiting", "ended"} /\ disp' \notin {"none", "waiting", "ended"}
    BY Zenon, <1>0, <2>1, <2>3
  <2> QED BY Zenon, <1>4, <2>2, <2>3 DEF Dispatch, Collect, FanDone, EgressFails, EgressHands, EgressBuffers,
         EgressWaits, FanSkip, FanTo
<1>5. ASSUME NEW s \in Sub, NextBuffered(s) PROVE IngressWaits'
  BY Zenon, <1>0, <1>5 DEF NextBuffered
<1>6. CASE CloseIngress
  <2>1. ingress'.buf = ingress.buf /\ ingress'.senders = ingress.senders
    BY Zenon, <1>6, IngressShape DEF CloseIngress
  <2> QED BY Zenon, <1>0, <1>6, <2>1 DEF CloseIngress
<1>7. CASE disp = "none" /\ disp' = "receive" /\ UNCHANGED inVars
  BY Zenon, <1>0, <1>7
<1>8. \/ UNCHANGED dispVars /\ UNCHANGED inVars
      \/ disp = "none" /\ disp' = "receive" /\ UNCHANGED inVars
      \/ \E m \in Msg : Publishing(m)
      \/ Dispatch \/ (\E s \in Sub : NextBuffered(s)) \/ CloseIngress
  BY Zenon, DispKept, InKept DEF Publishing, PublishStep, Dispatch
<1> QED BY Zenon, <1>1, <1>2, <1>3, <1>4, <1>5, <1>6, <1>7, <1>8

\* The fan-out comes to wait at an egress channel in one way only.
LEMMA BlockedKept ==
  ASSUME Next, disp' = "blocked"
  PROVE  (disp = "blocked" /\ target' = target) \/ EgressWaits
<1>1. CASE UNCHANGED dispVars
  BY Zenon, <1>1
<1>2. ASSUME NEW m \in Msg, Publish(m) \/ SendHands(m) PROVE disp = "blocked" /\ target' = target
  BY Zenon, <1>2 DEF Publish, GetOrCreateTopic, SendHands
<1>3. ASSUME Dispatch, ~EgressWaits PROVE FALSE
  BY Zenon, <1>3 DEF Dispatch, ReceiveBuffered, ReceiveWaits, Collect, FanDone, EgressFails, EgressHands,
       EgressBuffers, FanSkip, FanTo
<1>4. ASSUME NEW s \in Sub, NextBuffered(s) PROVE disp = "blocked" /\ target' = target
  BY Zenon, <1>4 DEF NextBuffered
<1>5. ASSUME CloseIngress PROVE disp = "blocked" /\ target' = target
  BY Zenon, <1>5 DEF CloseIngress
<1> QED BY Zenon, <1>1, <1>2, <1>3, <1>4, <1>5, DispKept

\* next() waits only at an empty egress channel, and the fan-out only at a full
\* one.
LEMMA EgressesWaitStep ==
  ASSUME TypeOK, WaitsForAReason, DispatchInv, LogInv, Next
  PROVE  EgressesWait'
<1> USE BusAssumption DEF EgressesWait
<1>0. /\ EgressesWait /\ next \in [Sub -> {"idle", "checked", "waiting", "nullopt"}]
      /\ \A s \in Sub : egress[s].buf \in Seq(Msg) /\ Len(egress[s].buf) \in Nat
      /\ disp = "blocked" => target \in Sub
  BY Zenon, EgressShape, InHand DEF WaitsForAReason, TypeOK, SubTypeOK
<1>1. CASE EgressWaits
  <2>1. /\ UNCHANGED <<egress, next, target>> /\ disp = "sending" /\ target \in Sub
        /\ Len(egress[target].buf) = SubCap
    <3>1. UNCHANGED <<egress, next, target>> /\ disp = "sending" /\ Len(egress[target].buf) >= SubCap
      BY Zenon, <1>1 DEF EgressWaits
    <3>2. target \in Sub
      BY Zenon, <3>1, InHand
    <3>3. Len(egress[target].buf) \in Nat /\ Len(egress[target].buf) <= SubCap
      BY Zenon, <3>2, EgressShape
    <3>4. Len(egress[target].buf) = SubCap
      BY <3>1, <3>3
    <3> QED BY Zenon, <3>1, <3>2, <3>4
  <2>2. egress[target].buf # <<>>
    BY Zenon, <2>1
  <2> QED BY Zenon, <1>0, <2>1, <2>2
<1>2. CASE ~EgressWaits
  <2>0. disp' = "blocked" => disp = "blocked" /\ target' = target
    BY Zenon, <1>2, BlockedKept
  <2>1. CASE UNCHANGED <<egress, next>>
    BY Zenon, <1>0, <2>0, <2>1
  <2>2. CASE EgressHands
    BY Zenon, <1>0, <2>2 DEF EgressHands
  <2>3. CASE EgressBuffers
    <3>1. target \in Sub /\ payload \in Msg /\ disp' = "fan" /\ next' = next /\ next[target] # "waiting"
      BY Zenon, <2>3, InHand DEF EgressBuffers, Handing
    <3>2. \A q \in Sub \ {target} : egress'[q] = egress[q]
      BY Zenon, <2>3, <3>1, EgressBuffersShape
    <3> QED BY Zenon, <1>0, <3>1, <3>2
  <2>4. ASSUME NEW s \in Sub, NextBuffered(s) PROVE EgressesWait'
    <3>1. \A q \in Sub \ {s} : egress'[q] = egress[q] /\ next'[q] = next[q]
      BY <1>0, <2>4, InHand, NextBufferedShape, ZenonT(60) DEF NextBuffered, Handing
    <3>2. next'[s] = "idle" /\ (disp' = "blocked" => target # s)
      BY Zenon, <1>0, <2>4 DEF NextBuffered
    <3> QED BY Zenon, <1>0, <2>0, <3>1, <3>2
  <2>5. ASSUME NEW s \in Sub, NextWaits(s) PROVE EgressesWait'
    <3>1. disp = "blocked" => target # s
      BY <1>0, <2>5 DEF NextWaits
    <3> QED BY Zenon, <1>0, <2>0, <2>5, <3>1 DEF NextWaits
  <2>6. ASSUME NEW s \in Sub, NextClosed(s) \/ NextCall(s) \/ NextEnds(s) \/ NextStopped(s)
        PROVE  EgressesWait'
    BY Zenon, <1>0, <2>0, <2>6 DEF NextClosed, NextCall, NextEnds, NextStopped
  <2>7. ASSUME NEW s \in Sub, EgressClose(s) PROVE EgressesWait'
    BY <1>0, <2>0, <2>7, EgressCloseShape, ZenonT(60)
  <2>8. CASE CloseSubscriberEgress
    <3>1. victim \in Sub
      BY SMTT(30), <2>8 DEF CloseSubscriberEgress, TypeOK, TopicTypeOK
    <3> QED BY Zenon, <2>7, <2>8, <3>1 DEF CloseSubscriberEgress
  <2> QED BY Zenon, <2>1, <2>2, <2>3, <2>4, <2>5, <2>6, <2>7, <2>8, NextSteps, OutSteps
        DEF NextStep, SubscriptionCloseEnd
<1> QED BY Zenon, <1>1, <1>2

\* Nobody waits at a channel without a reason, after any step.
LEMMA WaitsStep ==
  ASSUME TypeOK, WaitsForAReason, DispatchInv, LogInv, SenderInv, Next
  PROVE  WaitsForAReason'
BY Zenon, IngressWaitsStep, EgressesWaitStep DEF WaitsForAReason, IngressWaits, EgressesWait

-----------------------------------------------------------------------------
(* The streams: StreamInv. *)

\* Putting pieces of a stream together.
LEMMA ConcatFacts ==
  ASSUME NEW S, NEW a \in Seq(S), NEW b \in Seq(S)
  PROVE  /\ a \o b \in Seq(S) /\ a \o <<>> = a
         /\ \A e \in S : a \o Append(b, e) = Append(a \o b, e) /\ a \o <<e>> = Append(a, e)
         /\ b # <<>> => Append(a, Head(b)) \o Tail(b) = a \o b
<1>1. a \o b \in Seq(S) /\ a \o <<>> = a
  OBVIOUS
<1>2. ASSUME NEW e \in S PROVE a \o Append(b, e) = Append(a \o b, e) /\ a \o <<e>> = Append(a, e)
  OBVIOUS
<1>3. ASSUME b # <<>> PROVE Append(a, Head(b)) \o Tail(b) = a \o b
  BY SMTT(30), <1>3
<1> QED BY <1>1, <1>2, <1>3, ZenonT(60)

\* What was received, what the channel holds, and what waits to enter it.
LEMMA JoinShape ==
  ASSUME NEW a \in Seq(Msg), NEW b \in Seq(Msg), NEW on \in BOOLEAN, NEW p, on => p \in Msg
  PROVE  /\ (a \o b \o IF on THEN <<p>> ELSE <<>>) \in Seq(Msg)
         /\ on => (a \o b \o IF on THEN <<p>> ELSE <<>>) = Append(a \o b, p)
         /\ ~on => (a \o b \o IF on THEN <<p>> ELSE <<>>) = a \o b
<1> DEFINE x == a \o b
<1>1. x \in Seq(Msg)
  BY Zenon, ConcatFacts
<1> HIDE DEF x
<1>2. CASE on
  <2>1. x \o <<p>> = Append(x, p) /\ Append(x, p) \in Seq(Msg)
    BY <1>1, <1>2, ConcatFacts, AppendFacts
  <2> QED BY Zenon, <1>2, <2>1 DEF x
<1>3. CASE ~on
  <2>1. x \o <<>> = x
    BY Zenon, <1>1, ConcatFacts
  <2> QED BY Zenon, <1>1, <1>3, <2>1 DEF x
<1> QED BY Zenon, <1>2, <1>3

\* The three ways in which the message in hand gets to the subscriber it is
\* being sent to.
Sends == EgressHands \/ EgressBuffers \/ EgressWaits

\* The dispatcher waits with a message that was in its hands before.
LEMMA BlockedPayload ==
  ASSUME TypeOK, DispatchInv, LogInv, Next
  PROVE  /\ disp = "blocked" => payload \in Msg
         /\ disp' = "blocked" => payload' \in Msg /\ payload' = payload
<1>1. disp = "blocked" => payload \in Msg
  BY Zenon, InHand DEF Handing
<1>2. ASSUME disp' = "blocked" PROVE payload' \in Msg /\ payload' = payload
  <2>1. disp \in {"blocked", "sending"}
    BY Zenon, <1>2, BlockedKept DEF EgressWaits
  <2>2. ~ReceiveBuffered /\ \A m \in Msg : ~SendHands(m)
    BY Zenon, <1>2 DEF ReceiveBuffered, SendHands
  <2>3. payload' = payload
    BY Zenon, <1>2, <2>2, HandingKept DEF Handing
  <2> QED BY Zenon, <2>1, <2>3, InHand DEF Handing
<1> QED BY Zenon, <1>1, <1>2

\* What a step does to a stream: nothing, or the message in hand is added to
\* the stream of the subscriber it is being sent to.
LEMMA StreamSteps ==
  ASSUME TypeOK, WaitsForAReason, DispatchInv, LogInv, TypeOK', Next, NEW s \in Sub
  PROVE  /\ Stream(s) \in Seq(Msg)
         /\ Stream(s)' = IF Sends /\ target = s THEN Append(Stream(s), payload) ELSE Stream(s)
<1> USE DEF Sends
<1> DEFINE On == disp = "blocked" /\ target = s
           a == seen[s]
           b == egress[s].buf
<1>0. /\ a \in Seq(Msg) /\ b \in Seq(Msg) /\ a' \in Seq(Msg) /\ b' \in Seq(Msg)
      /\ On \in BOOLEAN /\ On' \in BOOLEAN
      /\ On => payload \in Msg
      /\ On' => payload' \in Msg /\ payload' = payload
  BY Zenon, BlockedPayload DEF TypeOK, EgressTypeOK
<1>1. /\ Stream(s) = a \o b \o IF On THEN <<payload>> ELSE <<>>
      /\ Stream(s)' = a' \o b' \o IF On' THEN <<payload'>> ELSE <<>>
  BY Zenon DEF Stream
<1> HIDE DEF On, a, b
<1>2. /\ Stream(s) \in Seq(Msg)
      /\ On => Stream(s) = Append(a \o b, payload)
      /\ ~On => Stream(s) = a \o b
  <2> DEFINE x == a \o b \o IF On THEN <<payload>> ELSE <<>>
  <2>1. x \in Seq(Msg) /\ (On => x = Append(a \o b, payload)) /\ (~On => x = a \o b)
    BY SMTT(30), <1>0, JoinShape
  <2> HIDE DEF x
  <2>2. Stream(s) = x
    BY Zenon, <1>1 DEF x
  <2> QED BY Zenon, <2>1, <2>2
<1>3. /\ On' => Stream(s)' = Append(a' \o b', payload)
      /\ ~On' => Stream(s)' = a' \o b'
  <2> DEFINE y == a' \o b' \o IF On' THEN <<payload'>> ELSE <<>>
  <2>1. (On' => y = Append(a' \o b', payload')) /\ (~On' => y = a' \o b')
    BY SMTT(30), <1>0, JoinShape
  <2> HIDE DEF y
  <2>2. Stream(s)' = y /\ (On' => payload' = payload)
    BY Zenon, <1>0, <1>1 DEF y
  <2> QED BY Zenon, <2>1, <2>2
<1>4. ASSUME a' = a, b' = b, On' <=> On PROVE Stream(s)' = Stream(s)
  BY Zenon, <1>2, <1>3, <1>4
<1>5. ASSUME ~EgressWaits, \A q \in Sub : ~NextBuffered(q), On PROVE On'
  <2>1. disp = "blocked" /\ target = s
    BY Zenon, <1>5 DEF On
  <2>2. disp' = "blocked" /\ target' = target
    BY Zenon, <1>5, <2>1, DispKept DEF Publish, GetOrCreateTopic, SendHands, Dispatch, ReceiveBuffered, ReceiveWaits,
       Collect, FanDone, EgressFails, EgressHands, EgressBuffers, FanSkip, FanTo, CloseIngress
  <2> QED BY Zenon, <2>1, <2>2 DEF On
<1>6. ASSUME ~EgressWaits, On' PROVE On
  BY Zenon, <1>6, BlockedKept DEF On
<1>7. CASE EgressWaits
  <2>1. a' = a /\ b' = b /\ (On' <=> target = s) /\ ~On
    BY Zenon, <1>7 DEF EgressWaits, On, a, b
  <2>2. CASE target = s
    BY Zenon, <1>2, <1>3, <1>7, <2>1, <2>2
  <2> QED BY <1>2, <1>3, <2>1, <2>2, ZenonT(60)
<1>8. CASE EgressHands
  <2>1. target \in Sub /\ disp = "sending" /\ disp' = "fan" /\ payload \in Msg
    BY Zenon, <1>8, InHand DEF EgressHands, Handing
  <2>2. ~On /\ ~On' /\ b' = b
    BY Zenon, <1>8, <2>1 DEF EgressHands, On, b
  <2>3. CASE target = s
    <3>1. b = <<>> /\ a' = Append(a, payload)
      BY Zenon, <1>8, <2>3 DEF EgressHands, WaitsForAReason, a, b, TypeOK, EgressTypeOK
    <3>2. a \o b = a /\ a' \o b' = Append(a, payload)
      BY Zenon, <1>0, <2>2, <3>1, ConcatFacts
    <3> QED BY Zenon, <1>2, <1>3, <1>8, <2>2, <2>3, <3>2
  <2>4. CASE target # s
    <3>1. a' = a
      BY Zenon, <1>8, <2>1, <2>4 DEF EgressHands, a, TypeOK, EgressTypeOK
    <3> QED BY Zenon, <1>2, <1>4, <2>2, <2>4, <3>1
  <2> QED BY Zenon, <1>2, <2>3, <2>4
<1>9. CASE EgressBuffers
  <2>1. target \in Sub /\ disp = "sending" /\ disp' = "fan" /\ payload \in Msg
    BY Zenon, <1>9, InHand DEF EgressBuffers, Handing
  <2>2. ~On /\ ~On' /\ a' = a
    BY Zenon, <1>9, <2>1 DEF EgressBuffers, On, a
  <2>3. CASE target = s
    <3>1. b' = Append(b, payload)
      BY Zenon, <1>9, <2>1, <2>3, EgressBuffersShape DEF b
    <3>2. a' \o b' = Append(a \o b, payload)
      BY <1>0, <2>1, <2>2, <3>1, ConcatFacts
    <3> QED BY <1>2, <1>3, <1>9, <2>2, <2>3, <3>2, ZenonT(60)
  <2>4. CASE target # s
    <3>1. b' = b
      BY Zenon, <1>9, <2>1, <2>4, EgressBuffersShape DEF b
    <3> QED BY Zenon, <1>2, <1>4, <2>2, <2>4, <3>1
  <2> QED BY Zenon, <2>3, <2>4
<1>10. ASSUME NEW q \in Sub, NextBuffered(q) PROVE Stream(s)' = Stream(s)
  <2>0. disp = "blocked" => payload \in Msg
    BY Zenon, InHand DEF Handing
  <2>1. CASE q # s
    <3>1. a' = a /\ b' = b /\ (On' <=> On)
      BY <1>10, <2>0, <2>1, NextBufferedShape, ZenonT(60) DEF a, b, On, NextBuffered
    <3> QED BY Zenon, <1>4, <3>1
  <2>2. CASE q = s /\ On
    <3>1. a' = Append(a, Head(b)) /\ b' = Append(Tail(b), payload) /\ b # <<>> /\ ~On'
      BY Zenon, <1>10, <2>0, <2>2, NextBufferedShape DEF a, b, On, NextBuffered, TypeOK, EgressTypeOK
    <3>2. Tail(b) \in Seq(Msg) /\ Append(a, Head(b)) \in Seq(Msg) /\ payload \in Msg
      BY Zenon, <1>0, <2>2, <3>1, TailFacts, AppendFacts
    <3>3. a' \o b' = Append(Append(a, Head(b)) \o Tail(b), payload)
      BY <3>1, <3>2, ConcatFacts
    <3>4. Append(a, Head(b)) \o Tail(b) = a \o b
      BY <1>0, <3>1, ConcatFacts
    <3> QED BY Zenon, <1>2, <1>3, <2>2, <3>1, <3>3, <3>4
  <2>3. CASE q = s /\ ~On
    <3>1. a' = Append(a, Head(b)) /\ b' = Tail(b) /\ b # <<>> /\ ~On'
      BY Zenon, <1>10, <2>0, <2>3, NextBufferedShape DEF a, b, On, NextBuffered, TypeOK, EgressTypeOK
    <3>2. Append(a, Head(b)) \o Tail(b) = a \o b
      BY SMTT(30), <1>0, <3>1, ConcatFacts
    <3> QED BY Zenon, <1>2, <1>3, <2>3, <3>1, <3>2
  <2> QED BY Zenon, <2>1, <2>2, <2>3
<1>11. ASSUME NEW q \in Sub, EgressClose(q) PROVE a' = a /\ b' = b
  BY Zenon, <1>11, EgressCloseShape DEF EgressClose, a, b
<1>12. ASSUME CloseSubscriberEgress PROVE a' = a /\ b' = b
  <2>1. victim \in Sub
    BY Zenon, <1>12 DEF CloseSubscriberEgress, TypeOK, TopicTypeOK
  <2> QED BY Zenon, <1>11, <1>12, <2>1 DEF CloseSubscriberEgress
<1>13. ASSUME UNCHANGED <<egress, seen>> PROVE a' = a /\ b' = b
  BY Zenon, <1>13 DEF a, b
<1>14. CASE ~Sends
  BY SMTT(30), <1>2, <1>4, <1>5, <1>6, <1>10, <1>11, <1>12, <1>13, <1>14, OutSteps DEF SubscriptionCloseEnd
<1> QED BY Zenon, <1>7, <1>8, <1>9, <1>14

\* A piece of the log is still one when the log has grown, and the next message
\* of the log makes it one longer.
LEMMA PieceKept ==
  ASSUME NEW S, NEW t \in Seq(S), NEW k \in Int, NEW l \in Seq(S), NEW n \in Seq(S), k <= Len(l),
         Len(l) <= Len(n), \A j \in 1..Len(l) : n[j] = l[j],
         Len(t) <= k, \A j \in 1..Len(t) : t[j] = l[k - Len(t) + j]
  PROVE  /\ \A j \in 1..Len(t) : t[j] = n[k - Len(t) + j]
         /\ k + 1 <= Len(l) =>
              /\ Len(Append(t, l[k + 1])) = Len(t) + 1
              /\ \A j \in 1..(Len(t) + 1) : Append(t, l[k + 1])[j] = n[k + 1 - (Len(t) + 1) + j]
<1>0. Len(t) \in Nat /\ Len(l) \in Nat /\ Len(n) \in Nat
  OBVIOUS
<1>1. ASSUME NEW j \in 1..Len(t) PROVE t[j] = n[k - Len(t) + j]
  <2>1. k - Len(t) + j \in 1..Len(l)
    BY <1>0
  <2> QED BY Zenon, <2>1
<1>2. ASSUME k + 1 <= Len(l)
      PROVE  /\ Len(Append(t, l[k + 1])) = Len(t) + 1
             /\ \A j \in 1..(Len(t) + 1) : Append(t, l[k + 1])[j] = n[k + 1 - (Len(t) + 1) + j]
  <2> DEFINE e == l[k + 1]
  <2>1. k + 1 \in 1..Len(l) /\ e \in S /\ n[k + 1] = e
    BY SMTT(30), <1>0, <1>2
  <2> HIDE DEF e
  <2>2. /\ Len(Append(t, e)) = Len(t) + 1 /\ Append(t, e)[Len(t) + 1] = e
        /\ \A j \in 1..Len(t) : Append(t, e)[j] = t[j]
    BY SMTT(30), <2>1, AppendFacts
  <2>3. ASSUME NEW j \in 1..(Len(t) + 1) PROVE Append(t, e)[j] = n[k + 1 - (Len(t) + 1) + j]
    <3>1. CASE j = Len(t) + 1
      <4>1. k + 1 - (Len(t) + 1) + j = k + 1
        BY <1>0, <3>1
      <4> QED BY Zenon, <2>1, <2>2, <3>1, <4>1
    <3>2. CASE j \in 1..Len(t)
      <4>1. k + 1 - (Len(t) + 1) + j = k - Len(t) + j
        BY <1>0, <3>2
      <4> QED BY Zenon, <1>1, <2>2, <3>2, <4>1
    <3> QED BY <1>0, <3>1, <3>2
  <2> QED BY Zenon, <2>2, <2>3 DEF e
<1> QED BY Zenon, <1>1, <1>2

\* The log only grows.
LEMMA LogGrows ==
  ASSUME TypeOK, TypeOK', Next
  PROVE  /\ log \in Seq(Msg) /\ log' \in Seq(Msg) /\ Len(log) \in Nat /\ Len(log') \in Nat
         /\ Len(log) <= Len(log') /\ \A j \in 1..Len(log) : log'[j] = log[j]
<1>0. log \in Seq(Msg) /\ log' \in Seq(Msg) /\ Len(log) \in Nat /\ Len(log') \in Nat
  BY DEF TypeOK, IngressTypeOK
<1>1. CASE log' = log
  BY <1>0, <1>1
<1>2. ASSUME NEW m \in Msg, log' = Append(log, m)
      PROVE  Len(log) <= Len(log') /\ \A j \in 1..Len(log) : log'[j] = log[j]
  <2>1. Len(Append(log, m)) = Len(log) + 1 /\ \A j \in 1..Len(log) : Append(log, m)[j] = log[j]
    BY <1>0, AppendFacts
  <2> QED BY <1>0, <1>2, <2>1
<1>3. CASE ReceiveBuffered
  <2>1. CASE ingress.senders = <<>>
    BY Zenon, <1>1, <1>3, <2>1 DEF ReceiveBuffered
  <2>2. CASE ingress.senders # <<>>
    <3>1. Head(ingress.senders) \in Msg
      BY Zenon, <2>2, IngressShape, TailFacts
    <3> QED BY Zenon, <1>0, <1>2, <1>3, <2>2, <3>1 DEF ReceiveBuffered
  <2> QED BY Zenon, <2>1, <2>2
<1>4. ASSUME NEW m \in Msg, SendHands(m) \/ SendBuffers(m)
      PROVE  log' = Append(log, m)
  BY Zenon, <1>4 DEF SendHands, SendBuffers
<1>5. log' = log \/ ReceiveBuffered \/ \E m \in Msg : SendHands(m) \/ SendBuffers(m)
  BY Zenon, InSteps DEF SendWaits, PublishStopped, CloseIngress
<1> QED BY Zenon, <1>0, <1>1, <1>2, <1>3, <1>4, <1>5

\* A message leaves the channel in two ways only.
Takes == ReceiveBuffered \/ \E m \in Msg : SendHands(m)

\* The number of messages taken out grows by one with each of them.
LEMMA TakenSteps ==
  ASSUME TypeOK, WaitsForAReason, Next
  PROVE  Taken \in Int /\ Taken' = Taken + IF Takes THEN 1 ELSE 0
<1> USE DEF Takes
<1> DEFINE b == ingress.buf
<1>0. /\ b \in Seq(Msg) /\ log \in Seq(Msg) /\ Len(b) \in Nat /\ Len(log) \in Nat
      /\ Taken = Len(log) - Len(b) /\ Taken' = Len(log') - Len(ingress'.buf)
  BY Zenon, IngressShape DEF Taken
<1>2. ASSUME NEW m \in Msg, SendHands(m) PROVE Taken' = Taken + 1
  <2>1. ingress'.buf = b /\ log' = Append(log, m)
    BY Zenon, <1>2 DEF SendHands
  <2>2. Len(Append(log, m)) = Len(log) + 1
    BY Zenon, <1>0, AppendFacts
  <2> HIDE DEF b
  <2> QED BY <1>0, <2>1, <2>2
<1>3. ASSUME NEW m \in Msg, SendBuffers(m) PROVE Taken' = Taken
  <2>1. ingress'.buf = Append(b, m) /\ log' = Append(log, m)
    BY Zenon, <1>3, IngressShape DEF SendBuffers
  <2>2. Len(Append(log, m)) = Len(log) + 1 /\ Len(Append(b, m)) = Len(b) + 1
    BY <1>0, AppendFacts
  <2> HIDE DEF b
  <2> QED BY <1>0, <2>1, <2>2
<1>4. ASSUME ReceiveBuffered PROVE Taken' = Taken + 1
  <2>1. b # <<>> /\ Tail(b) \in Seq(Msg) /\ Len(Tail(b)) = Len(b) - 1
    BY Zenon, <1>0, <1>4, TailFacts DEF ReceiveBuffered
  <2>3. CASE ingress.senders = <<>>
    <3>1. ingress'.buf = Tail(b) /\ log' = log
      BY Zenon, <1>4, <2>3, IngressShape DEF ReceiveBuffered
    <3> HIDE DEF b
    <3> QED BY <1>0, <2>1, <3>1
  <2>4. CASE ingress.senders # <<>>
    <3> DEFINE m == Head(ingress.senders)
    <3>1. ingress'.buf = Append(Tail(b), m) /\ log' = Append(log, m) /\ m \in Msg
      BY Zenon, <1>4, <2>4, IngressShape, TailFacts DEF ReceiveBuffered
    <3> HIDE DEF m
    <3>2. Len(Append(log, m)) = Len(log) + 1 /\ Len(Append(Tail(b), m)) = Len(b)
      BY SMTT(30), <1>0, <2>1, <3>1, AppendFacts
    <3>3. Len(ingress'.buf) = Len(b) /\ Len(log') = Len(log) + 1
      BY Zenon, <3>1, <3>2
    <3> HIDE DEF b
    <3> QED BY <1>0, <3>3
  <2> QED BY Zenon, <2>3, <2>4
<1>5. ASSUME NEW m \in Msg, SendWaits(m) \/ PublishStopped(m) PROVE log' = log /\ ingress'.buf = b
  BY Zenon, <1>5, IngressShape DEF SendWaits, PublishStopped
<1>6. ASSUME CloseIngress PROVE log' = log /\ ingress'.buf = b
  BY Zenon, <1>6, IngressShape DEF CloseIngress
<1>7. ASSUME ~Takes PROVE Taken' = Taken
  BY Zenon, <1>0, <1>3, <1>5, <1>6, <1>7, InSteps
<1>8. ASSUME Takes PROVE Taken' = Taken + 1
  BY Zenon, <1>2, <1>4, <1>8
<1>9. Taken \in Int
  BY <1>0
<1> HIDE DEF Takes
<1> QED BY <1>7, <1>8, <1>9

\* A subscription once closed stays closed, and a subscriber comes to be known
\* to the topic in one way only.
LEMMA SubSteps ==
  ASSUME TypeOK, Next
  PROVE  /\ \A s \in Sub : subClosed[s] => subClosed'[s]
         /\ \A s \in registered' \ registered : s \in Sub /\ AddSubscriber(s) /\ UNCHANGED dispVars
<1>0. subClosed \in [Sub -> BOOLEAN] /\ registered \subseteq Sub /\ target \in Sub \cup {None}
  BY Zenon DEF TypeOK, SubTypeOK, TopicTypeOK
<1>1. ASSUME NEW m \in Msg, Publishing(m) PROVE UNCHANGED <<subClosed, registered>>
  BY Zenon, <1>1 DEF Publishing, PublishRefused, Publish, PublishStep, PublishStopped, SendFails,
              SendHands, SendBuffers, SendWaits
<1>2. CASE ReceiveBuffered \/ ReceiveWaits \/ FanDone \/ EgressHands \/ EgressBuffers \/ EgressWaits
  BY Zenon, <1>2 DEF ReceiveBuffered, ReceiveWaits, FanDone, EgressHands, EgressBuffers, EgressWaits
<1>3. CASE Collect \/ EgressFails
  BY Zenon, <1>0, <1>3 DEF Collect, EgressFails
<1>4. ASSUME NEW s \in Sub, FanSkip(s) \/ FanTo(s) \/ SubscriptionCloseEnd(s) \/ CloseSubscriber(s)
      PROVE  (\A q \in Sub : subClosed[q] => subClosed'[q]) /\ registered' \subseteq registered
  BY SMTT(30), <1>0, <1>4 DEF FanSkip, FanTo, SubscriptionCloseEnd, CloseSubscriber
<1>5. ASSUME NEW s \in Sub, Subscribing(s), ~AddSubscriber(s)
      PROVE  (\A q \in Sub : subClosed[q] => subClosed'[q]) /\ registered' \subseteq registered
  BY Zenon, <1>0, <1>5 DEF Subscribing, SubscribeRefused, Subscribe, SubscribeClosed, NextClosed, NextCall,
     NextStep, NextBuffered, NextWaits, NextEnds, NextStopped, Drop, SubscriptionClose
<1>6. ASSUME NEW s \in Sub, AddSubscriber(s)
      PROVE  UNCHANGED <<dispVars, subClosed>> /\ registered' = registered \cup {s}
  BY Zenon, <1>6 DEF AddSubscriber
<1>7. CASE CloseTopic \/ BusClose \/ CloseMark \/ CloseIngress \/ CloseTake \/ CloseSubscriberEgress
           \/ CloseDone
  BY SMTT(30), <1>7 DEF CloseTopic, BusClose, CloseMark, CloseIngress, CloseTake, CloseSubscriberEgress, CloseDone
<1> QED BY ZenonT(60), <1>1, <1>2, <1>3, <1>4, <1>5, <1>6, <1>7 DEF Next, Dispatch, CloseStep, Publishing, Subscribing

\* What a step does to the turn of a subscriber that is in line after it: it
\* was in line before, unless it has just been added, and its turn comes with
\* the next message and goes with the send.
LEMMA TurnSteps ==
  ASSUME TypeOK, DispatchInv, Next, NEW s \in Sub, InLine(s)', ~AddSubscriber(s)
  PROVE  /\ InLine(s)
         /\ Takes => ~TurnToCome(s) /\ TurnToCome(s)'
         /\ Sends /\ target = s => TurnToCome(s) /\ ~TurnToCome(s)'
         /\ ~Takes /\ ~(Sends /\ target = s) => (TurnToCome(s)' <=> TurnToCome(s))
<1> USE DEF InLine, TurnToCome, Handing
<1>0. /\ subClosed[s] => subClosed'[s]
      /\ s \notin registered => s \notin registered'
      /\ target \in Sub \cup {None} /\ None \notin Sub /\ subClosed \in [Sub -> BOOLEAN]
      /\ disp \in {"none", "receive", "waiting", "handle", "fan", "sending", "blocked", "ended"}
      /\ disp \notin {"fan", "sending", "blocked"} => todo = {}
      /\ disp \in {"sending", "blocked"} <=> target # None
      /\ target \notin todo
  BY Zenon, SubSteps, BusAssumption DEF TypeOK, TopicTypeOK, SubTypeOK, DispatchInv
<1>1. CASE Takes
  <2>1. disp \in {"receive", "waiting"} /\ disp' = "handle" /\ todo' = todo /\ target' = target
    BY Zenon, <1>1 DEF Takes, ReceiveBuffered, SendHands
  <2>2. ~Sends
    BY Zenon, <2>1 DEF Sends, EgressHands, EgressBuffers, EgressWaits
  <2> QED BY Zenon, <1>0, <1>1, <2>1, <2>2
<1>2. CASE Sends
  <2>1. /\ disp = "sending" /\ disp' \in {"fan", "blocked"} /\ todo' = todo
        /\ subClosed' = subClosed
    BY Zenon, <1>2 DEF Sends, EgressHands, EgressBuffers, EgressWaits
  <2>2. ~Takes
    BY SMTT(30), <2>1 DEF Takes, ReceiveBuffered, SendHands
  <2> QED BY Zenon, <1>0, <1>2, <2>1, <2>2
<1>3. CASE ~Takes /\ ~Sends
  <2> SUFFICES InLine(s) /\ (TurnToCome(s)' <=> TurnToCome(s))
    BY Zenon, <1>3
  <2>1. CASE UNCHANGED dispVars
    BY Zenon, <1>0, <2>1
  <2>2. CASE disp = "none" /\ disp' = "receive" /\ UNCHANGED <<target, todo>>
    BY Zenon, <1>0, <2>2
  <2>3. ASSUME NEW m \in Msg, Publish(m)
        PROVE  UNCHANGED <<target, todo>> /\ (disp' = disp \/ (disp = "none" /\ disp' = "receive"))
    BY Zenon, <2>3 DEF Publish, GetOrCreateTopic
  <2>4. CASE UNCHANGED <<disp, target, todo>>
    BY SMTT(30), <1>0, <2>4
  <2>5. CASE ReceiveWaits \/ FanDone
    BY Zenon, <1>0, <2>5 DEF ReceiveWaits, FanDone
  <2>6. CASE Collect
    <3>1. /\ disp = "handle" /\ disp' = "fan" /\ todo' = registered' /\ registered' \subseteq registered
          /\ UNCHANGED <<target, subClosed>>
      BY Zenon, <2>6 DEF Collect
    <3> QED BY Zenon, <1>0, <3>1
  <2>7. CASE EgressFails
    BY SMTT(30), <1>0, <2>7 DEF EgressFails
  <2>8. ASSUME NEW q \in Sub, FanSkip(q) PROVE InLine(s) /\ (TurnToCome(s)' <=> TurnToCome(s))
    BY SMTT(30), <1>0, <2>8 DEF FanSkip
  <2>9. ASSUME NEW q \in Sub, FanTo(q) PROVE InLine(s) /\ (TurnToCome(s)' <=> TurnToCome(s))
    BY Zenon, <1>0, <2>9 DEF FanTo
  <2>10. ASSUME NEW q \in Sub, NextBuffered(q) PROVE InLine(s) /\ (TurnToCome(s)' <=> TurnToCome(s))
    BY Zenon, <1>0, <2>10 DEF NextBuffered
  <2>11. CASE CloseIngress
    BY SMTT(30), <1>0, <2>11 DEF CloseIngress
  <2>12. CASE Dispatch
    BY Zenon, <1>3, <2>5, <2>6, <2>7, <2>8, <2>9, <2>12 DEF Dispatch, Takes, Sends
  <2> QED BY ZenonT(60), <1>3, <2>1, <2>2, <2>3, <2>4, <2>10, <2>11, <2>12, DispKept DEF Takes
<1> QED BY SMTT(30), <1>1, <1>2, <1>3

\* How far the fan-out to a subscriber in line has come: the next message of
\* the log is added to its stream, or nothing.
LEMMA ReachSteps ==
  ASSUME TypeOK, WaitsForAReason, DispatchInv, LogInv, Next, NEW s \in Sub, InLine(s)', ~AddSubscriber(s)
  PROVE  /\ InLine(s) /\ Reach(s) \in Int /\ Reach(s) <= Len(log)
         /\ Reach(s)' = Reach(s) + IF Sends /\ target = s THEN 1 ELSE 0
         /\ Sends /\ target = s => Reach(s) + 1 <= Len(log) /\ payload = log[Reach(s) + 1]
<1>0. /\ Taken \in Int /\ Taken' = Taken + (IF Takes THEN 1 ELSE 0)
      /\ Taken = Len(log) - Len(ingress.buf) /\ Len(log) \in Nat /\ Len(ingress.buf) \in Nat
  BY Zenon, TakenSteps, IngressShape DEF Taken
<1>1. /\ InLine(s)
      /\ Takes => ~TurnToCome(s) /\ TurnToCome(s)'
      /\ Sends /\ target = s => TurnToCome(s) /\ ~TurnToCome(s)'
      /\ ~Takes /\ ~(Sends /\ target = s) => (TurnToCome(s)' <=> TurnToCome(s))
  BY Zenon, TurnSteps
<1>2. /\ Reach(s) = Taken - (IF TurnToCome(s) THEN 1 ELSE 0)
      /\ Reach(s)' = Taken' - (IF TurnToCome(s)' THEN 1 ELSE 0)
  BY Zenon DEF Reach
<1>3. Sends => disp = "sending" /\ disp \in Handing
  BY Zenon DEF Sends, EgressHands, EgressBuffers, EgressWaits, Handing
<1>4. Sends => payload = log[Taken] /\ Taken <= Len(log)
  BY <1>0, <1>3 DEF LogInv
<1>5. ~(Takes /\ Sends)
  BY Zenon, <1>3 DEF Takes, ReceiveBuffered, SendHands
<1>6. Reach(s) \in Int /\ Reach(s) <= Len(log)
  <2>1. Taken <= Len(log)
    BY <1>0
  <2>2. Reach(s) = Taken - 0 \/ Reach(s) = Taken - 1
    BY SMTT(30), <1>2
  <2> QED BY <1>0, <2>1, <2>2
<1>7. CASE Sends /\ target = s
  <2>1. Reach(s) = Taken - 1 /\ Reach(s)' = Taken /\ Reach(s) + 1 = Taken
    BY SMTT(30), <1>0, <1>1, <1>2, <1>5, <1>7
  <2> QED BY Zenon, <1>1, <1>4, <1>6, <1>7, <2>1, <1>0
<1>8. CASE ~(Sends /\ target = s)
  <2>1. Reach(s)' = Reach(s)
    <3>1. CASE Takes
      <4>1. Reach(s) = Taken - 0 /\ Reach(s)' = (Taken + 1) - 1
        BY <1>0, <1>1, <1>2, <3>1, ZenonT(60)
      <4> QED BY <1>0, <4>1
    <3>2. CASE ~Takes
      <4>1. Taken' = Taken + 0 /\ (TurnToCome(s)' <=> TurnToCome(s))
        BY Zenon, <1>0, <1>1, <1>8, <3>2
      <4>2. Taken' = Taken
        BY <1>0, <4>1
      <4> QED BY <1>2, <4>1, <4>2
    <3> QED BY Zenon, <3>1, <3>2
  <2> QED BY <1>1, <1>6, <1>8, <2>1
<1> QED BY Zenon, <1>7, <1>8

\* A subscriber the topic does not know yet, or never will.
Fresh(s) == sub[s] \in {"none", "found", "refused"}

\* The topic and the dispatcher know only subscribers that have been added.
LEMMA FreshKept ==
  ASSUME TypeOK, DispatchInv, Next, NEW s \in Sub, Fresh(s)',
         Fresh(s) => s \notin registered \cup todo \cup {target}
  PROVE  Fresh(s) /\ s \notin registered' \cup todo' \cup {target'}
<1> USE DEF Fresh
<1>0. sub \in [Sub -> {"none", "found", "live", "dropped", "refused"}] /\ None \notin Sub
  BY Zenon, BusAssumption DEF TypeOK, SubTypeOK
<1>1. Fresh(s) /\ ~AddSubscriber(s)
  <2>1. CASE UNCHANGED sub
    BY SMTT(30), <1>0, <2>1 DEF AddSubscriber
  <2>2. ASSUME NEW q \in Sub,
               SubscribeRefused(q) \/ Subscribe(q) \/ SubscribeClosed(q) \/ AddSubscriber(q) \/ Drop(q)
        PROVE  Fresh(s) /\ ~AddSubscriber(s)
    BY Zenon, <1>0, <2>2 DEF SubscribeRefused, Subscribe, SubscribeClosed, AddSubscriber, Drop
  <2>3. \/ UNCHANGED sub
        \/ \E q \in Sub : SubscribeRefused(q) \/ Subscribe(q) \/ SubscribeClosed(q) \/ AddSubscriber(q)
                          \/ Drop(q)
    <3>1. ASSUME NEW m \in Msg, Publishing(m) PROVE UNCHANGED sub
      BY ZenonT(60), <3>1 DEF Publishing, PublishRefused, Publish, PublishStep, PublishStopped, SendFails,
                  SendHands, SendBuffers, SendWaits
    <3>2. CASE ReceiveBuffered \/ ReceiveWaits \/ Collect \/ FanDone \/ EgressFails \/ EgressHands
               \/ EgressBuffers \/ EgressWaits
      BY SMTT(30), <3>2 DEF ReceiveBuffered, ReceiveWaits, Collect, FanDone, EgressFails, EgressHands,
           EgressBuffers, EgressWaits
    <3>3. ASSUME NEW q \in Sub, FanSkip(q) \/ FanTo(q) \/ CloseSubscriber(q) \/ SubscriptionCloseEnd(q)
          PROVE  UNCHANGED sub
      BY Zenon, <3>3 DEF FanSkip, FanTo, CloseSubscriber, SubscriptionCloseEnd
    <3>4. ASSUME NEW q \in Sub, NextClosed(q) \/ NextCall(q) \/ NextStep(q) \/ NextStopped(q)
                                \/ SubscriptionClose(q)
          PROVE  UNCHANGED sub
      BY Zenon, <3>4 DEF NextClosed, NextCall, NextStep, NextBuffered, NextWaits, NextEnds, NextStopped,
           SubscriptionClose
    <3>5. CASE CloseTopic \/ BusClose \/ CloseMark \/ CloseIngress \/ CloseTake
               \/ CloseSubscriberEgress \/ CloseDone
      BY Zenon, <3>5 DEF CloseTopic, BusClose, CloseMark, CloseIngress, CloseTake, CloseSubscriberEgress,
           CloseDone
    <3> QED BY Zenon, <3>1, <3>2, <3>3, <3>4, <3>5 DEF Next, Dispatch, CloseStep, Publishing
  <2> QED BY Zenon, <2>1, <2>2, <2>3
<1>2. s \notin registered' /\ s \notin registered \cup todo \cup {target}
  BY Zenon, <1>1, SubSteps
<1> HIDE DEF Fresh
<1>3. s \notin todo' \cup {target'}
  <2>1. CASE UNCHANGED <<todo, target>>
    BY Zenon, <1>2, <2>1
  <2>2. ASSUME NEW m \in Msg, Publish(m) \/ SendHands(m) PROVE UNCHANGED <<todo, target>>
    BY Zenon, <2>2 DEF Publish, SendHands
  <2>3. CASE ReceiveBuffered \/ ReceiveWaits \/ Collect \/ FanDone \/ EgressFails \/ EgressHands
             \/ EgressBuffers \/ EgressWaits
    BY Zenon, <1>0, <1>2, <2>3 DEF ReceiveBuffered, ReceiveWaits, Collect, FanDone, EgressFails, EgressHands,
           EgressBuffers, EgressWaits
  <2>4. ASSUME NEW q \in Sub, FanSkip(q) \/ FanTo(q) \/ NextBuffered(q) PROVE s \notin todo' \cup {target'}
    BY Zenon, <1>0, <1>2, <2>4 DEF FanSkip, FanTo, NextBuffered
  <2>5. CASE CloseIngress
    BY Zenon, <1>2, <2>5 DEF CloseIngress
  <2> QED BY Zenon, <2>1, <2>2, <2>3, <2>4, <2>5, DispKept DEF Dispatch
<1> QED BY Zenon, <1>1, <1>2, <1>3

\* Every step leaves each stream a contiguous piece of the log, up to where the
\* fan-out has come for a subscriber in line.
LEMMA StreamStep ==
  ASSUME TypeOK, WaitsForAReason, DispatchInv, LogInv, StreamInv, TypeOK', Next
  PROVE  StreamInv'
<1> SUFFICES ASSUME NEW s \in Sub
             PROVE  /\ InLine(s)' => EndsAt(Stream(s), Reach(s))'
                    /\ (\E k \in 0..Len(log) : EndsAt(Stream(s), k))'
                    /\ Fresh(s)' => Stream(s)' = <<>> /\ s \notin registered' \cup todo' \cup {target'}
  BY Zenon DEF StreamInv, Fresh
<1> DEFINE t == Stream(s)
           u == Stream(s)'
           Added == Sends /\ target = s
           Piece(x, l, k) == x = <<>> \/ (Len(x) <= k /\ \A j \in 1..Len(x) : x[j] = l[k - Len(x) + j])
<1>0. /\ InLine(s) => Piece(t, log, Reach(s))
      /\ \E k \in 0..Len(log) : Piece(t, log, k)
      /\ Fresh(s) => t = <<>> /\ s \notin registered \cup todo \cup {target}
  BY Zenon DEF StreamInv, EndsAt, Fresh
<1>1. t \in Seq(Msg) /\ u = IF Added THEN Append(t, payload) ELSE t
  BY Zenon, StreamSteps
<1>2. /\ log \in Seq(Msg) /\ log' \in Seq(Msg) /\ Len(log) \in Nat /\ Len(log') \in Nat
      /\ Len(log) <= Len(log') /\ \A j \in 1..Len(log) : log'[j] = log[j]
  BY Zenon, LogGrows
<1>3. ASSUME Added PROVE InLine(s) /\ disp = "sending"
  BY Zenon, <1>3 DEF Sends, EgressHands, EgressBuffers, EgressWaits, InLine
<1> HIDE DEF t, u, Added
<1>4. ASSUME NEW k \in Int, k <= Len(log), Piece(t, log, k) PROVE Piece(t, log', k)
  <2>1. CASE t = <<>>
    BY Zenon, <2>1
  <2>2. CASE t # <<>>
    <3>1. Len(t) <= k /\ \A j \in 1..Len(t) : t[j] = log[k - Len(t) + j]
      BY Zenon, <1>4, <2>2
    <3>2. \A j \in 1..Len(t) : t[j] = log'[k - Len(t) + j]
      BY SMTT(30), <1>1, <1>2, <1>4, <3>1, PieceKept
    <3> QED BY Zenon, <3>1, <3>2
  <2> QED BY Zenon, <2>1, <2>2
<1>5. ASSUME Added
      PROVE  /\ Reach(s) \in Int /\ Reach(s) + 1 \in 0..Len(log')
             /\ Piece(u, log', Reach(s) + 1) /\ u # <<>>
  <2>1. disp \in Handing /\ TurnToCome(s)
    BY Zenon, <1>3, <1>5 DEF Handing, TurnToCome, Added
  <2>2. /\ Taken \in Int /\ Taken >= 1 /\ Taken <= Len(log) /\ payload = log[Taken]
        /\ Reach(s) = Taken - 1
    BY <2>1, IngressShape DEF LogInv, Taken, Reach
  <2> DEFINE k == Reach(s)
  <2>3. /\ k \in Int /\ k <= Len(log) /\ k + 1 <= Len(log) /\ k >= 0 /\ payload = log[k + 1]
    BY <1>2, <2>2
  <2> HIDE DEF k
  <2>4. Piece(t, log, k)
    BY Zenon, <1>0, <1>3, <1>5 DEF k
  <2>5. Len(t) <= k /\ \A j \in 1..Len(t) : t[j] = log[k - Len(t) + j]
    BY <1>1, <2>3, <2>4
  <2>6. u = Append(t, log[k + 1])
    BY Zenon, <1>1, <1>5, <2>3
  <2>7. Len(u) = Len(t) + 1 /\ \A j \in 1..(Len(t) + 1) : u[j] = log'[k + 1 - (Len(t) + 1) + j]
    BY SMTT(30), <1>1, <1>2, <2>3, <2>5, <2>6, PieceKept
  <2>8. Len(u) <= k + 1 /\ \A j \in 1..Len(u) : u[j] = log'[k + 1 - Len(u) + j]
    <3>1. Len(t) \in Nat
      BY <1>1
    <3>2. Len(u) <= k + 1
      BY <2>3, <2>5, <2>7, <3>1
    <3>3. \A j \in 1..Len(u) : u[j] = log'[k + 1 - Len(u) + j]
      BY Zenon, <2>7
    <3> QED BY Zenon, <3>2, <3>3
  <2>9. k + 1 \in 0..Len(log') /\ log[k + 1] \in Msg
    BY <1>2, <2>3
  <2>10. u # <<>>
    BY <1>1, <2>6, <2>9, AppendFacts
  <2> QED BY SMTT(30), <2>3, <2>8, <2>9, <2>10 DEF k
<1>6. ASSUME InLine(s)' PROVE Piece(u, log', Reach(s)')
  <2>1. CASE AddSubscriber(s)
    <3>1. Fresh(s)
      BY Zenon, <2>1 DEF AddSubscriber, Fresh
    <3>2. u = <<>>
      BY Zenon, <1>0, <1>1, <3>1 DEF Added
    <3> QED BY Zenon, <3>2
  <2>2. CASE ~AddSubscriber(s)
    <3>1. /\ InLine(s) /\ Reach(s) \in Int /\ Reach(s) <= Len(log)
          /\ Reach(s)' = Reach(s) + IF Added THEN 1 ELSE 0
      BY Zenon, <1>6, <2>2, ReachSteps DEF Added
    <3>2. CASE Added
      BY Zenon, <1>5, <3>1, <3>2
    <3>3. CASE ~Added
      <4>1. Reach(s)' = Reach(s) /\ u = t
        BY <1>1, <3>1, <3>3
      <4>2. Piece(t, log', Reach(s))
        BY Zenon, <1>0, <1>4, <3>1
      <4> QED BY Zenon, <4>1, <4>2
    <3> QED BY Zenon, <3>2, <3>3
  <2> QED BY Zenon, <2>1, <2>2
<1>7. \E k \in 0..Len(log') : Piece(u, log', k)
  <2>1. CASE Added
    BY Zenon, <1>5, <2>1
  <2>2. CASE ~Added
    <3>1. PICK k \in 0..Len(log) : Piece(t, log, k)
      BY Zenon, <1>0
    <3>2. k \in Int /\ k <= Len(log) /\ k \in 0..Len(log') /\ u = t
      BY <1>1, <1>2, <2>2
    <3>3. Piece(t, log', k)
      BY Zenon, <1>4, <3>1, <3>2
    <3> QED BY Zenon, <3>2, <3>3
  <2> QED BY Zenon, <2>1, <2>2
<1>8. ASSUME Fresh(s)' PROVE u = <<>> /\ s \notin registered' \cup todo' \cup {target'}
  <2>1. Fresh(s) /\ s \notin registered' \cup todo' \cup {target'}
    BY Zenon, <1>0, <1>8, FreshKept
  <2>2. t = <<>> /\ ~Added
    BY SMTT(30), <1>0, <2>1 DEF Added
  <2> QED BY Zenon, <1>1, <2>1, <2>2
<1> QED BY SMTT(30), <1>6, <1>7, <1>8 DEF EndsAt, u

-----------------------------------------------------------------------------
(* Closing: CloseInv. *)

\* A closed subscription whose channel is open and is being read is on its way
\* to be closed.
ReaderInv ==
  \A s \in Sub :
    /\ subClosed[s] /\ egress[s].open /\ next[s] \in {"checked", "waiting"} =>
         s \in subClosing \cup {victim}
    /\ s \in subClosing => subClosed[s]

\* Who has an open subscription in its list.
KeeperInv ==
  /\ \A s \in Sub : sub[s] = "live" /\ ~subClosed[s] =>
       s \in IF closing \in {"subscribers", "done"} THEN doomed \cup late ELSE registered
  /\ closing # "subscribers" => doomed = {} /\ victim = None
  /\ closing # "no" => topic = "erased" /\ shut # "no"

\* Whoever marks a subscription closed finds its channel closed or nobody
\* reading from it, or goes on to close the channel.
LEMMA ReaderStep ==
  ASSUME TypeOK, ReaderInv, DispatchInv, LogInv, Next
  PROVE  ReaderInv'
<1> USE BusAssumption DEF ReaderInv
<1>0. /\ subClosed \in [Sub -> BOOLEAN] /\ subClosing \subseteq Sub
      /\ next \in [Sub -> {"idle", "checked", "waiting", "nullopt"}]
      /\ target \in Sub \cup {None} /\ victim \in Sub \cup {None}
  BY Zenon DEF TypeOK, SubTypeOK, TopicTypeOK
<1>1. CASE UNCHANGED <<subClosed, egress, next, subClosing, victim>>
  BY Zenon, <1>1
<1>2. ASSUME NEW m \in Msg, Publishing(m) PROVE UNCHANGED <<subClosed, egress, next, subClosing, victim>>
  BY Zenon, <1>2 DEF Publishing, PublishRefused, Publish, PublishStep, PublishStopped, SendFails,
              SendHands, SendBuffers, SendWaits
<1>3. CASE ReceiveBuffered \/ ReceiveWaits \/ Collect \/ FanDone \/ EgressWaits
  BY Zenon, <1>3 DEF ReceiveBuffered, ReceiveWaits, Collect, FanDone, EgressWaits
<1>4. CASE EgressFails \/ EgressHands
  BY <1>0, <1>4 DEF EgressFails, EgressHands
<1>5. CASE EgressBuffers
  <2>1. target \in Sub /\ payload \in Msg
    BY Zenon, <1>5, InHand DEF EgressBuffers, Handing
  <2>2. \A q \in Sub : egress'[q].open = egress[q].open
    BY SMTT(30), <1>5, <2>1, EgressBuffersShape
  <2> QED BY Zenon, <1>5, <2>2 DEF EgressBuffers
<1>6. ASSUME NEW s \in Sub, FanSkip(s) \/ FanTo(s) PROVE ReaderInv'
  BY Zenon, <1>0, <1>6 DEF FanSkip, FanTo
<1>7. ASSUME NEW s \in Sub, NextBuffered(s) PROVE ReaderInv'
  <2>1. disp = "blocked" => payload \in Msg
    BY SMTT(30), InHand DEF Handing
  <2>2. \A q \in Sub : egress'[q].open = egress[q].open
    BY SMTT(30), <1>7, <2>1, NextBufferedShape
  <2> QED BY Zenon, <1>0, <1>7, <2>2 DEF NextBuffered
<1>8. ASSUME NEW s \in Sub, NextClosed(s) \/ NextCall(s) \/ NextWaits(s) \/ NextEnds(s) \/ NextStopped(s)
      PROVE  ReaderInv'
  BY ZenonT(60), <1>0, <1>8 DEF NextClosed, NextCall, NextWaits, NextEnds, NextStopped
<1>9. ASSUME NEW s \in Sub, SubscribeRefused(s) \/ Subscribe(s) \/ SubscribeClosed(s)
                            \/ AddSubscriber(s) \/ Drop(s) \/ SubscriptionClose(s)
      PROVE  ReaderInv'
  BY ZenonT(60), <1>0, <1>9 DEF SubscribeRefused, Subscribe, SubscribeClosed, AddSubscriber, Drop, SubscriptionClose
<1>10. ASSUME NEW s \in Sub, EgressClose(s), subClosed' = subClosed, subClosing \ {s} \subseteq subClosing',
              subClosing' \subseteq subClosing, victim # s => victim' = victim
       PROVE  ReaderInv'
  <2>1. /\ egress'[s].open = FALSE
        /\ \A q \in Sub \ {s} : egress'[q] = egress[q] /\ next'[q] = next[q]
    BY <1>10, EgressCloseShape, ZenonT(60)
  <2>2. ASSUME NEW q \in Sub \ {s}
        PROVE  /\ subClosed'[q] /\ egress'[q].open /\ next'[q] \in {"checked", "waiting"} =>
                    q \in subClosing' \cup {victim'}
               /\ q \in subClosing' => subClosed'[q]
    BY Zenon, <1>0, <1>10, <2>1
  <2>3. s \in subClosing' => subClosed'[s]
    BY SMTT(30), <1>10
  <2> QED BY Zenon, <2>1, <2>2, <2>3
<1>11. ASSUME NEW s \in Sub, SubscriptionCloseEnd(s) PROVE ReaderInv'
  BY SMTT(30), <1>0, <1>10, <1>11 DEF SubscriptionCloseEnd
<1>12. CASE CloseSubscriberEgress
  BY Zenon, <1>0, <1>10, <1>12 DEF CloseSubscriberEgress
<1>13. ASSUME NEW s \in Sub, CloseSubscriber(s) PROVE ReaderInv'
  BY Zenon, <1>0, <1>13 DEF CloseSubscriber
<1>14. CASE CloseTopic \/ BusClose \/ CloseMark \/ CloseIngress \/ CloseTake \/ CloseDone
  BY SMTT(30), <1>14 DEF CloseTopic, BusClose, CloseMark, CloseIngress, CloseTake, CloseDone
<1> QED BY ZenonT(60), <1>1, <1>2, <1>3, <1>4, <1>5, <1>6, <1>7, <1>8, <1>9, <1>11, <1>12, <1>13, <1>14
      DEF Next, Dispatch, NextStep, CloseStep, Publishing

\* No step loses an open subscription from both lists before it is closed.
LEMMA KeeperStep ==
  ASSUME TypeOK, ReaderInv, KeeperInv, DispatchInv, Next
  PROVE  KeeperInv'
<1> USE BusAssumption DEF KeeperInv
<1>0. /\ subClosed \in [Sub -> BOOLEAN] /\ sub \in [Sub -> {"none", "found", "live", "dropped", "refused"}]
      /\ target \in Sub \cup {None} /\ victim \in Sub \cup {None}
      /\ registered \subseteq Sub
  BY Zenon DEF TypeOK, SubTypeOK, TopicTypeOK
<1>1. CASE UNCHANGED <<sub, subClosed, closing, doomed, late, registered, victim, topic, shut>>
  BY Zenon, <1>1
<1>2. ASSUME NEW m \in Msg, Publishing(m)
      PROVE  /\ UNCHANGED <<sub, subClosed, closing, doomed, late, registered, victim, shut>>
             /\ (topic' = topic \/ shut = "no")
  BY Zenon, <1>2 DEF Publishing, PublishRefused, Publish, PublishStep, PublishStopped, SendFails,
              SendHands, SendBuffers, SendWaits, GetOrCreateTopic, Refuses
<1>3. CASE ReceiveBuffered \/ ReceiveWaits \/ FanDone \/ EgressWaits \/ EgressHands \/ EgressBuffers
  BY Zenon, <1>3 DEF ReceiveBuffered, ReceiveWaits, FanDone, EgressWaits, EgressHands, EgressBuffers
<1>4. CASE Collect \/ EgressFails
  BY SMTT(30), <1>0, <1>4 DEF Collect, Lock, EgressFails
<1>5. ASSUME NEW s \in Sub, FanSkip(s) \/ FanTo(s) \/ CloseSubscriber(s) PROVE KeeperInv'
  BY Zenon, <1>0, <1>5 DEF FanSkip, FanTo, CloseSubscriber
<1>6. ASSUME NEW s \in Sub, SubscriptionCloseEnd(s) PROVE KeeperInv'
  <2>1. subClosed[s]
    BY ZenonT(60), <1>6 DEF SubscriptionCloseEnd, ReaderInv
  <2> QED BY SMTT(30), <1>0, <1>6, <2>1 DEF SubscriptionCloseEnd
<1>7. ASSUME NEW s \in Sub, NextClosed(s) \/ NextCall(s) \/ NextStep(s) \/ NextStopped(s)
      PROVE  KeeperInv'
  BY SMTT(30), <1>0, <1>7 DEF NextClosed, NextCall, NextStep, NextBuffered, NextWaits, NextEnds, NextStopped
<1>8. ASSUME NEW s \in Sub, SubscribeRefused(s) \/ SubscribeClosed(s) \/ Drop(s) \/ SubscriptionClose(s)
      PROVE  KeeperInv'
  BY Zenon, <1>0, <1>8 DEF SubscribeRefused, SubscribeClosed, Drop, SubscriptionClose
<1>9. ASSUME NEW s \in Sub, Subscribe(s) PROVE KeeperInv'
  BY Zenon, <1>0, <1>9 DEF Subscribe, GetOrCreateTopic, Refuses
<1>10. ASSUME NEW s \in Sub, AddSubscriber(s) PROVE KeeperInv'
  BY Zenon, <1>0, <1>10 DEF AddSubscriber
<1>11. CASE CloseTopic \/ BusClose
  BY Zenon, <1>0, <1>11 DEF CloseTopic, BusClose, Erase
<1>12. CASE CloseMark \/ CloseIngress \/ CloseDone \/ CloseSubscriberEgress
  BY Zenon, <1>0, <1>12 DEF CloseMark, CloseIngress, CloseDone, CloseSubscriberEgress
<1>13. CASE CloseTake
  BY Zenon, <1>0, <1>13 DEF CloseTake, Lock
<1> QED BY ZenonT(60), <1>1, <1>2, <1>3, <1>4, <1>5, <1>6, <1>7, <1>8, <1>9, <1>10, <1>11, <1>12, <1>13
      DEF Next, Dispatch, CloseStep, Publishing

-----------------------------------------------------------------------------
(* The theorems. *)

\* The inductive invariant holds at first and no step breaks it.
THEOREM BusInvariant == Spec => []BusInv
<1>1. Init => BusInv
  <2> SUFFICES ASSUME Init PROVE BusInv
    BY Zenon
  <2>0. /\ None \notin Msg /\ None \notin Sub /\ TopicCap \in Nat \ {0} /\ SubCap \in Nat \ {0}
    BY Zenon, BusAssumption
  <2>1. TypeOK
    <3>1. TopicTypeOK /\ SubTypeOK
      BY Zenon, <2>0 DEF Init, TopicTypeOK, SubTypeOK
    <3>2. ingress \in [open : BOOLEAN, buf : Seq(Msg), senders : Seq(Msg)] /\ Len(ingress.buf) = 0
      <4>1. ingress = [open |-> TRUE, buf |-> <<>>, senders |-> <<>>] /\ <<>> \in Seq(Msg)
        BY DEF Init
      <4> QED BY Zenon, <4>1
    <3>3. IngressTypeOK
      BY SMTT(30), <2>0, <3>2 DEF Init, IngressTypeOK
    <3>4. egress \in [Sub -> [open : BOOLEAN, buf : Seq(Msg)]] /\ \A s \in Sub : Len(egress[s].buf) = 0
      BY SMTT(30) DEF Init
    <3>5. EgressTypeOK
      BY <2>0, <3>4 DEF Init, EgressTypeOK
    <3> QED BY SMTT(30), <3>1, <3>3, <3>5 DEF TypeOK
  <2>2. WaitsForAReason /\ DispatchInv
    BY Zenon, <2>0 DEF Init, WaitsForAReason, DispatchInv
  <2>3. LogInv
    BY DEF Init, LogInv, Taken, Handing
  <2>4. SenderInv /\ ResultIsTrue
    BY SMTT(30), EmptyFacts DEF Init, SenderInv, ResultIsTrue
  <2>5. StreamInv
    <3>1. ASSUME NEW s \in Sub PROVE Stream(s) = <<>>
      <4>1. Stream(s) = (<<>> \o <<>>) \o <<>>
        BY Zenon DEF Init, Stream
      <4> QED BY <4>1
    <3>2. 0 \in 0..Len(log)
      BY DEF Init
    <3> QED BY Zenon, <2>0, <3>1, <3>2 DEF Init, StreamInv, InLine, EndsAt
  <2>6. CloseInv
    BY Zenon DEF Init, CloseInv
  <2> QED BY Zenon, <2>1, <2>2, <2>3, <2>4, <2>5, <2>6 DEF BusInv
<1>2. BusInv /\ [Next]_vars => BusInv'
  <2> SUFFICES ASSUME BusInv, [Next]_vars PROVE BusInv'
    BY SMTT(30)
  <2>0. /\ TypeOK /\ WaitsForAReason /\ DispatchInv /\ LogInv /\ SenderInv /\ ResultIsTrue
        /\ StreamInv /\ ReaderInv /\ KeeperInv
    BY Zenon DEF BusInv, CloseInv, ReaderInv, KeeperInv
  <2>1. CASE Next
    <3>1. TypeOK' /\ WaitsForAReason' /\ DispatchInv' /\ LogInv' /\ SenderInv' /\ ResultIsTrue'
      BY ZenonT(60), <2>0, <2>1, TypeStep, WaitsStep, DispatchStep, LogStep, SenderStep
    <3>2. StreamInv'
      BY SMTT(30), <2>0, <2>1, <3>1, StreamStep
    <3>3. CloseInv'
      BY Zenon, <2>0, <2>1, ReaderStep, KeeperStep DEF CloseInv, ReaderInv, KeeperInv
    <3> QED BY Zenon, <3>1, <3>2, <3>3 DEF BusInv
  <2>2. CASE UNCHANGED vars
    <3>1. TypeOK' /\ WaitsForAReason' /\ DispatchInv' /\ LogInv' /\ SenderInv' /\ ResultIsTrue'
      <4>1. TopicTypeOK' /\ IngressTypeOK' /\ SubTypeOK' /\ EgressTypeOK'
        <5>1. TopicTypeOK'
          BY SMTT(30), <2>0, <2>2 DEF TypeOK, TopicTypeOK
        <5>2. IngressTypeOK'
          BY Zenon, <2>0, <2>2 DEF TypeOK, IngressTypeOK
        <5>3. SubTypeOK'
          BY SMTT(30), <2>0, <2>2 DEF TypeOK, SubTypeOK
        <5>4. EgressTypeOK'
          BY ZenonT(60), <2>0, <2>2 DEF TypeOK, EgressTypeOK
        <5> QED BY SMTT(30), <5>1, <5>2, <5>3, <5>4
      <4>2. WaitsForAReason' /\ DispatchInv'
        BY ZenonT(60), <2>0, <2>2 DEF WaitsForAReason, DispatchInv
      <4>3. LogInv'
        BY Zenon, <2>0, <2>2 DEF LogInv, Taken
      <4>4. SenderInv' /\ ResultIsTrue'
        BY SMTT(30), <2>0, <2>2 DEF SenderInv, ResultIsTrue
      <4> QED BY Zenon, <4>1, <4>2, <4>3, <4>4 DEF TypeOK
    <3>3. StreamInv'
      <4>0. log' = log /\ sub' = sub /\ UNCHANGED <<registered, todo, target>>
        BY Zenon, <2>2
      <4>1. ASSUME NEW s \in Sub
            PROVE  Stream(s)' = Stream(s) /\ Reach(s)' = Reach(s) /\ InLine(s)' = InLine(s)
        BY Zenon, <2>2 DEF Stream, Reach, Taken, TurnToCome, InLine
      <4>2. ASSUME NEW s \in Sub
            PROVE  /\ EndsAt(Stream(s), Reach(s))' = EndsAt(Stream(s), Reach(s))
                   /\ (\E k \in 0..Len(log) : EndsAt(Stream(s), k))'
                        = (\E k \in 0..Len(log) : EndsAt(Stream(s), k))
        BY <4>0, <4>1, ZenonT(60) DEF EndsAt
      <4> QED BY Zenon, <2>0, <4>0, <4>1, <4>2 DEF StreamInv
    <3>4. CloseInv'
      BY Zenon, <2>0, <2>2 DEF CloseInv, ReaderInv, KeeperInv
    <3> QED BY <3>1, <3>3, <3>4 DEF BusInv
  <2> QED BY Zenon, <2>1, <2>2
<1> QED BY <1>1, <1>2, PTL DEF Spec

\* Every part of the state of the bus has its type, and neither channel ever
\* holds more than its capacity.
THEOREM BusTypes == Spec => []TypeOK
<1>1. BusInv => TypeOK
  BY SMTT(30) DEF BusInv
<1> QED BY <1>1, BusInvariant, PTL

\* Each subscriber gets a contiguous piece of what the topic took, in order, for
\* every number of publishers and subscribers and every capacity of the two
\* channels, and whoever closes what when.
THEOREM BusInOrder == Spec => []InOrderNoGaps
<1>1. BusInv => InOrderNoGaps
  BY Zenon DEF BusInv, StreamInv, InLine, InOrderNoGaps
<1> QED BY <1>1, BusInvariant, PTL

\* The result of a publish tells whether its message is in the topic.
THEOREM BusResults == Spec => []ResultIsTrue
<1>1. BusInv => ResultIsTrue
  BY Zenon DEF BusInv
<1> QED BY <1>1, BusInvariant, PTL

\* Nobody waits at a channel without a reason: no wake-up is lost between a
\* publisher, the dispatcher and a subscriber.
THEOREM BusWaits == Spec => []WaitsForAReason
<1>1. BusInv => WaitsForAReason
  BY SMTT(30) DEF BusInv
<1> QED BY <1>1, BusInvariant, PTL

\* A topic that has been closed has closed every subscription but the late ones.
THEOREM BusClosedTopic == Spec => []ClosedTopicEnds
<1>1. BusInv => ClosedTopicEnds
  BY Zenon, BusAssumption DEF BusInv, CloseInv, WaitsForAReason, ClosedTopicEnds, TypeOK, TopicTypeOK
<1> QED BY <1>1, BusInvariant, PTL
=============================================================================
