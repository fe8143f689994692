---------------------------- MODULE QueueProofs ----------------------------
(***************************************************************************)
(* The two queues of the base layer that coroutines take from, each on its *)
(* own: nothing is lost in them, doubled or, in the mailbox, overtaken.    *)
(*                                                                         *)
(* Mailbox, for any number of messages and receivers and any capacity.     *)
(* The properties speak of delivered \o queue, the line of messages        *)
(* accepted so far: a push appends to it and a recv() moves the boundary   *)
(* between its two parts, nothing else touches it.                         *)
(*                                                                         *)
(* The file watcher, for any number of coroutines that call next(), any    *)
(* number of events and any size of the buffer.  An event is in one of     *)
(* five places: the kernel's queue, the unread part of the buffer, the     *)
(* hands of one next(), the results, or gone with an exception or stop().  *)
(* A step moves events from one place to another, and what such a move     *)
(* does to five disjoint sets is said once, by the Parted lemmas.          *)
(***************************************************************************)
EXTENDS Mailbox, FsWatcher, SequenceLemmas

-----------------------------------------------------------------------------
(* Mailbox.                                                                *)

Line == delivered \o queue

\* Who holds the mutex, and what a receiver that holds it has seen.
HolderInv ==
  /\ \A m \in Message : send[m] \in {"trying", "looking"} <=> holder = m
  /\ \A r \in Receiver : recv[r] = "looking" <=> holder = r
  /\ holder \in Receiver => queue = <<>>

\* What a send found accepted stays accepted, and no send found itself.
EarlierInv ==
  \A m \in Message : earlier[m] \subseteq Accepted /\ m \notin earlier[m]

IndInv == TypeOK /\ HolderInv /\ EarlierInv /\ EndIsFinal /\ AcceptedOnce /\ FirstInFirstOut

\* Taking the first message moves it from the queue to the delivered ones and
\* leaves the line as it is.
LEMMA TakeKeepsLine ==
  ASSUME NEW S, NEW d \in Seq(S), NEW q \in Seq(S), q # <<>>
  PROVE  /\ Head(q) \in S /\ Tail(q) \in Seq(S) /\ Len(Tail(q)) = Len(q) - 1
         /\ Append(d, Head(q)) \in Seq(S)
         /\ Append(d, Head(q)) \o Tail(q) = d \o q
<1> DEFINE h == Head(q)
           t == Tail(q)
           a == Append(d, h)
<1>0. Len(d) \in Nat /\ Len(q) \in Nat
  OBVIOUS
<1>1. /\ Len(d) \in Nat /\ Len(q) \in Nat /\ Len(q) > 0
      /\ h \in S /\ h = q[1] /\ t \in Seq(S) /\ Len(t) = Len(q) - 1
      /\ \A i \in 1..(Len(q) - 1) : t[i] = q[i + 1]
  OBVIOUS
<1> HIDE DEF h, t
<1>2. /\ a \in Seq(S) /\ Len(a) = Len(d) + 1
      /\ \A i \in 1..Len(d) : a[i] = d[i]
      /\ a[Len(d) + 1] = h
  BY <1>1
<1> HIDE DEF a
<1> DEFINE x == a \o t
           y == d \o q
<1>3. /\ x \in Seq(S) /\ Len(x) = Len(a) + Len(t)
      /\ \A i \in 1..(Len(a) + Len(t)) :
           x[i] = IF i <= Len(a) THEN a[i] ELSE t[i - Len(a)]
  BY Zenon, <1>1, <1>2, ConcatByPosition
<1>4. /\ y \in Seq(S) /\ Len(y) = Len(d) + Len(q)
      /\ \A i \in 1..(Len(d) + Len(q)) :
           y[i] = IF i <= Len(d) THEN d[i] ELSE q[i - Len(d)]
  BY Zenon, ConcatByPosition
<1>5. Len(x) = Len(y) /\ Len(y) = Len(d) + Len(q)
  BY <1>1, <1>2, <1>3, <1>4
<1>6. ASSUME NEW i \in 1..(Len(d) + Len(q)) PROVE x[i] = y[i]
  <2>1. CASE i <= Len(d)
    BY <2>1, <1>1, <1>2, <1>3, <1>4
  <2>2. CASE i = Len(d) + 1
    BY <2>2, <1>1, <1>2, <1>3, <1>4
  <2>3. CASE i > Len(d) + 1
    <3> DEFINE k == i - Len(a)
    <3>1. k \in 1..(Len(q) - 1) /\ k + 1 = i - Len(d)
      BY <2>3, <1>1, <1>2
    <3>2. x[i] = t[k]
      BY SMTT(30), <2>3, <1>1, <1>2, <1>3
    <3>3. y[i] = q[i - Len(d)]
      BY <2>3, <1>1, <1>4
    <3> HIDE DEF k, x, y
    <3>4. \A n \in 1..(Len(q) - 1) : t[n] = q[n + 1]
      BY Zenon, <1>1
    <3>5. t[k] = q[k + 1]
      BY Zenon, <3>1, <3>4
    <3>6. q[k + 1] = q[i - Len(d)]
      BY <3>1, Zenon
    <3> QED BY <3>2, <3>3, <3>5, <3>6, Zenon
  <2>4. i \in Int /\ Len(d) \in Int
    BY <1>0
  <2>5. i <= Len(d) \/ i = Len(d) + 1 \/ i > Len(d) + 1
    BY <2>4
  <2> QED BY <2>1, <2>2, <2>3, <2>5, Zenon
<1> HIDE DEF x, y
<1>7. x = y
  BY <1>3, <1>4, <1>5, <1>6
<1> QED BY Zenon, <1>1, <1>2, <1>7 DEF h, t, a, x, y

\* Appending to the queue appends to the line.
LEMMA PushExtendsLine ==
  ASSUME NEW S, NEW d \in Seq(S), NEW q \in Seq(S), NEW e \in S
  PROVE  d \o Append(q, e) = Append(d \o q, e)
OBVIOUS

\* The invariant holds when create() returns.
LEMMA InitInd == Init => IndInv
<1> SUFFICES ASSUME Init PROVE IndInv
  BY Zenon
<1>1. TypeOK /\ HolderInv /\ EndIsFinal
  <2>1. <<>> \in Seq(Message) /\ Len(<<>>) = 0 /\ 0 <= Capacity
    BY MailboxAssumption
  <2>2. TypeOK
    BY Zenon, <2>1 DEF Init, TypeOK
  <2>3. HolderInv /\ EndIsFinal
    BY Zenon, MailboxAssumption DEF Init, HolderInv, EndIsFinal
  <2> QED BY Zenon, <2>2, <2>3
<1>2. delivered \o queue = <<>> /\ Accepted = {}
  BY DEF Init, Accepted
<1>3. AcceptedOnce /\ EarlierInv /\ FirstInFirstOut
  BY Zenon, <1>2, EmptyFacts DEF Init, AcceptedOnce, EarlierInv, FirstInFirstOut, Range
<1> QED BY Zenon, <1>1, <1>3 DEF IndInv

\* The parts of the invariant about the line stay true as long as neither the
\* line, the accepted messages nor what the sends have seen change.
LEMMA LineUnchanged ==
  ASSUME IndInv, Line' = Line, Accepted' = Accepted, earlier' = earlier
  PROVE  EarlierInv' /\ AcceptedOnce' /\ FirstInFirstOut'
BY Zenon DEF IndInv, Line, EarlierInv, AcceptedOnce, FirstInFirstOut

\* A step of a send that accepts nothing and leaves the queue alone.
LEMMA QuietSend ==
  ASSUME IndInv, NEW m \in Message,
         SendFor(m) \/ TrySend(m) \/ Expire(m) \/ SendClosed(m) \/ SendOpen(m)
           \/ Full(m) \/ SendWake(m) \/ SendStopped(m)
  PROVE  IndInv'
<1> USE MailboxAssumption
<1>1. TypeOK' /\ HolderInv' /\ EndIsFinal'
  <2>1. TypeOK'
    BY SMTT(30) DEF IndInv, TypeOK, Accepted, SendFor, TrySend, Call, Expire, SendClosed, SendOpen,
           Full, SendWake, SendStopped, TrySending, Waiting, Sent
  <2>2. HolderInv'
    BY DEF IndInv, TypeOK, HolderInv, SendFor, TrySend, Call, Expire, SendClosed, SendOpen,
           Full, SendWake, SendStopped, TrySending, Waiting, Sent
  <2>3. EndIsFinal'
    BY Zenon DEF IndInv, TypeOK, HolderInv, EndIsFinal, SendFor, TrySend, Call, Expire,
           SendClosed, SendOpen, Full, SendWake, SendStopped
  <2> QED BY Zenon, <2>1, <2>2, <2>3
<1>2. Line' = Line
  BY Zenon DEF Line, SendFor, TrySend, Call, Expire, SendClosed, SendOpen, Full, SendWake,
         SendStopped
<1>3. Accepted' = Accepted /\ send[m] # "true"
  BY ZenonT(60) DEF IndInv, TypeOK, HolderInv, Accepted, SendFor, TrySend, Call, Expire,
         SendClosed, SendOpen, Full, SendWake, SendStopped
<1>4. CASE SendFor(m) \/ TrySend(m)
  <2>1. earlier' = [earlier EXCEPT ![m] = Accepted]
    BY Zenon, <1>4 DEF SendFor, TrySend, Call
  <2>2. EarlierInv'
    BY Zenon, <1>3, <2>1 DEF IndInv, TypeOK, EarlierInv, Accepted
  <2>3. AcceptedOnce'
    BY Zenon, <1>2, <1>3 DEF IndInv, AcceptedOnce, Line
  <2>4. m \notin Range(Line)
    BY Zenon, <1>3 DEF IndInv, AcceptedOnce, Line, Accepted
  <2>5. \A i \in DOMAIN Line : Line[i] # m
    BY Zenon, <2>4 DEF Range
  <2>6. FirstInFirstOut'
    <3> SUFFICES ASSUME NEW i \in DOMAIN Line, NEW j \in DOMAIN Line,
                        Line[i] \in earlier'[Line[j]]
                 PROVE  i < j
      BY Zenon, <1>2 DEF FirstInFirstOut, Line
    <3>1. earlier'[Line[j]] = earlier[Line[j]]
      BY <2>1, <2>5 DEF IndInv, TypeOK
    <3> QED BY Zenon, <3>1 DEF IndInv, FirstInFirstOut, Line
  <2> QED BY Zenon, <1>1, <2>2, <2>3, <2>6 DEF IndInv
<1>5. CASE ~(SendFor(m) \/ TrySend(m))
  <2>1. earlier' = earlier
    BY Zenon, <1>5 DEF Expire, SendClosed, SendOpen, Full, SendWake, SendStopped
  <2> QED BY Zenon, <1>1, <1>2, <1>3, <2>1, LineUnchanged DEF IndInv
<1> QED BY Zenon, <1>4, <1>5

\* A message enters the queue: the line grows at its end.
LEMMA PushInd ==
  ASSUME IndInv, NEW m \in Message, Push(m)
  PROVE  IndInv'
<1> USE MailboxAssumption
<1>1. /\ queue \in Seq(Message) /\ delivered \in Seq(Message) /\ Line \in Seq(Message)
      /\ IsInjective(Line) /\ Range(Line) = Accepted
  BY DEF IndInv, TypeOK, AcceptedOnce, Line
<1>2. send[m] \in {"trying", "looking"} /\ m \notin Accepted
  BY Zenon DEF IndInv, HolderInv, Push, Accepted
<1>3. Line' = Append(Line, m)
  BY <1>1, PushExtendsLine DEF Push, Line
<1>4. Accepted' = Accepted \cup {m}
  BY Zenon DEF IndInv, TypeOK, Push, Accepted
<1>5. /\ Line' \in Seq(Message) /\ IsInjective(Line')
      /\ Range(Line') = Range(Line) \cup {m} /\ Len(Line') = Len(Line) + 1
  BY Zenon, <1>1, <1>2, <1>3, AppendDistinct
<1>6. TypeOK'
  <2>1. queue' \in Seq(Message) /\ Len(queue') <= Capacity
    BY <1>1 DEF Push
  <2> QED BY Zenon, <2>1 DEF IndInv, TypeOK, Push, TrySending, Waiting, Sent
<1>7. HolderInv' /\ EndIsFinal'
  BY Zenon, <1>2 DEF IndInv, TypeOK, HolderInv, EndIsFinal, Push
<1>8. AcceptedOnce'
  BY Zenon, <1>1, <1>4, <1>5 DEF AcceptedOnce, Line
<1>9. EarlierInv'
  BY Zenon, <1>4 DEF IndInv, EarlierInv, Push
<1>10. FirstInFirstOut'
  <2>1. /\ Len(Line) \in Nat /\ DOMAIN Line = 1..Len(Line)
        /\ DOMAIN Line' = 1..(Len(Line) + 1)
        /\ \A i \in 1..Len(Line) : Line'[i] = Line[i]
        /\ Line'[Len(Line) + 1] = m
        /\ \A i \in 1..Len(Line) : Line[i] \in Accepted
    BY <1>1, <1>3, <1>5 DEF Range
  <2> SUFFICES ASSUME NEW i \in 1..(Len(Line) + 1), NEW j \in 1..(Len(Line) + 1),
                      Line'[i] \in earlier[Line'[j]]
               PROVE  i < j
    BY Zenon, <2>1 DEF FirstInFirstOut, Line, Push
  <2>2. CASE i \in 1..Len(Line) /\ j \in 1..Len(Line)
    BY Zenon, <2>1, <2>2 DEF IndInv, FirstInFirstOut, Line
  <2>3. CASE i = Len(Line) + 1
    <3>1. Line'[j] \in Message /\ m \in earlier[Line'[j]]
      BY <2>1, <2>3, <1>1
    <3>2. m \in Accepted
      BY Zenon, <3>1 DEF IndInv, EarlierInv
    <3> QED BY Zenon, <3>2, <1>2
  <2>4. CASE i \in 1..Len(Line) /\ j = Len(Line) + 1
    BY <2>1, <2>4
  <2> QED BY <2>1, <2>2, <2>3, <2>4
<1> QED BY Zenon, <1>6, <1>7, <1>8, <1>9, <1>10 DEF IndInv

\* A recv() takes the first message: the line stays.
LEMMA RecvMessageInd ==
  ASSUME IndInv, NEW r \in Receiver, RecvMessage(r)
  PROVE  IndInv'
<1> USE MailboxAssumption
<1>1. queue \in Seq(Message) /\ delivered \in Seq(Message) /\ queue # <<>>
  BY Zenon DEF IndInv, TypeOK, RecvMessage
<1>2. /\ queue' \in Seq(Message) /\ Len(queue') = Len(queue) - 1
      /\ delivered' \in Seq(Message) /\ Line' = Line
  BY SMTT(30), <1>1, TakeKeepsLine DEF RecvMessage, Line
<1>3. TypeOK'
  <2>1. Len(queue') <= Capacity
    BY <1>1, <1>2 DEF IndInv, TypeOK
  <2> QED BY Zenon, <1>2, <2>1 DEF IndInv, TypeOK, RecvMessage
<1>4. HolderInv' /\ EndIsFinal'
  BY Zenon, <1>1 DEF IndInv, TypeOK, HolderInv, EndIsFinal, RecvMessage
<1>5. Accepted' = Accepted /\ earlier' = earlier
  BY Zenon DEF RecvMessage, Accepted
<1> QED BY Zenon, <1>2, <1>3, <1>4, <1>5, LineUnchanged DEF IndInv

\* The other steps of recv(), and close(): the line stays, a receiver that
\* ends has seen the queue empty and keeps the senders out meanwhile.
LEMMA QuietRecv ==
  ASSUME IndInv,
         Close \/ \E r \in Receiver : RecvCall(r) \/ RecvLook(r) \/ RecvDecide(r)
                                        \/ RecvWake(r) \/ RecvStopped(r)
  PROVE  IndInv'
<1> USE MailboxAssumption
<1>1. TypeOK'
  BY Zenon DEF IndInv, TypeOK, Close, RecvCall, RecvLook, RecvDecide, RecvWake, RecvStopped
<1>2. HolderInv'
  BY DEF IndInv, TypeOK, HolderInv, Close, RecvCall, RecvLook, RecvDecide, RecvWake,
         RecvStopped
<1>3. EndIsFinal'
  BY DEF IndInv, TypeOK, HolderInv, EndIsFinal, Close, RecvCall, RecvLook, RecvDecide,
         RecvWake, RecvStopped
<1>4. Line' = Line /\ Accepted' = Accepted /\ earlier' = earlier
  BY Zenon DEF Line, Accepted, Close, RecvCall, RecvLook, RecvDecide, RecvWake, RecvStopped
<1> QED BY Zenon, <1>1, <1>2, <1>3, <1>4, LineUnchanged DEF IndInv

\* Every step keeps the invariant.
LEMMA NextInd == IndInv /\ [Next]_vars => IndInv'
<1> SUFFICES ASSUME IndInv, [Next]_vars PROVE IndInv'
  BY Zenon
<1>1. CASE Next
  BY Zenon, <1>1, QuietSend, PushInd, RecvMessageInd, QuietRecv DEF Next, SendStep, RecvStep
<1>2. CASE UNCHANGED vars
  BY Zenon, <1>2 DEF vars, IndInv, TypeOK, HolderInv, EarlierInv, EndIsFinal, AcceptedOnce,
              FirstInFirstOut, Accepted
<1> QED BY Zenon, <1>1, <1>2

\* For any number of senders and receivers: a nullopt of recv() is final, the
\* messages received and queued are those accepted, once each, and in order.
THEOREM MailboxInvariant == Spec => []IndInv
BY InitInd, NextInd, PTL DEF Spec

\* Types, and the bound of the queue.
THEOREM MailboxTypeCorrect == Spec => []TypeOK
<1>1. IndInv => TypeOK
  BY Zenon DEF IndInv
<1> QED BY <1>1, MailboxInvariant, PTL

\* recv() returns nullopt only after close and drain.
THEOREM RecvEndIsFinal == Spec => []EndIsFinal
<1>1. IndInv => EndIsFinal
  BY Zenon DEF IndInv
<1> QED BY <1>1, MailboxInvariant, PTL

\* Nothing accepted is lost or doubled, nothing refused is delivered.
THEOREM MailboxDelivers == Spec => []AcceptedOnce
<1>1. IndInv => AcceptedOnce
  BY Zenon DEF IndInv
<1> QED BY <1>1, MailboxInvariant, PTL

\* Messages come out in the order in which their sends followed each other.
THEOREM MailboxIsFifo == Spec => []FirstInFirstOut
<1>1. IndInv => FirstInFirstOut
  BY Zenon DEF IndInv
<1> QED BY <1>1, MailboxInvariant, PTL

-----------------------------------------------------------------------------
(* FsWatcher.                                                              *)

\* The kernel queues new events.
LEMMA PartedEmit ==
  ASSUME NEW K, NEW U, NEW D, NEW L, NEW H, NEW n \in Nat, NEW m \in Nat,
         Parted(K, U, D, L, H, n)
  PROVE  Parted(K \cup ((n + 1)..(n + m)), U, D, L, H, n + m)
<1>1. 1..(n + m) = (1..n) \cup ((n + 1)..(n + m))
  OBVIOUS
<1>2. (1..n) \cap ((n + 1)..(n + m)) = {}
  OBVIOUS
<1> DEFINE A == 1..n
           B == (n + 1)..(n + m)
<1>3. 1..(n + m) = A \cup B /\ A \cap B = {}
  BY Zenon, <1>1, <1>2
<1>4. A = K \cup U \cup D \cup L \cup UNION {H[r] : r \in Readers}
  BY Zenon DEF Parted
<1> HIDE DEF A, B
<1>5. \A r \in Readers : H[r] \subseteq A
  BY Zenon, <1>4
<1>6. /\ (K \cup B) \cap (U \cup D \cup L) = {} /\ U \cap (D \cup L) = {} /\ D \cap L = {}
      /\ \A r \in Readers : H[r] \cap (K \cup B \cup U \cup D \cup L) = {}
      /\ \A r, q \in Readers : r # q => H[r] \cap H[q] = {}
  BY Zenon, <1>3, <1>4, <1>5 DEF Parted
<1>7. A \cup B = (K \cup B) \cup U \cup D \cup L \cup UNION {H[r] : r \in Readers}
  BY Zenon, <1>4
<1>8. Parted(K \cup B, U, D, L, H, n + m)
  BY Zenon, <1>3, <1>6, <1>7 DEF Parted
<1> QED BY Zenon, <1>8 DEF B

\* A reader takes events off the kernel's queue.
LEMMA PartedRead ==
  ASSUME NEW K, NEW U, NEW D, NEW L, NEW H, NEW n, Parted(K, U, D, L, H, n),
         NEW r \in Readers, H[r] = {}, NEW X, X \subseteq K,
         NEW G, G[r] = X, \A q \in Readers : q # r => G[q] = H[q]
  PROVE  Parted(K \ X, U, D, L, G, n)
<1> DEFINE A == 1..n
<1>1. /\ K \cap (U \cup D \cup L) = {} /\ U \cap (D \cup L) = {} /\ D \cap L = {}
      /\ \A q \in Readers : H[q] \cap (K \cup U \cup D \cup L) = {}
      /\ \A q, p \in Readers : q # p => H[q] \cap H[p] = {}
      /\ A = K \cup U \cup D \cup L \cup UNION {H[q] : q \in Readers}
  BY Zenon DEF Parted
<1> HIDE DEF A
<1>2. UNION {G[q] : q \in Readers} = X \cup UNION {H[q] : q \in Readers}
  BY Zenon
<1>3. A = (K \ X) \cup U \cup D \cup L \cup UNION {G[q] : q \in Readers}
  BY Zenon, <1>1, <1>2
<1>4. \A q \in Readers : G[q] \cap ((K \ X) \cup U \cup D \cup L) = {}
  BY Zenon, <1>1
<1>5. \A q, p \in Readers : q # p => G[q] \cap G[p] = {}
  BY Zenon, <1>1
<1> QED BY Zenon, <1>1, <1>3, <1>4, <1>5 DEF Parted, A

\* A reader with or without a chunk takes the first event of the buffer.
LEMMA PartedPop ==
  ASSUME NEW K, NEW U, NEW D, NEW L, NEW H, NEW n, Parted(K, U, D, L, H, n),
         NEW r \in Readers, NEW e, e \in U \cup H[r],
         NEW G, G[r] = {e}, \A q \in Readers : q # r => G[q] = H[q]
  PROVE  Parted(K, (U \cup H[r]) \ {e}, D, L, G, n)
<1> DEFINE A == 1..n
           V == (U \cup H[r]) \ {e}
<1>1. /\ K \cap (U \cup D \cup L) = {} /\ U \cap (D \cup L) = {} /\ D \cap L = {}
      /\ \A q \in Readers : H[q] \cap (K \cup U \cup D \cup L) = {}
      /\ \A q, p \in Readers : q # p => H[q] \cap H[p] = {}
      /\ A = K \cup U \cup D \cup L \cup UNION {H[q] : q \in Readers}
  BY Zenon DEF Parted
<1> HIDE DEF A
<1>2. H[r] \cup UNION {G[q] : q \in Readers} = {e} \cup UNION {H[q] : q \in Readers}
  BY Zenon
<1>3. A = K \cup V \cup D \cup L \cup UNION {G[q] : q \in Readers}
  BY <1>1, <1>2
<1>4. \A q \in Readers : G[q] \cap (K \cup V \cup D \cup L) = {}
  BY <1>1
<1>5. \A q, p \in Readers : q # p => G[q] \cap G[p] = {}
  BY <1>1
<1>6. K \cap (V \cup D \cup L) = {} /\ V \cap (D \cup L) = {} /\ D \cap L = {}
  BY Zenon, <1>1
<1> QED BY Zenon, <1>3, <1>4, <1>5, <1>6 DEF Parted, A

\* What a reader has in hand is returned or lost.
LEMMA PartedDone ==
  ASSUME NEW K, NEW U, NEW D, NEW L, NEW H, NEW n, Parted(K, U, D, L, H, n),
         NEW r \in Readers,
         NEW G, G[r] = {}, \A q \in Readers : q # r => G[q] = H[q]
  PROVE  Parted(K, U, D \cup H[r], L, G, n) /\ Parted(K, U, D, L \cup H[r], G, n)
<1> DEFINE A == 1..n
<1>1. /\ K \cap (U \cup D \cup L) = {} /\ U \cap (D \cup L) = {} /\ D \cap L = {}
      /\ \A q \in Readers : H[q] \cap (K \cup U \cup D \cup L) = {}
      /\ \A q, p \in Readers : q # p => H[q] \cap H[p] = {}
      /\ A = K \cup U \cup D \cup L \cup UNION {H[q] : q \in Readers}
  BY Zenon DEF Parted
<1> HIDE DEF A
<1>2. H[r] \cup UNION {G[q] : q \in Readers} = UNION {H[q] : q \in Readers}
  BY Zenon
<1>3. /\ A = K \cup U \cup (D \cup H[r]) \cup L \cup UNION {G[q] : q \in Readers}
      /\ A = K \cup U \cup D \cup (L \cup H[r]) \cup UNION {G[q] : q \in Readers}
  BY Zenon, <1>1, <1>2
<1>4. \A q \in Readers : G[q] \cap (K \cup U \cup D \cup L \cup H[r]) = {}
  BY Zenon, <1>1
<1>5. \A q, p \in Readers : q # p => G[q] \cap G[p] = {}
  BY Zenon, <1>1
<1>6. /\ K \cap (U \cup D \cup L \cup H[r]) = {} /\ U \cap (D \cup L \cup H[r]) = {}
      /\ D \cap (L \cup H[r]) = {} /\ (D \cup H[r]) \cap L = {}
  BY Zenon, <1>1
<1>7. Parted(K, U, D \cup H[r], L, G, n)
  BY Zenon, <1>3, <1>4, <1>5, <1>6 DEF Parted, A
<1>8. Parted(K, U, D, L \cup H[r], G, n)
  BY Zenon, <1>3, <1>4, <1>5, <1>6 DEF Parted, A
<1> QED BY Zenon, <1>7, <1>8

\* A chunk is added to the buffer.
LEMMA BeyondConcat ==
  ASSUME NEW s \in Seq(Nat), NEW t \in Seq(Nat), NEW k \in 0..Len(s),
         DistinctBeyond(s, k), IsInjective(t), Beyond(s, k) \cap Range(t) = {}
  PROVE  /\ s \o t \in Seq(Nat) /\ Len(s \o t) = Len(s) + Len(t)
         /\ Beyond(s \o t, k) = Beyond(s, k) \cup Range(t)
         /\ DistinctBeyond(s \o t, k)
<1> DEFINE c == s \o t
           n == Len(s)
           m == Len(t)
<1>1. /\ c \in Seq(Nat) /\ Len(c) = n + m /\ n \in Nat /\ m \in Nat
      /\ \A i \in 1..(n + m) : c[i] = IF i <= n THEN s[i] ELSE t[i - n]
  BY ConcatByPosition
<1>2. DOMAIN t = 1..m /\ Range(t) = {t[i] : i \in 1..m}
  BY Zenon, RangeByPosition
<1> HIDE DEF c, n, m
<1>3. k \in Nat /\ k <= n
  BY <1>1 DEF n
<1>4. \A i \in (k + 1)..n : i \in 1..(n + m) /\ c[i] = s[i] /\ s[i] \in Beyond(s, k)
  BY SMTT(30), <1>1, <1>3 DEF Beyond, n
<1>5. \A i \in 1..m : n + i \in (k + 1)..(n + m) /\ c[n + i] = t[i] /\ t[i] \in Range(t)
  <2> TAKE i \in 1..m
  <2>1. n + i \in 1..(n + m) /\ ~(n + i <= n) /\ n + i - n = i /\ n + i \in (k + 1)..(n + m)
    BY <1>1, <1>3
  <2> QED BY <1>1, <1>2, <2>1
<1>6. ASSUME NEW i \in (k + 1)..(n + m)
      PROVE  \/ i \in (k + 1)..n
             \/ i - n \in 1..m /\ i = n + (i - n)
  BY <1>1, <1>3
<1>7. Beyond(c, k) = Beyond(s, k) \cup Range(t)
  <2>1. ASSUME NEW x \in Beyond(c, k) PROVE x \in Beyond(s, k) \cup Range(t)
    <3>1. PICK i \in (k + 1)..(n + m) : x = c[i]
      BY Zenon, <1>1 DEF Beyond
    <3> QED BY Zenon, <1>4, <1>5, <1>6, <3>1
  <2>2. ASSUME NEW x \in Beyond(s, k) PROVE x \in Beyond(c, k)
    <3>1. PICK i \in (k + 1)..n : x = s[i]
      BY Zenon DEF Beyond, n
    <3>2. i \in (k + 1)..(n + m)
      BY <1>1, <1>3
    <3> QED BY Zenon, <1>1, <1>4, <3>1, <3>2 DEF Beyond
  <2>3. ASSUME NEW x \in Range(t) PROVE x \in Beyond(c, k)
    <3>1. PICK i \in 1..m : x = t[i]
      BY Zenon, <1>2
    <3> QED BY Zenon, <1>1, <1>5, <3>1 DEF Beyond
  <2> QED BY Zenon, <2>1, <2>2, <2>3
<1>8. ASSUME NEW i \in (k + 1)..(n + m), NEW j \in (k + 1)..(n + m), c[i] = c[j] PROVE i = j
  <2>1. CASE i \in (k + 1)..n /\ j \in (k + 1)..n
    BY Zenon, <1>4, <1>8, <2>1 DEF DistinctBeyond, n
  <2>2. CASE i \in (k + 1)..n /\ j - n \in 1..m /\ j = n + (j - n)
    BY Zenon, <1>4, <1>5, <1>8, <2>2
  <2>3. CASE j \in (k + 1)..n /\ i - n \in 1..m /\ i = n + (i - n)
    BY ZenonT(60), <1>4, <1>5, <1>8, <2>3
  <2>4. CASE i - n \in 1..m /\ i = n + (i - n) /\ j - n \in 1..m /\ j = n + (j - n)
    <3>1. t[i - n] = t[j - n]
      BY Zenon, <1>5, <1>8, <2>4
    <3>2. i - n = j - n
      BY Zenon, <1>2, <2>4, <3>1 DEF IsInjective
    <3> QED BY Zenon, <2>4, <3>2
  <2> QED BY Zenon, <1>6, <2>1, <2>2, <2>3, <2>4
<1>9. DistinctBeyond(c, k)
  BY Zenon, <1>1, <1>8 DEF DistinctBeyond
<1> QED BY Zenon, <1>1, <1>7, <1>9 DEF c, n, m

\* The first event is taken off a buffer, which may be moved down or emptied.
LEMMA BeyondPop ==
  ASSUME NEW buf \in Seq(Nat), NEW k \in Nat, k < Len(buf), DistinctBeyond(buf, k)
  PROVE  LET rest == SubSeq(buf, k + 2, Len(buf))
         IN  /\ buf[k + 1] \in Nat /\ buf[k + 1] \in Beyond(buf, k)
             /\ Beyond(buf, k + 1) = Beyond(buf, k) \ {buf[k + 1]}
             /\ DistinctBeyond(buf, k + 1)
             /\ rest \in Seq(Nat)
             /\ Beyond(rest, 0) = Beyond(buf, k + 1) /\ DistinctBeyond(rest, 0)
             /\ Len(buf) <= k + 1 => Beyond(buf, k + 1) = {}
<1> DEFINE n == Len(buf)
           rest == SubSeq(buf, k + 2, n)
<1>1. n \in Nat /\ k + 1 \in 1..n /\ \A i \in 1..n : buf[i] \in Nat
  OBVIOUS
<1>2. /\ buf[k + 1] \in Nat /\ buf[k + 1] \in Beyond(buf, k)
      /\ \A i \in (k + 2)..n : i \in (k + 1)..n /\ i # k + 1
      /\ \A i \in (k + 1)..n : i # k + 1 => i \in (k + 2)..n
      /\ k + 1 \in (k + 1)..n /\ k + 1 + 1 = k + 2
  <2>1. k + 1 \in (k + 1)..n /\ k + 1 + 1 = k + 2
    BY <1>1
  <2>2. buf[k + 1] \in Beyond(buf, k)
    BY Zenon, <2>1 DEF Beyond
  <2> QED BY <1>1, <2>1, <2>2
<1>3. rest \in Seq(Nat) /\ Len(rest) = n - (k + 1) /\ \A i \in 1..(n - (k + 1)) : rest[i] = buf[k + 1 + i]
  BY <1>1
<1> HIDE DEF n, rest
<1>4. /\ Beyond(buf, k) = {buf[i] : i \in (k + 1)..n}
      /\ Beyond(buf, k + 1) = {buf[i] : i \in (k + 2)..n}
      /\ \A i, j \in (k + 1)..n : buf[i] = buf[j] => i = j
      /\ DistinctBeyond(buf, k + 1) <=> \A i, j \in (k + 2)..n : buf[i] = buf[j] => i = j
  BY Zenon, <1>2 DEF Beyond, DistinctBeyond, n
<1>5. DistinctBeyond(buf, k + 1)
  BY Zenon, <1>2, <1>4
<1>6. Beyond(buf, k + 1) = Beyond(buf, k) \ {buf[k + 1]}
  BY SMTT(30), <1>2, <1>4
<1>7. /\ \A i \in 1..(n - (k + 1)) : k + 1 + i \in (k + 2)..n /\ i \in Int
      /\ \A i \in (k + 2)..n : i - (k + 1) \in 1..(n - (k + 1)) /\ k + 1 + (i - (k + 1)) = i
  BY <1>1
<1>8. Beyond(rest, 0) = {rest[i] : i \in 1..(n - (k + 1))}
  BY <1>3 DEF Beyond
<1>9. Beyond(rest, 0) = Beyond(buf, k + 1)
  <2>1. ASSUME NEW x \in Beyond(rest, 0) PROVE x \in Beyond(buf, k + 1)
    <3>1. PICK i \in 1..(n - (k + 1)) : x = rest[i]
      BY Zenon, <1>8
    <3> QED BY <1>3, <1>4, <1>7, <3>1
  <2>2. ASSUME NEW x \in Beyond(buf, k + 1) PROVE x \in Beyond(rest, 0)
    <3>1. PICK i \in (k + 2)..n : x = buf[i]
      BY Zenon, <1>4
    <3>2. x = rest[i - (k + 1)]
      BY Zenon, <1>3, <1>7, <3>1
    <3> QED BY Zenon, <1>7, <1>8, <3>2
  <2> QED BY Zenon, <2>1, <2>2
<1>10. DistinctBeyond(rest, 0)
  <2>1. ASSUME NEW i \in 1..(n - (k + 1)), NEW j \in 1..(n - (k + 1)), rest[i] = rest[j]
        PROVE  i = j
    <3>1. k + 1 + i = k + 1 + j
      BY ZenonT(60), <1>2, <1>3, <1>4, <1>7, <2>1
    <3> QED BY <1>1, <3>1
  <2> QED BY SMTT(30), <1>3, <2>1 DEF DistinctBeyond
<1>11. n <= k + 1 => Beyond(buf, k + 1) = {}
  BY <1>1, <1>4
<1> QED BY Zenon, <1>2, <1>3, <1>5, <1>6, <1>9, <1>10, <1>11 DEF rest, n

\* What a step that changes one reader leaves in the hands of the others.
LEMMA HandsMove ==
  ASSUME WatchTypeOK, NEW r \in Readers, NEW x \in ReaderType,
         reader' = [reader EXCEPT ![r] = x]
  PROVE  /\ reader' \in [Readers -> ReaderType] /\ reader'[r] = x
         /\ \A q \in Readers : q # r => reader'[q] = reader[q] /\ InHands(q)' = InHands(q)
         /\ InHands(r)' = Range(x.chunk) \cup ({x.event} \ {0})
<1>1. reader \in [Readers -> ReaderType]
  BY Zenon DEF WatchTypeOK
<1>2. reader' \in [Readers -> ReaderType] /\ reader'[r] = x
  BY Zenon, <1>1
<1>3. \A q \in Readers : q # r => reader'[q] = reader[q]
  BY Zenon, <1>1
<1> QED BY Zenon, <1>2, <1>3 DEF InHands

\* A reader that returns has nothing in hand any more.
LEMMA IdleFacts ==
  /\ Idle \in ReaderType /\ Idle.pc = "idle" /\ Idle.chunk = <<>> /\ Idle.event = 0
  /\ Range(Idle.chunk) \cup ({Idle.event} \ {0}) = {} /\ IsInjective(Idle.chunk)
<1>1. <<>> \in Seq(Nat) /\ Range(<<>>) = {} /\ IsInjective(<<>>)
  BY Zenon, EmptyFacts
<1>2. Idle.pc = "idle" /\ Idle.chunk = <<>> /\ Idle.event = 0
  BY Zenon DEF Idle
<1>3. Idle \in ReaderType
  BY Zenon, <1>1 DEF Idle, ReaderType
<1> QED BY Zenon, <1>1, <1>2, <1>3

\* What the invariant says of one reader.
LEMMA ReaderFacts ==
  ASSUME WatchInv, NEW r \in Readers
  PROVE  /\ reader[r] \in ReaderType /\ IsInjective(reader[r].chunk)
         /\ reader[r].chunk \in Seq(Nat) /\ reader[r].event \in Nat
         /\ reader[r].pc \in {"idle", "reading"} => InHands(r) = {}
         /\ reader[r].pc = "read" => InHands(r) = Range(reader[r].chunk) /\ reader[r].chunk # <<>>
         /\ reader[r].pc = "loading" => InHands(r) = {reader[r].event}
<1>1. reader[r] \in ReaderType
  BY Zenon DEF WatchInv, WatchTypeOK
<1>2. IsInjective(reader[r].chunk)
  BY Zenon DEF WatchInv, NoneTwice
<1>3. /\ reader[r].chunk # <<>> <=> reader[r].pc = "read"
      /\ reader[r].event # 0 <=> reader[r].pc = "loading"
  BY Zenon DEF WatchInv, ReaderInv
<1>4. reader[r].chunk \in Seq(Nat) /\ reader[r].event \in Nat
  BY Zenon, <1>1 DEF ReaderType
<1>5. Range(<<>>) = {}
  BY Zenon, EmptyFacts
<1>6. reader[r].pc \in {"idle", "reading"} => InHands(r) = {}
  BY Zenon, <1>3, <1>5 DEF InHands
<1>7. reader[r].pc = "read" => InHands(r) = Range(reader[r].chunk) /\ reader[r].chunk # <<>>
  BY Zenon, <1>3 DEF InHands
<1>8. reader[r].pc = "loading" => InHands(r) = {reader[r].event}
  BY Zenon, <1>3, <1>5 DEF InHands
<1> QED BY Zenon, <1>1, <1>2, <1>4, <1>6, <1>7, <1>8

\* The readers' part of the invariant after a step of one of them.
LEMMA ReadersKept ==
  ASSUME WatchInv, NEW r \in Readers, NEW x \in ReaderType,
         reader' = [reader EXCEPT ![r] = x], IsInjective(x.chunk),
         x.chunk # <<>> <=> x.pc = "read", x.event # 0 <=> x.pc = "loading"
  PROVE  /\ reader' \in [Readers -> ReaderType] /\ ReaderInv'
         /\ \A q \in Readers : IsInjective(reader'[q].chunk)
<1>1. /\ reader' \in [Readers -> ReaderType] /\ reader'[r] = x
      /\ \A q \in Readers : q # r => reader'[q] = reader[q]
  BY Zenon, HandsMove DEF WatchInv
<1>2. \A q \in Readers : /\ IsInjective(reader[q].chunk)
                          /\ (reader[q].chunk # <<>> <=> reader[q].pc = "read")
                          /\ (reader[q].event # 0 <=> reader[q].pc = "loading")
  BY Zenon DEF WatchInv, NoneTwice, ReaderInv
<1>3. \A q \in Readers : /\ IsInjective(reader'[q].chunk)
                          /\ (reader'[q].chunk # <<>> <=> reader'[q].pc = "read")
                          /\ (reader'[q].event # 0 <=> reader'[q].pc = "loading")
  BY Zenon, <1>1, <1>2
<1> QED BY Zenon, <1>1, <1>3 DEF ReaderInv

\* try_pop_pending_event_locked, on the buffer or on the buffer and a chunk.
LEMMA PopKept ==
  ASSUME WatchInv, NEW r \in Readers, NEW buf \in Seq(Nat), pending_offset < Len(buf),
         DistinctBeyond(buf, pending_offset),
         Beyond(buf, pending_offset) = Beyond(pending, pending_offset) \cup InHands(r),
         Pop(r, buf),
         UNCHANGED <<running, descriptor, disk, snapshot, emitted, ignoredAt, kernel, results, lost>>
  PROVE  WatchInv'
<1> DEFINE k == pending_offset
           e == buf[k + 1]
           B == Beyond(buf, k)
           H == [q \in Readers |-> InHands(q)]
<1>1. k \in Nat /\ snapshot \in Contents \cup {Missing}
  BY DEF WatchInv, WatchTypeOK
<1>2. /\ e \in Nat /\ e \in B /\ Beyond(buf, k + 1) = B \ {e} /\ DistinctBeyond(buf, k + 1)
      /\ SubSeq(buf, k + 2, Len(buf)) \in Seq(Nat)
      /\ Beyond(SubSeq(buf, k + 2, Len(buf)), 0) = B \ {e}
      /\ DistinctBeyond(SubSeq(buf, k + 2, Len(buf)), 0)
      /\ Len(buf) <= k + 1 => B \ {e} = {}
  BY SMTT(30), <1>1, BeyondPop
<1>3. Len(buf) \in Nat /\ k + 1 + 1 = k + 2
  BY <1>1
<1>4. /\ pending' \in Seq(Nat) /\ pending_offset' \in 0..Len(pending')
      /\ Beyond(pending', pending_offset') = B \ {e}
      /\ DistinctBeyond(pending', pending_offset')
  <2>1. \/ Len(buf) <= k + 1 /\ pending' = <<>> /\ pending_offset' = 0
        \/ pending' = SubSeq(buf, k + 2, Len(buf)) /\ pending_offset' = 0
        \/ ~(Len(buf) <= k + 1) /\ pending' = buf /\ pending_offset' = k + 1
    BY Zenon, <1>1, <1>3 DEF Pop
  <2>2. CASE Len(buf) <= k + 1 /\ pending' = <<>> /\ pending_offset' = 0
    <3>1. Beyond(<<>>, 0) = {} /\ DistinctBeyond(<<>>, 0) /\ <<>> \in Seq(Nat) /\ 0 \in 0..Len(<<>>)
      BY DEF Beyond, DistinctBeyond
    <3> QED BY Zenon, <1>2, <2>2, <3>1
  <2>3. CASE pending' = SubSeq(buf, k + 2, Len(buf)) /\ pending_offset' = 0
    <3>1. \A s \in Seq(Nat) : 0 \in 0..Len(s)
      OBVIOUS
    <3> QED BY Zenon, <1>2, <2>3, <3>1
  <2>4. CASE ~(Len(buf) <= k + 1) /\ pending' = buf /\ pending_offset' = k + 1
    BY <1>1, <1>2, <1>3, <2>4
  <2> QED BY Zenon, <2>1, <2>2, <2>3, <2>4
<1>5. PICK flag \in BOOLEAN :
        reader' = [reader EXCEPT ![r] = [pc |-> "loading", chunk |-> <<>>, event |-> e,
                                         ignored |-> flag, previous |-> snapshot]]
  BY Zenon DEF Pop
<1> DEFINE x == [pc |-> "loading", chunk |-> <<>>, event |-> e, ignored |-> flag, previous |-> snapshot]
<1>6. Parted(Range(kernel), Beyond(pending, k), Returned, lost, H, emitted)
  BY Zenon DEF WatchInv, EachInOnePlace
<1>7. e # 0
  <2>1. e \in Beyond(pending, k) \cup UNION {H[q] : q \in Readers}
    BY Zenon, <1>2
  <2>2. e \in 1..emitted
    BY Zenon, <1>6, <2>1 DEF Parted
  <2> QED BY <2>2
<1> HIDE DEF k, e, B
<1>8. /\ x \in ReaderType /\ x.chunk = <<>> /\ x.event = e /\ x.pc = "loading"
      /\ IsInjective(x.chunk) /\ Range(x.chunk) \cup ({x.event} \ {0}) = {e}
  <2>1. <<>> \in Seq(Nat) /\ Range(<<>>) = {} /\ IsInjective(<<>>)
    BY Zenon, EmptyFacts
  <2>2. x.chunk = <<>> /\ x.event = e /\ x.pc = "loading"
    BY Zenon
  <2>3. x \in ReaderType
    BY SMTT(30), <1>1, <1>2, <2>1 DEF ReaderType
  <2> QED BY Zenon, <1>7, <2>1, <2>2, <2>3
<1> HIDE DEF x
<1>9. /\ reader' \in [Readers -> ReaderType] /\ ReaderInv'
      /\ \A q \in Readers : IsInjective(reader'[q].chunk)
  <2>1. reader' = [reader EXCEPT ![r] = x]
    BY Zenon, <1>5 DEF x, e, k
  <2>2. x.chunk # <<>> <=> x.pc = "read"
    BY Zenon, <1>8
  <2>3. x.event # 0 <=> x.pc = "loading"
    BY Zenon, <1>7, <1>8
  <2> QED BY ZenonT(60), <1>8, <2>1, <2>2, <2>3, ReadersKept
<1>10. EachInOnePlace'
  <2> DEFINE G == [q \in Readers |-> InHands(q)']
  <2>1. reader' = [reader EXCEPT ![r] = x]
    BY <1>5 DEF x, e, k
  <2>2. InHands(r)' = {e} /\ \A q \in Readers : q # r => InHands(q)' = InHands(q)
    BY Zenon, <1>8, <2>1, HandsMove DEF WatchInv
  <2>3. G[r] = {e} /\ \A q \in Readers : q # r => G[q] = H[q]
    BY Zenon, <2>2
  <2>4. e \in Beyond(pending, k) \cup H[r] /\ B = Beyond(pending, k) \cup H[r]
    BY Zenon, <1>2 DEF B, k
  <2> HIDE DEF G, H
  <2>5. Parted(Range(kernel), (Beyond(pending, k) \cup H[r]) \ {e}, Returned, lost, G, emitted)
    BY Zenon, <1>6, <2>3, <2>4, PartedPop
  <2>6. Returned' = Returned
    BY Zenon DEF Returned
  <2>7. EachInOnePlace' = Parted(Range(kernel'), Beyond(pending', pending_offset'), Returned', lost', G, emitted')
    BY Zenon DEF EachInOnePlace, G, Parted
  <2> QED BY Zenon, <1>4, <2>4, <2>5, <2>6, <2>7
<1>11. WatchTypeOK'
  BY Zenon, <1>4, <1>9 DEF WatchInv, WatchTypeOK
<1>12. NoneTwice'
  BY Zenon, <1>4, <1>9 DEF WatchInv, NoneTwice
<1> QED BY Zenon, <1>9, <1>10, <1>11, <1>12 DEF WatchInv

\* The file changes or goes: m new events in the kernel's queue.
LEMMA EmitKept ==
  ASSUME WatchInv, NEW m \in Nat, Emit(m),
         disk' \in Contents \cup {Missing}, ignoredAt' \in Nat,
         UNCHANGED <<running, descriptor, snapshot, pending, pending_offset, reader, results, lost>>
  PROVE  WatchInv'
<1> DEFINE t == [i \in 1..m |-> emitted + i]
           n == Len(kernel)
           H == [q \in Readers |-> InHands(q)]
<1>1. emitted \in Nat /\ kernel \in Seq(Nat) /\ IsInjective(kernel)
  BY Zenon DEF WatchInv, WatchTypeOK, NoneTwice
<1>2. Parted(Range(kernel), Beyond(pending, pending_offset), Returned, lost, H, emitted)
  BY Zenon DEF WatchInv, EachInOnePlace
<1>3. Range(kernel) \subseteq 1..emitted
  BY Zenon, <1>2 DEF Parted
<1>4. t \in Seq(Nat) /\ Len(t) = m /\ DOMAIN t = 1..m
  BY <1>1
<1>5. Range(t) = (emitted + 1)..(emitted + m)
  <2>1. Range(t) = {emitted + i : i \in 1..m}
    BY Zenon, <1>4 DEF Range
  <2>2. \A x \in (emitted + 1)..(emitted + m) : x - emitted \in 1..m /\ emitted + (x - emitted) = x
    BY <1>1
  <2>3. \A i \in 1..m : emitted + i \in (emitted + 1)..(emitted + m)
    BY <1>1
  <2> QED BY Zenon, <2>1, <2>2, <2>3
<1>6. IsInjective(t)
  BY <1>1, <1>4 DEF IsInjective
<1>7. kernel' \in Seq(Nat) /\ Range(kernel') = Range(kernel) \cup Range(t) /\ IsInjective(kernel')
  <2> HIDE DEF t
  <2>1. Range(kernel) \cap Range(t) = {}
    <3>1. (1..emitted) \cap ((emitted + 1)..(emitted + m)) = {}
      BY <1>1
    <3> QED BY Zenon, <1>3, <1>5, <3>1
  <2>2. Beyond(kernel, 0) = Range(kernel) /\ DistinctBeyond(kernel, 0)
    BY SMTT(30), <1>1, RangeByPosition DEF Beyond, DistinctBeyond, IsInjective
  <2>3. 0 \in 0..Len(kernel)
    BY <1>1
  <2>4. /\ kernel \o t \in Seq(Nat)
        /\ Beyond(kernel \o t, 0) = Range(kernel) \cup Range(t)
        /\ DistinctBeyond(kernel \o t, 0)
    BY <1>1, <1>4, <1>6, <2>1, <2>2, <2>3, BeyondConcat
  <2>5. kernel' = kernel \o t
    BY Zenon DEF Emit, t
  <2> DEFINE k == kernel \o t
  <2> HIDE DEF k
  <2>6. k \in Seq(Nat) /\ DistinctBeyond(k, 0)
    BY Zenon, <2>4 DEF k
  <2>7. Beyond(k, 0) = Range(k) /\ IsInjective(k)
    <3>1. DOMAIN k = 1..Len(k) /\ Range(k) = {k[i] : i \in 1..Len(k)}
      BY Zenon, <2>6, RangeByPosition
    <3>2. \A i, j \in 1..Len(k) : k[i] = k[j] => i = j
      BY <2>6 DEF DistinctBeyond
    <3>3. 0 + 1 = 1
      OBVIOUS
    <3> QED BY Zenon, <3>1, <3>2, <3>3 DEF Beyond, IsInjective
  <2> QED BY Zenon, <2>4, <2>5, <2>6, <2>7 DEF k
<1>8. emitted' = emitted + m /\ emitted' \in Nat
  BY <1>1 DEF Emit
<1>9. EachInOnePlace'
  <2> DEFINE G == [q \in Readers |-> InHands(q)']
  <2>1. G = H /\ Returned' = Returned
    BY Zenon DEF InHands, Returned
  <2> HIDE DEF G, H
  <2> HIDE DEF t
  <2>2. Parted(Range(kernel'), Beyond(pending, pending_offset), Returned, lost, H, emitted')
    <3>1. Parted(Range(kernel) \cup ((emitted + 1)..(emitted + m)),
                 Beyond(pending, pending_offset), Returned, lost, H, emitted + m)
      BY Zenon, <1>1, <1>2, PartedEmit
    <3> QED BY Zenon, <1>5, <1>7, <1>8, <3>1
  <2>3. EachInOnePlace' = Parted(Range(kernel'), Beyond(pending', pending_offset'), Returned', lost', G, emitted')
    BY Zenon DEF EachInOnePlace, G, Parted
  <2> QED BY Zenon, <2>1, <2>2, <2>3
<1>10. WatchTypeOK'
  BY Zenon, <1>7, <1>8 DEF WatchInv, WatchTypeOK
<1>11. NoneTwice' /\ ReaderInv'
  BY Zenon, <1>7 DEF WatchInv, NoneTwice, ReaderInv
<1> QED BY Zenon, <1>9, <1>10, <1>11 DEF WatchInv

\* A reader reads a chunk off the descriptor.
LEMMA ReadKept ==
  ASSUME WatchInv, NEW r \in Readers, ReadChunk(r)
  PROVE  WatchInv'
<1> DEFINE H == [q \in Readers |-> InHands(q)]
<1>1. kernel \in Seq(Nat) /\ IsInjective(kernel) /\ reader \in [Readers -> ReaderType]
  BY Zenon DEF WatchInv, WatchTypeOK, NoneTwice
<1>2. PICK n \in 1..Len(kernel) :
        /\ reader' = [reader EXCEPT ![r].pc = "read", ![r].chunk = SubSeq(kernel, 1, n)]
        /\ kernel' = SubSeq(kernel, n + 1, Len(kernel))
  BY Zenon DEF ReadChunk
<1> DEFINE a == SubSeq(kernel, 1, n)
           b == SubSeq(kernel, n + 1, Len(kernel))
           x == [reader[r] EXCEPT !.pc = "read", !.chunk = a]
<1>3. /\ a \in Seq(Nat) /\ IsInjective(a) /\ Len(a) = n
      /\ b \in Seq(Nat) /\ IsInjective(b)
      /\ Range(a) \cup Range(b) = Range(kernel) /\ Range(a) \cap Range(b) = {}
  <2>1. n \in 0..Len(kernel)
    BY <1>1
  <2> QED BY SMTT(30), <1>1, <2>1, SplitDistinct
<1>4. n # 0 /\ a # <<>>
  BY <1>2, <1>3
<1>5. reader[r].pc = "reading" /\ reader[r].event = 0 /\ H[r] = {}
  BY Zenon, ReaderFacts DEF ReadChunk, WatchInv, ReaderInv
<1> HIDE DEF a, b
<1>6. /\ x \in ReaderType /\ x.pc = "read" /\ x.chunk = a /\ x.event = 0
      /\ reader' = [reader EXCEPT ![r] = x]
  BY Zenon, <1>1, <1>2, <1>3, <1>5 DEF ReaderType, a
<1> HIDE DEF x
<1>7. /\ reader' \in [Readers -> ReaderType] /\ ReaderInv'
      /\ \A q \in Readers : IsInjective(reader'[q].chunk)
  <2>1. x.chunk # <<>> <=> x.pc = "read"
    BY Zenon, <1>4, <1>6
  <2>2. x.event # 0 <=> x.pc = "loading"
    BY Zenon, <1>6
  <2> QED BY Zenon, <1>3, <1>6, <2>1, <2>2, ReadersKept
<1>8. EachInOnePlace'
  <2> DEFINE G == [q \in Readers |-> InHands(q)']
  <2>1. InHands(r)' = Range(a) /\ \A q \in Readers : q # r => InHands(q)' = InHands(q)
    <3>1. Range(x.chunk) \cup ({x.event} \ {0}) = Range(a)
      BY Zenon, <1>6
    <3> QED BY Zenon, <1>6, <3>1, HandsMove DEF WatchInv
  <2>2. G[r] = Range(a) /\ \A q \in Readers : q # r => G[q] = H[q]
    BY Zenon, <2>1
  <2>3. Parted(Range(kernel), Beyond(pending, pending_offset), Returned, lost, H, emitted)
    BY Zenon DEF WatchInv, EachInOnePlace
  <2> HIDE DEF G, H
  <2>4. Parted(Range(kernel) \ Range(a), Beyond(pending, pending_offset), Returned, lost, G, emitted)
    BY Zenon, <1>3, <1>5, <2>2, <2>3, PartedRead
  <2>5. Range(kernel') = Range(kernel) \ Range(a)
    BY Zenon, <1>2, <1>3 DEF b
  <2>6. /\ Returned' = Returned
        /\ UNCHANGED <<pending, pending_offset, lost, emitted>>
    BY SMTT(30) DEF ReadChunk, KernelSame, Returned
  <2>7. EachInOnePlace' = Parted(Range(kernel'), Beyond(pending', pending_offset'), Returned', lost', G, emitted')
    BY Zenon DEF EachInOnePlace, G, Parted
  <2> QED BY Zenon, <2>4, <2>5, <2>6, <2>7
<1>9. kernel' \in Seq(Nat) /\ IsInjective(kernel')
  BY Zenon, <1>2, <1>3 DEF b
<1>10. UNCHANGED <<running, descriptor, disk, snapshot, emitted, ignoredAt, pending, pending_offset, results, lost>>
  BY Zenon DEF ReadChunk, KernelSame
<1>11. WatchTypeOK'
  BY Zenon, <1>7, <1>9, <1>10 DEF WatchInv, WatchTypeOK
<1>12. NoneTwice'
  BY Zenon, <1>7, <1>9, <1>10 DEF WatchInv, NoneTwice
<1> QED BY Zenon, <1>7, <1>8, <1>11, <1>12 DEF WatchInv

\* A next() returns: what it had in hand was nothing, is dropped, or is the
\* event of its result.
LEMMA ReturnKept ==
  ASSUME WatchInv, NEW r \in Readers, Returns(r), KernelSame,
         UNCHANGED <<kernel, pending, pending_offset>>,
         running' \in BOOLEAN, snapshot' \in Contents \cup {Missing},
         \/ lost' = lost \cup InHands(r) /\ results' = results
         \/ /\ lost' = lost /\ reader[r].pc = "loading"
            /\ results' = Append(results, [event |-> reader[r].event, current |-> disk,
                                               previous |-> reader[r].previous])
  PROVE  WatchInv'
<1> DEFINE H == [q \in Readers |-> InHands(q)]
           G == [q \in Readers |-> InHands(q)']
<1>1. /\ reader' \in [Readers -> ReaderType] /\ ReaderInv'
      /\ \A q \in Readers : IsInjective(reader'[q].chunk)
  BY Zenon, IdleFacts, ReadersKept DEF Returns
<1>2. InHands(r)' = {} /\ \A q \in Readers : q # r => InHands(q)' = InHands(q)
  BY Zenon, IdleFacts, HandsMove DEF Returns, WatchInv
<1>3. G[r] = {} /\ H[r] = InHands(r) /\ \A q \in Readers : q # r => G[q] = H[q]
  BY Zenon, <1>2
<1>4. Parted(Range(kernel), Beyond(pending, pending_offset), Returned, lost, H, emitted)
  BY SMTT(30) DEF WatchInv, EachInOnePlace
<1>5. EachInOnePlace' = Parted(Range(kernel'), Beyond(pending', pending_offset'), Returned', lost', G, emitted')
  BY ZenonT(60) DEF EachInOnePlace, Parted
<1> HIDE DEF G, H
<1>6. /\ Parted(Range(kernel), Beyond(pending, pending_offset), Returned \cup H[r], lost, G, emitted)
      /\ Parted(Range(kernel), Beyond(pending, pending_offset), Returned, lost \cup H[r], G, emitted)
  BY Zenon, <1>3, <1>4, PartedDone
<1>7. UNCHANGED <<descriptor, disk, emitted, ignoredAt, kernel, pending, pending_offset>>
  BY Zenon DEF KernelSame
<1>8. /\ reader[r] \in ReaderType /\ reader[r].event \in Nat
      /\ reader[r].pc = "loading" => InHands(r) = {reader[r].event}
  BY SMTT(30), ReaderFacts
<1>9. CASE lost' = lost \cup InHands(r) /\ results' = results
  <2>1. InHands(r) \subseteq Nat
    <3>1. Range(reader[r].chunk) \subseteq Nat
      BY SMTT(30), ReaderFacts, RangeByPosition
    <3> QED BY SMTT(30), <1>8, <3>1 DEF InHands
  <2>2. Returned' = Returned
    BY SMTT(30), <1>9 DEF Returned
  <2>3. EachInOnePlace'
    BY Zenon, <1>3, <1>5, <1>6, <1>7, <1>9, <2>2
  <2>4. WatchTypeOK'
    BY ZenonT(60), <1>1, <1>7, <1>9, <2>1 DEF WatchInv, WatchTypeOK
  <2>5. NoneTwice'
    BY Zenon, <1>1, <1>7, <1>9 DEF WatchInv, NoneTwice
  <2> QED BY Zenon, <1>1, <2>3, <2>4, <2>5 DEF WatchInv
<1>10. CASE /\ lost' = lost /\ reader[r].pc = "loading"
            /\ results' = Append(results, [event |-> reader[r].event, current |-> disk,
                                               previous |-> reader[r].previous])
  <2> DEFINE T == [event : Nat, current : Contents \cup {Missing}, previous : Contents \cup {Missing}]
             d == [event |-> reader[r].event, current |-> disk, previous |-> reader[r].previous]
             n == Len(results)
  <2>1. d \in T /\ d.event = reader[r].event
    BY Zenon, <1>8 DEF WatchInv, WatchTypeOK, ReaderType
  <2>2. results \in Seq(T) /\ \A i, j \in DOMAIN results : results[i].event = results[j].event => i = j
    BY Zenon DEF WatchInv, WatchTypeOK, NoneTwice
  <2> HIDE DEF T, d
  <2>3. /\ results' \in Seq(T) /\ n \in Nat /\ DOMAIN results = 1..n /\ DOMAIN results' = 1..(n + 1)
        /\ \A i \in 1..n : results'[i] = results[i]
        /\ results'[n + 1] = d
    BY SMTT(30), <1>10, <2>1, <2>2 DEF d
  <2> HIDE DEF n
  <2>4. \A i \in 1..(n + 1) : i \in 1..n \/ i = n + 1
    BY <2>3
  <2>5. n + 1 \in 1..(n + 1) /\ \A i \in 1..n : i \in 1..(n + 1)
    BY <2>3
  <2>6. Returned' = Returned \cup {reader[r].event}
    BY SMTT(30), <2>1, <2>3, <2>4, <2>5 DEF Returned
  <2>7. reader[r].event \notin Returned
    BY SMTT(30), <1>3, <1>4, <1>8, <1>10 DEF Parted
  <2>8. \A i \in 1..n : results[i].event \in Returned
    BY Zenon, <2>3 DEF Returned
  <2>9. \A i, j \in DOMAIN results' : results'[i].event = results'[j].event => i = j
    BY <2>1, <2>2, <2>3, <2>4, <2>7, <2>8
  <2>10. EachInOnePlace'
    BY Zenon, <1>3, <1>5, <1>6, <1>7, <1>8, <1>10, <2>6
  <2>11. WatchTypeOK'
    BY SMTT(30), <1>1, <1>7, <1>10, <2>3 DEF WatchInv, WatchTypeOK, T
  <2>12. NoneTwice'
    BY Zenon, <1>1, <1>7, <2>9 DEF WatchInv, NoneTwice
  <2> QED BY <1>1, <2>10, <2>11, <2>12 DEF WatchInv
<1> QED BY Zenon, <1>9, <1>10

\* The first critical section of next().
LEMMA Next1Kept ==
  ASSUME WatchInv, NEW r \in Readers, Next1(r)
  PROVE  WatchInv'
<1>1. /\ reader[r].pc = "idle" /\ reader[r] \in ReaderType /\ InHands(r) = {}
      /\ reader[r].chunk = <<>> /\ reader[r].event = 0
  BY Zenon, ReaderFacts DEF Next1, WatchInv, ReaderInv
<1>2. UNCHANGED <<running, descriptor, disk, snapshot, emitted, ignoredAt, kernel, results, lost>>
  BY SMTT(30) DEF Next1, KernelSame
<1>3. CASE ~running
  <2>1. Returns(r) /\ UNCHANGED <<pending, pending_offset>> /\ KernelSame
    BY Zenon, <1>3 DEF Next1
  <2>2. lost' = lost \cup InHands(r) /\ results' = results
    BY Zenon, <1>1, <1>2
  <2>3. running' \in BOOLEAN /\ snapshot' \in Contents \cup {Missing} /\ UNCHANGED <<kernel, pending, pending_offset>>
    BY Zenon, <1>2, <2>1 DEF WatchInv, WatchTypeOK
  <2> QED BY Zenon, <2>1, <2>2, <2>3, ReturnKept
<1>4. CASE running /\ pending_offset < Len(pending)
  <2>1. Pop(r, pending)
    BY Zenon, <1>4 DEF Next1
  <2>2. pending \in Seq(Nat) /\ DistinctBeyond(pending, pending_offset)
    BY Zenon DEF WatchInv, WatchTypeOK, NoneTwice
  <2>3. Beyond(pending, pending_offset) = Beyond(pending, pending_offset) \cup InHands(r)
    BY Zenon, <1>1
  <2> QED BY Zenon, <1>2, <1>4, <2>1, <2>2, <2>3, PopKept
<1>5. CASE running /\ ~(pending_offset < Len(pending))
  <2> DEFINE x == [reader[r] EXCEPT !.pc = "reading"]
             G == [q \in Readers |-> InHands(q)']
             H == [q \in Readers |-> InHands(q)]
  <2>1. UNCHANGED <<pending, pending_offset>>
    BY Zenon, <1>5 DEF Next1
  <2>2. /\ x \in ReaderType /\ x.pc = "reading" /\ x.chunk = <<>> /\ x.event = 0
        /\ reader' = [reader EXCEPT ![r] = x]
    BY Zenon, <1>1, <1>5 DEF Next1, ReaderType
  <2> HIDE DEF x
  <2>3. IsInjective(x.chunk) /\ Range(x.chunk) = {}
    BY Zenon, <2>2, EmptyFacts
  <2>4. /\ reader' \in [Readers -> ReaderType] /\ ReaderInv'
        /\ \A q \in Readers : IsInjective(reader'[q].chunk)
    BY Zenon, <2>2, <2>3, ReadersKept
  <2>5. InHands(r)' = {} /\ \A q \in Readers : q # r => InHands(q)' = InHands(q)
    <3>1. Range(x.chunk) \cup ({x.event} \ {0}) = {}
      BY Zenon, <2>2, <2>3
    <3> QED BY Zenon, <2>2, <3>1, HandsMove DEF WatchInv
  <2>6. G = H
    BY ZenonT(60), <1>1, <2>5
  <2>7. EachInOnePlace'
    <3>1. EachInOnePlace = Parted(Range(kernel), Beyond(pending, pending_offset), Returned, lost, H, emitted)
      BY Zenon DEF EachInOnePlace
    <3>2. EachInOnePlace' = Parted(Range(kernel'), Beyond(pending', pending_offset'), Returned', lost', G, emitted')
      BY Zenon DEF EachInOnePlace, Parted
    <3>3. Returned' = Returned
      BY Zenon, <1>2 DEF Returned
    <3> HIDE DEF G, H
    <3> QED BY Zenon, <1>2, <2>1, <2>6, <3>1, <3>2, <3>3 DEF WatchInv
  <2>8. WatchTypeOK' /\ NoneTwice'
    BY Zenon, <1>2, <2>1, <2>4 DEF WatchInv, WatchTypeOK, NoneTwice
  <2> QED BY Zenon, <2>4, <2>7, <2>8 DEF WatchInv
<1> QED BY Zenon, <1>3, <1>4, <1>5 DEF WatchInv, WatchTypeOK

\* The second critical section of next().
LEMMA Next2Kept ==
  ASSUME WatchInv, NEW r \in Readers, Next2(r)
  PROVE  WatchInv'
<1> DEFINE c == reader[r].chunk
<1>1. /\ reader[r].pc = "read" /\ c \in Seq(Nat) /\ IsInjective(c) /\ c # <<>>
      /\ reader[r].event = 0 /\ InHands(r) = Range(c)
  BY ZenonT(60), ReaderFacts DEF Next2, WatchInv, ReaderInv, NoneTwice, InHands
<1>2. UNCHANGED <<running, descriptor, disk, snapshot, emitted, ignoredAt, kernel, results>>
  BY Zenon DEF Next2, KernelSame
<1>3. CASE ~running
  <2>1. /\ Returns(r) /\ UNCHANGED <<pending, pending_offset>> /\ KernelSame
        /\ lost' = lost \cup InHands(r)
    BY Zenon, <1>1, <1>3 DEF Next2
  <2>2. running' \in BOOLEAN /\ snapshot' \in Contents \cup {Missing} /\ UNCHANGED <<kernel, pending, pending_offset>>
    BY Zenon, <1>2, <2>1 DEF WatchInv, WatchTypeOK
  <2> QED BY Zenon, <1>2, <2>1, <2>2, ReturnKept
<1>4. CASE running
  <2>1. Pop(r, pending \o c) /\ lost' = lost
    BY Zenon, <1>4 DEF Next2
  <2>2. /\ pending \in Seq(Nat) /\ DistinctBeyond(pending, pending_offset)
        /\ pending_offset \in 0..Len(pending)
    BY Zenon DEF WatchInv, WatchTypeOK, NoneTwice
  <2>3. Beyond(pending, pending_offset) \cap Range(c) = {}
    <3> DEFINE H == [q \in Readers |-> InHands(q)]
    <3>1. Parted(Range(kernel), Beyond(pending, pending_offset), Returned, lost, H, emitted)
      BY Zenon DEF WatchInv, EachInOnePlace
    <3>2. H[r] = Range(c)
      BY Zenon, <1>1
    <3> HIDE DEF H, c
    <3> QED BY Zenon, <3>1, <3>2 DEF Parted
  <2> HIDE DEF c
  <2>4. /\ pending \o c \in Seq(Nat) /\ Len(pending \o c) = Len(pending) + Len(c)
        /\ Beyond(pending \o c, pending_offset) = Beyond(pending, pending_offset) \cup Range(c)
        /\ DistinctBeyond(pending \o c, pending_offset)
    BY Zenon, <1>1, <2>2, <2>3, BeyondConcat
  <2>5. pending_offset < Len(pending \o c)
    <3>1. Len(c) \in Nat /\ Len(c) # 0 /\ Len(pending) \in Nat
      BY SMTT(30), <1>1, <2>2
    <3> QED BY <2>2, <2>4, <3>1
  <2> DEFINE b == pending \o c
  <2>6. /\ b \in Seq(Nat) /\ pending_offset < Len(b) /\ DistinctBeyond(b, pending_offset)
        /\ Beyond(b, pending_offset) = Beyond(pending, pending_offset) \cup InHands(r)
        /\ Pop(r, b)
    BY Zenon, <1>1, <2>1, <2>4, <2>5
  <2> HIDE DEF b
  <2> QED BY Zenon, <1>2, <2>1, <2>6, PopKept
<1> QED BY SMTT(30), <1>3, <1>4

\* Every step keeps the invariant.
LEMMA WatchStep ==
  ASSUME WatchInv, [WatchNext]_watchVars
  PROVE  WatchInv'
<1>1. CASE FileChanges
  <2>1. disk' \in Contents \cup {Missing} /\ ignoredAt' \in Nat /\ Emit(1)
    BY Zenon, <1>1 DEF FileChanges, WatchInv, WatchTypeOK
  <2>2. UNCHANGED <<running, descriptor, snapshot, pending, pending_offset, reader, results, lost>>
    BY Zenon, <1>1 DEF FileChanges
  <2> QED BY Zenon, <2>1, <2>2, EmitKept
<1>2. CASE FileGoes
  <2>1. disk' \in Contents \cup {Missing} /\ ignoredAt' \in Nat /\ Emit(2)
    BY <1>2 DEF FileGoes, WatchInv, WatchTypeOK
  <2>2. UNCHANGED <<running, descriptor, snapshot, pending, pending_offset, reader, results, lost>>
    BY Zenon, <1>2 DEF FileGoes
  <2> QED BY Zenon, <2>1, <2>2, EmitKept
<1>3. CASE Stop \/ UNCHANGED watchVars
  <2>1. /\ UNCHANGED <<disk, snapshot, emitted, ignoredAt, kernel, pending, pending_offset, reader, results, lost>>
        /\ running' \in BOOLEAN /\ descriptor' \in BOOLEAN
    BY ZenonT(60), <1>3 DEF Stop, watchVars, WatchInv, WatchTypeOK
  <2>2. EachInOnePlace'
    <3> DEFINE G == [q \in Readers |-> InHands(q)']
               H == [q \in Readers |-> InHands(q)]
    <3>1. EachInOnePlace = Parted(Range(kernel), Beyond(pending, pending_offset), Returned, lost, H, emitted)
      BY Zenon DEF EachInOnePlace
    <3>2. EachInOnePlace' = Parted(Range(kernel'), Beyond(pending', pending_offset'), Returned', lost', G, emitted')
      BY Zenon DEF EachInOnePlace, Parted
    <3>3. Returned' = Returned /\ G = H
      BY Zenon, <2>1 DEF Returned, InHands
    <3> HIDE DEF G, H
    <3> QED BY Zenon, <2>1, <3>1, <3>2, <3>3 DEF WatchInv
  <2>3. WatchTypeOK' /\ NoneTwice' /\ ReaderInv'
    BY ZenonT(60), <2>1 DEF WatchInv, WatchTypeOK, NoneTwice, ReaderInv, DistinctBeyond
  <2> QED BY Zenon, <2>2, <2>3 DEF WatchInv
<1>4. ASSUME NEW r \in Readers, Next1(r) \/ Next2(r) \/ ReadChunk(r)
      PROVE  WatchInv'
  BY Zenon, <1>4, Next1Kept, Next2Kept, ReadKept
<1>5. ASSUME NEW r \in Readers, ReadAborted(r) \/ LoadThrows(r)
      PROVE  WatchInv'
  <2>1. lost' = lost \cup InHands(r) /\ results' = results
    BY Zenon, <1>5, ReaderFacts DEF ReadAborted, LoadThrows
  <2>2. /\ Returns(r) /\ KernelSame /\ UNCHANGED <<kernel, pending, pending_offset>>
        /\ running' \in BOOLEAN /\ snapshot' \in Contents \cup {Missing}
    BY SMTT(30), <1>5 DEF ReadAborted, LoadThrows, WatchInv, WatchTypeOK
  <2> QED BY Zenon, <2>1, <2>2, ReturnKept
<1>6. ASSUME NEW r \in Readers, Load(r)
      PROVE  WatchInv'
  <2>1. /\ lost' = lost /\ reader[r].pc = "loading"
        /\ results' = Append(results, [event |-> reader[r].event, current |-> disk,
                                            previous |-> reader[r].previous])
    BY Zenon, <1>6 DEF Load
  <2>2. /\ Returns(r) /\ KernelSame /\ UNCHANGED <<kernel, pending, pending_offset>>
        /\ running' \in BOOLEAN /\ snapshot' \in Contents \cup {Missing}
    BY Zenon, <1>6 DEF Load, WatchInv, WatchTypeOK
  <2> QED BY Zenon, <2>1, <2>2, ReturnKept
<1> QED BY Zenon, <1>1, <1>2, <1>3, <1>4, <1>5, <1>6 DEF WatchNext

\* A watcher that has just been made has no event anywhere.
LEMMA WatchInitInv == WatchInit => WatchInv
<1> SUFFICES ASSUME WatchInit PROVE WatchInv
  OBVIOUS
<1>1. /\ <<>> \in Seq(Nat) /\ Len(<<>>) = 0 /\ IsInjective(<<>>) /\ Range(<<>>) = {}
      /\ DOMAIN <<>> = {}
  BY EmptyFacts
<1>2. WatchTypeOK /\ ReaderInv
  BY <1>1, IdleFacts DEF WatchInit, WatchTypeOK, ReaderInv
<1>3. 1..0 = {} /\ 0 + 1 = 1
  OBVIOUS
<1>4. NoneTwice
  BY Zenon, <1>1, <1>3, IdleFacts DEF WatchInit, NoneTwice, DistinctBeyond
<1>5. \A r \in Readers : InHands(r) = {}
  BY Zenon, IdleFacts DEF WatchInit, InHands
<1>6. Beyond(pending, pending_offset) = {} /\ Returned = {} /\ lost = {} /\ Range(kernel) = {} /\ emitted = 0
  BY SMTT(30), <1>1, <1>3 DEF WatchInit, Beyond, Returned
<1>7. EachInOnePlace
  BY Zenon, <1>3, <1>5, <1>6 DEF EachInOnePlace, Parted
<1> QED BY Zenon, <1>2, <1>4, <1>7 DEF WatchInv

\* The places of the events, at every moment (watch.cpp:146, :190).
THEOREM WatchInvariant == WatchSpec => []WatchInv
<1>1. WatchInv /\ [WatchNext]_watchVars => WatchInv'
  BY WatchStep
<1> QED BY <1>1, WatchInitInv, PTL DEF WatchSpec

-----------------------------------------------------------------------------
\* The sizes of the empty set and of a set of one.
ZeroOrOne == Cardinality({}) = 0 /\ \A x : Cardinality({x}) = 1

\* An event occurs once in a sequence without repetition, or not at all.
LEMMA TimesInDistinct ==
  ASSUME ZeroOrOne, NEW s \in Seq(Nat), IsInjective(s), NEW e
  PROVE  Times(e, s) = IF e \in Range(s) THEN 1 ELSE 0
<1> DEFINE I == {i \in DOMAIN s : s[i] = e}
<1>1. CASE e \in Range(s)
  <2>1. PICK i \in DOMAIN s : s[i] = e
    BY Zenon, <1>1 DEF Range
  <2>2. I = {i}
    BY Zenon, <2>1 DEF IsInjective
  <2> QED BY Zenon, <1>1, <2>2 DEF Times, ZeroOrOne
<1>2. CASE e \notin Range(s)
  <2>1. I = {}
    BY Zenon, <1>2 DEF Range
  <2> QED BY Zenon, <1>2, <2>1 DEF Times, ZeroOrOne
<1> QED BY Zenon, <1>1, <1>2

\* What is unread of the buffer, as a sequence.
LEMMA UnreadFacts ==
  ASSUME WatchInv
  PROVE  Unread \in Seq(Nat) /\ IsInjective(Unread) /\ Range(Unread) = Beyond(pending, pending_offset)
<1> DEFINE k == pending_offset
           n == Len(pending)
           u == SubSeq(pending, k + 1, n)
<1>1. pending \in Seq(Nat) /\ n \in Nat /\ k \in Nat /\ k <= n
  BY DEF WatchInv, WatchTypeOK
<1>2. DistinctBeyond(pending, k)
  BY Zenon DEF WatchInv, NoneTwice
<1>3. u \in Seq(Nat) /\ Len(u) = n - k /\ \A i \in 1..(n - k) : u[i] = pending[k + i]
  <2>1. \A i \in 1..n : pending[i] \in Nat
    BY <1>1
  <2>2. u \in Seq(Nat)
    BY <1>1, <2>1
  <2>3. Len(u) = n - k
    BY <1>1
  <2>4. \A i \in 1..(n - k) : u[i] = pending[k + i]
    BY SMTT(30), <1>1
  <2> QED BY Zenon, <2>2, <2>3, <2>4
<1> HIDE DEF u
<1>4. DOMAIN u = 1..(n - k) /\ Range(u) = {u[i] : i \in 1..(n - k)}
  BY Zenon, <1>3, RangeByPosition
<1>5. \A i \in 1..(n - k) : k + i \in (k + 1)..n
  BY <1>1
<1>6. \A j \in (k + 1)..n : j - k \in 1..(n - k) /\ k + (j - k) = j
  BY <1>1
<1>7. \A i, j \in 1..(n - k) : k + i = k + j => i = j
  BY <1>1
<1>8. IsInjective(u)
  BY SMTT(30), <1>2, <1>3, <1>4, <1>5, <1>7 DEF DistinctBeyond, IsInjective
<1>9. Range(u) = Beyond(pending, k)
  BY <1>3, <1>4, <1>5, <1>6 DEF Beyond
<1> QED BY Zenon, <1>3, <1>8, <1>9 DEF Unread, u

\* Each place counts an event once or not at all, and one place does.
LEMMA EventsOnceFollows ==
  ASSUME ZeroOrOne, WatchInv
  PROVE  EventsOnce
<1> SUFFICES ASSUME NEW e \in 1..emitted
             PROVE  1 = Times(e, kernel) + Times(e, Unread)
                        + Cardinality({i \in DOMAIN results : results[i].event = e})
                        + Cardinality({r \in Readers : reader[r].event = e \/ e \in Range(reader[r].chunk)})
                        + (IF e \in lost THEN 1 ELSE 0)
  BY Zenon DEF EventsOnce
<1> DEFINE K == Range(kernel)
           U == Beyond(pending, pending_offset)
           H == [q \in Readers |-> InHands(q)]
           D == {i \in DOMAIN results : results[i].event = e}
           R == {r \in Readers : reader[r].event = e \/ e \in Range(reader[r].chunk)}
<1>1. e # 0
  BY DEF WatchInv, WatchTypeOK
<1>2. Parted(K, U, Returned, lost, H, emitted)
  BY Zenon DEF WatchInv, EachInOnePlace
<1>3. Times(e, kernel) = IF e \in K THEN 1 ELSE 0
  BY Zenon, TimesInDistinct DEF WatchInv, WatchTypeOK, NoneTwice
<1>4. Times(e, Unread) = IF e \in U THEN 1 ELSE 0
  BY Zenon, TimesInDistinct, UnreadFacts
<1>5. Cardinality(D) = IF e \in Returned THEN 1 ELSE 0
  <2>1. CASE e \in Returned
    <3>1. PICK i \in DOMAIN results : results[i].event = e
      BY Zenon, <2>1 DEF Returned
    <3>2. \A j \in DOMAIN results : results[j].event = e => j = i
      BY Zenon, <3>1 DEF WatchInv, NoneTwice
    <3>3. D = {i}
      BY Zenon, <3>1, <3>2
    <3> QED BY Zenon, <2>1, <3>3 DEF ZeroOrOne
  <2>2. CASE e \notin Returned
    <3>1. D = {}
      BY Zenon, <2>2 DEF Returned
    <3> QED BY Zenon, <2>2, <3>1 DEF ZeroOrOne
  <2> QED BY Zenon, <2>1, <2>2
<1>6. R = {r \in Readers : e \in H[r]}
  BY Zenon, <1>1 DEF InHands
<1> HIDE DEF K, U, H, D, R
<1>7. CASE \E r \in Readers : e \in H[r]
  <2>1. PICK r \in Readers : e \in H[r]
    BY Zenon, <1>7
  <2>2. R = {r} /\ e \notin K /\ e \notin U /\ e \notin Returned /\ e \notin lost
    BY Zenon, <1>2, <1>6, <2>1 DEF Parted
  <2>3. Cardinality(R) = 1
    BY Zenon, <2>2 DEF ZeroOrOne
  <2> QED BY <1>3, <1>4, <1>5, <2>2, <2>3 DEF D, R
<1>8. CASE ~ \E r \in Readers : e \in H[r]
  <2>1. R = {}
    BY Zenon, <1>6, <1>8
  <2>2. Cardinality(R) = 0
    BY Zenon, <2>1 DEF ZeroOrOne
  <2>3. /\ e \in K \cup U \cup Returned \cup lost
        /\ K \cap (U \cup Returned \cup lost) = {} /\ U \cap (Returned \cup lost) = {} /\ Returned \cap lost = {}
    BY Zenon, <1>2, <1>8 DEF Parted
  <2>4. CASE e \in K
    <3>1. e \notin U /\ e \notin Returned /\ e \notin lost
      BY Zenon, <2>3, <2>4
    <3> QED BY <1>3, <1>4, <1>5, <2>2, <2>4, <3>1 DEF D, R
  <2>5. CASE e \in U
    <3>1. e \notin K /\ e \notin Returned /\ e \notin lost
      BY Zenon, <2>3, <2>5
    <3> QED BY <1>3, <1>4, <1>5, <2>2, <2>5, <3>1 DEF D, R
  <2>6. CASE e \in Returned
    <3>1. e \notin K /\ e \notin U /\ e \notin lost
      BY Zenon, <2>3, <2>6
    <3> QED BY <1>3, <1>4, <1>5, <2>2, <2>6, <3>1 DEF D, R
  <2>7. CASE e \in lost
    <3>1. e \notin K /\ e \notin U /\ e \notin Returned
      BY Zenon, <2>3, <2>7
    <3> QED BY <1>3, <1>4, <1>5, <2>2, <2>7, <3>1 DEF D, R
  <2> QED BY Zenon, <2>3, <2>4, <2>5, <2>6, <2>7
<1> QED BY Zenon, <1>7, <1>8

\* The sizes of the empty set and of a set of one, said with Count.
LEMMA ZeroOrOneFollows == Count({}) = 0 /\ (\A x : Count({x}) = 1) => ZeroOrOne
BY Zenon DEF ZeroOrOne, Count

-----------------------------------------------------------------------------
LOCAL INSTANCE FiniteSetTheorems

\* The copies of IsFiniteSet and Cardinality that the library comes with are the
\* ones of SequenceLemmas.
LEMMA CountsAgree == \A S : (Finite(S) <=> IsFiniteSet(S)) /\ Count(S) = Cardinality(S)
<1>1. \A S : Finite(S) <=> IsFiniteSet(S)
  BY Zenon, CountsByDefinition DEF IsFiniteSet
<1>2. \A S : Count(S) = Cardinality(S)
  BY Zenon, CountsByDefinition DEF Cardinality
<1> QED BY Zenon, <1>1, <1>2

\* The empty set has no element and a singleton has one.
LEMMA ZeroOrOneHolds == ZeroOrOne
<1>1. Count({}) = 0 /\ \A x : Count({x}) = 1
  BY ZenonT(60), CountsAgree, FS_EmptySet, FS_Singleton
<1> QED BY Zenon, <1>1, ZeroOrOneFollows

\* EventsOnce, for every set of coroutines that call next(), every number of
\* events and every size at which the buffer is moved down: no event is skipped
\* and none is returned twice (watch.cpp:146, :274).
THEOREM NoEventTwice == WatchSpec => []EventsOnce
<1>1. WatchInv => EventsOnce
  BY Zenon, ZeroOrOneHolds, EventsOnceFollows
<1> QED BY <1>1, WatchInvariant, PTL
=============================================================================
