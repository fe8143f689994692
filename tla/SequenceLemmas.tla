--------------------------- MODULE SequenceLemmas ---------------------------
(***************************************************************************)
(* Facts about sequences without repetition, as the proofs about the       *)
(* semaphore's waiter queue and the pools' deque of indices use them: what *)
(* appending, removing, splitting and taking the tail do to the set of     *)
(* elements, and that a split of length k has k elements.                  *)
(***************************************************************************)
EXTENDS Integers, Sequences, FiniteSets, Functions, TLAPS

\* The elements of a sequence by position.
LEMMA RangeByPosition ==
  ASSUME NEW S, NEW s \in Seq(S)
  PROVE  /\ DOMAIN s = 1..Len(s)
         /\ Len(s) \in Nat
         /\ Range(s) = {s[i] : i \in 1..Len(s)}
         /\ Range(s) \subseteq S
BY DEF Range

\* The empty sequence, as left behind by close().
LEMMA EmptyFacts ==
  ASSUME NEW S
  PROVE  /\ <<>> \in Seq(S)
         /\ IsInjective(<<>>)
         /\ Range(<<>>) = {}
BY DEF Range, IsInjective

\* Appending a new element, as enqueue_waiter_locked and release_index do.
LEMMA AppendDistinct ==
  ASSUME NEW S, NEW s \in Seq(S), IsInjective(s), NEW e \in S, e \notin Range(s)
  PROVE  /\ Append(s, e) \in Seq(S)
         /\ IsInjective(Append(s, e))
         /\ Range(Append(s, e)) = Range(s) \cup {e}
         /\ Len(Append(s, e)) = Len(s) + 1
<1> DEFINE a == Append(s, e)
<1>1. /\ a \in Seq(S)
      /\ Len(a) = Len(s) + 1
      /\ \A i \in 1..Len(s) : a[i] = s[i]
      /\ a[Len(s) + 1] = e
  OBVIOUS
<1>2. /\ DOMAIN s = 1..Len(s) /\ Len(s) \in Nat /\ DOMAIN a = 1..(Len(s) + 1)
      /\ Range(s) = {s[i] : i \in 1..Len(s)}
      /\ Range(a) = {a[i] : i \in 1..(Len(s) + 1)}
  BY Zenon, <1>1, RangeByPosition
<1> HIDE DEF a
<1>3. Range(a) = Range(s) \cup {e}
  BY <1>1, <1>2
<1>4. IsInjective(a)
  BY <1>1, <1>2 DEF IsInjective
<1> QED
  BY Zenon, <1>1, <1>3, <1>4 DEF a

\* The elements of a concatenation by position.
LEMMA ConcatByPosition ==
  ASSUME NEW S, NEW s \in Seq(S), NEW t \in Seq(S)
  PROVE  /\ s \o t \in Seq(S) /\ Len(s \o t) = Len(s) + Len(t)
         /\ \A i \in 1..(Len(s) + Len(t)) :
              (s \o t)[i] = IF i <= Len(s) THEN s[i] ELSE t[i - Len(s)]
OBVIOUS

\* Unlinking the element at a position, as remove_waiter_locked does.
LEMMA UnlinkDistinct ==
  ASSUME NEW S, NEW s \in Seq(S), IsInjective(s), NEW k \in DOMAIN s
  PROVE  LET c == SubSeq(s, 1, k - 1) \o SubSeq(s, k + 1, Len(s))
         IN  /\ c \in Seq(S)
             /\ IsInjective(c)
             /\ Range(c) = Range(s) \ {s[k]}
<1> DEFINE a == SubSeq(s, 1, k - 1)
           b == SubSeq(s, k + 1, Len(s))
           c == a \o b
<1>0. /\ Len(s) \in Nat /\ DOMAIN s = 1..Len(s) /\ k \in 1..Len(s)
      /\ \A i \in 1..Len(s) : s[i] \in S
  BY RangeByPosition
<1>1. /\ a \in Seq(S) /\ Len(a) = k - 1
      /\ \A i \in 1..(k - 1) : a[i] = s[i]
  <2>1. \A i \in 1..(k - 1) : s[i] \in S
    BY <1>0
  <2>2. 1 \in Int /\ k - 1 \in Int
    BY <1>0
  <2>3. /\ a \in Seq(S)
        /\ Len(a) = IF 1 <= k - 1 THEN (k - 1) - 1 + 1 ELSE 0
        /\ \A i \in 1..((k - 1) - 1 + 1) : a[i] = s[1 + i - 1]
    BY <2>1, <2>2
  <2> HIDE DEF a
  <2> QED BY <2>3, <1>0
<1>2. /\ b \in Seq(S) /\ Len(b) = Len(s) - k
      /\ \A i \in 1..(Len(s) - k) : b[i] = s[k + i]
  <2>1. \A i \in (k + 1)..Len(s) : s[i] \in S
    BY <1>0
  <2>2. k + 1 \in Int /\ Len(s) \in Int
    BY <1>0
  <2>3. /\ b \in Seq(S)
        /\ Len(b) = IF k + 1 <= Len(s) THEN Len(s) - (k + 1) + 1 ELSE 0
        /\ \A i \in 1..(Len(s) - (k + 1) + 1) : b[i] = s[(k + 1) + i - 1]
    BY <2>1, <2>2
  <2> HIDE DEF a, b, c
  <2>4. Len(b) = Len(s) - k
    <3>1. CASE k + 1 <= Len(s)
      BY <3>1, <2>3, <1>0
    <3>2. CASE ~(k + 1 <= Len(s))
      <4>1. k = Len(s)
        BY <3>2, <1>0
      <4> QED BY <4>1, <3>2, <2>3, <1>0
    <3> QED BY Zenon, <3>1, <3>2
  <2>5. ASSUME NEW i \in 1..(Len(s) - k) PROVE b[i] = s[k + i]
    <3>1. i \in 1..(Len(s) - (k + 1) + 1) /\ (k + 1) + i - 1 = k + i
      BY <1>0
    <3>2. b[i] = s[(k + 1) + i - 1]
      BY Zenon, <3>1, <2>3
    <3> QED BY Zenon, <3>1, <3>2
  <2> QED BY Zenon, <2>3, <2>4, <2>5
<1>3. /\ c \in Seq(S) /\ Len(c) = Len(a) + Len(b)
      /\ \A i \in 1..(Len(a) + Len(b)) : c[i] = IF i <= Len(a) THEN a[i] ELSE b[i - Len(a)]
  <2> HIDE DEF a, b
  <2> QED BY Zenon, <1>1, <1>2, ConcatByPosition
<1> HIDE DEF a, b, c
<1>4. /\ Len(c) = Len(s) - 1
      /\ \A i \in 1..(Len(s) - 1) : c[i] = IF i < k THEN s[i] ELSE s[i + 1]
  <2>1. Len(c) = Len(s) - 1
    BY SMTT(30), <1>0, <1>1, <1>2, <1>3
  <2>2. ASSUME NEW i \in 1..(Len(s) - 1) PROVE c[i] = IF i < k THEN s[i] ELSE s[i + 1]
    <3>1. CASE i < k
      BY SMTT(30), <3>1, <1>0, <1>1, <1>2, <1>3
    <3>2. CASE i >= k
      <4>1. i - (k - 1) \in 1..(Len(s) - k) /\ k + (i - (k - 1)) = i + 1
        BY <3>2, <1>0
      <4>2. c[i] = b[i - (k - 1)]
        BY SMTT(30), <3>2, <1>0, <1>1, <1>2, <1>3
      <4>3. b[i - (k - 1)] = s[k + (i - (k - 1))]
        BY Zenon, <4>1, <1>2
      <4> QED BY <4>1, <4>2, <4>3, <3>2, <1>0
    <3> QED BY <3>1, <3>2, <1>0
  <2> QED BY Zenon, <2>1, <2>2
<1>5. /\ DOMAIN c = 1..(Len(s) - 1)
      /\ Range(c) = {c[i] : i \in 1..(Len(s) - 1)}
      /\ Range(s) = {s[i] : i \in 1..Len(s)}
  BY Zenon, <1>3, <1>4, RangeByPosition
<1>6. IsInjective(c)
  <2> SUFFICES ASSUME NEW i \in 1..(Len(s) - 1), NEW j \in 1..(Len(s) - 1), c[i] = c[j]
               PROVE  i = j
    BY Zenon, <1>5 DEF IsInjective
  <2> DEFINE x == IF i < k THEN i ELSE i + 1
             y == IF j < k THEN j ELSE j + 1
  <2>1. x \in 1..Len(s) /\ y \in 1..Len(s) /\ c[i] = s[x] /\ c[j] = s[y]
    BY <1>0, <1>4
  <2>2. x = y
    BY Zenon, <2>1, <1>0 DEF IsInjective
  <2> QED BY <2>2, <1>0
<1>7. Range(c) = Range(s) \ {s[k]}
  <2>1. ASSUME NEW e \in Range(c) PROVE e \in Range(s) \ {s[k]}
    <3>1. PICK i \in 1..(Len(s) - 1) : e = c[i]
      BY Zenon, <1>5
    <3> DEFINE x == IF i < k THEN i ELSE i + 1
    <3>2. x \in 1..Len(s) /\ x # k /\ e = s[x]
      BY <3>1, <1>0, <1>4
    <3> QED BY Zenon, <3>2, <1>0, <1>5 DEF IsInjective
  <2>2. ASSUME NEW e \in Range(s) \ {s[k]} PROVE e \in Range(c)
    <3>1. PICK x \in 1..Len(s) : e = s[x] /\ x # k
      BY Zenon, <1>5
    <3> DEFINE i == IF x < k THEN x ELSE x - 1
    <3>2. i \in 1..(Len(s) - 1) /\ c[i] = s[x]
      BY <3>1, <1>0, <1>4
    <3> QED BY Zenon, <3>1, <3>2, <1>5
  <2> QED BY Zenon, <2>1, <2>2
<1> QED BY Zenon, <1>3, <1>6, <1>7 DEF c, b, a

\* Splitting after k elements, as release(n) does when it pops k waiters.
LEMMA SplitDistinct ==
  ASSUME NEW S, NEW s \in Seq(S), IsInjective(s), NEW k \in 0..Len(s)
  PROVE  LET a == SubSeq(s, 1, k)
             b == SubSeq(s, k + 1, Len(s))
         IN  /\ a \in Seq(S) /\ IsInjective(a) /\ Len(a) = k
             /\ b \in Seq(S) /\ IsInjective(b) /\ Len(b) = Len(s) - k
             /\ Range(a) \cup Range(b) = Range(s)
             /\ Range(a) \cap Range(b) = {}
             /\ Range(a) = {s[i] : i \in 1..k}
<1> DEFINE a == SubSeq(s, 1, k)
           b == SubSeq(s, k + 1, Len(s))
<1>0. /\ Len(s) \in Nat /\ DOMAIN s = 1..Len(s) /\ k \in Nat /\ k <= Len(s)
      /\ \A i \in 1..Len(s) : s[i] \in S
      /\ Range(s) = {s[i] : i \in 1..Len(s)}
  BY RangeByPosition
<1>1. /\ a \in Seq(S) /\ Len(a) = k
      /\ \A i \in 1..k : a[i] = s[i]
  <2>1. /\ a \in Seq(S)
        /\ Len(a) = IF 1 <= k THEN k - 1 + 1 ELSE 0
        /\ \A i \in 1..(k - 1 + 1) : a[i] = s[1 + i - 1]
    <3>1. (\A i \in 1..k : s[i] \in S) /\ 1 \in Int /\ k \in Int
      BY <1>0
    <3> QED BY <3>1
  <2> HIDE DEF a
  <2> QED BY <2>1, <1>0
<1>2. /\ b \in Seq(S) /\ Len(b) = Len(s) - k
      /\ \A i \in 1..(Len(s) - k) : b[i] = s[k + i]
  <2>1. /\ b \in Seq(S)
        /\ Len(b) = IF k + 1 <= Len(s) THEN Len(s) - (k + 1) + 1 ELSE 0
        /\ \A i \in 1..(Len(s) - (k + 1) + 1) : b[i] = s[(k + 1) + i - 1]
    <3>1. (\A i \in (k + 1)..Len(s) : s[i] \in S) /\ k + 1 \in Int /\ Len(s) \in Int
      BY <1>0
    <3> QED BY <3>1
  <2> HIDE DEF a, b
  <2>2. Len(b) = Len(s) - k
    <3>1. CASE k + 1 <= Len(s)
      BY <3>1, <2>1, <1>0
    <3>2. CASE ~(k + 1 <= Len(s))
      <4>1. k = Len(s)
        BY <3>2, <1>0
      <4> QED BY <4>1, <3>2, <2>1, <1>0
    <3> QED BY Zenon, <3>1, <3>2
  <2>3. ASSUME NEW i \in 1..(Len(s) - k) PROVE b[i] = s[k + i]
    <3>1. i \in 1..(Len(s) - (k + 1) + 1) /\ (k + 1) + i - 1 = k + i
      BY <1>0
    <3>2. b[i] = s[(k + 1) + i - 1]
      BY Zenon, <3>1, <2>1
    <3> QED BY Zenon, <3>1, <3>2
  <2> QED BY Zenon, <2>1, <2>2, <2>3
<1> HIDE DEF a, b
<1>3. /\ DOMAIN a = 1..k /\ Range(a) = {a[i] : i \in 1..k}
      /\ DOMAIN b = 1..(Len(s) - k) /\ Range(b) = {b[i] : i \in 1..(Len(s) - k)}
  BY Zenon, <1>1, <1>2, RangeByPosition
<1>4. IsInjective(a)
  BY <1>0, <1>1, <1>3 DEF IsInjective
<1>5. IsInjective(b)
  <2> SUFFICES ASSUME NEW i \in 1..(Len(s) - k), NEW j \in 1..(Len(s) - k), b[i] = b[j]
               PROVE  i = j
    BY Zenon, <1>3 DEF IsInjective
  <2>1. k + i \in 1..Len(s) /\ k + j \in 1..Len(s) /\ s[k + i] = s[k + j]
    BY <1>0, <1>2
  <2>2. k + i = k + j
    BY Zenon, <2>1, <1>0 DEF IsInjective
  <2> QED BY <2>2, <1>0
<1>6. Range(a) = {s[i] : i \in 1..k}
  BY Zenon, <1>1, <1>3
<1>7. Range(a) \cup Range(b) = Range(s)
  <2>1. ASSUME NEW e \in Range(b) PROVE e \in Range(s)
    <3>1. PICK i \in 1..(Len(s) - k) : e = b[i]
      BY Zenon, <1>3
    <3>2. k + i \in 1..Len(s) /\ e = s[k + i]
      BY <3>1, <1>0, <1>2
    <3> QED BY Zenon, <3>2, <1>0
  <2>2. ASSUME NEW e \in Range(a) PROVE e \in Range(s)
    BY <1>0, <1>6
  <2>3. ASSUME NEW e \in Range(s), e \notin Range(a) PROVE e \in Range(b)
    <3>1. PICK x \in 1..Len(s) : e = s[x]
      BY Zenon, <1>0
    <3>2. x - k \in 1..(Len(s) - k) /\ k + (x - k) = x
      BY <3>1, <2>3, <1>0, <1>6
    <3> QED BY Zenon, <3>1, <3>2, <1>2, <1>3
  <2> QED BY Zenon, <2>1, <2>2, <2>3
<1>8. Range(a) \cap Range(b) = {}
  <2> SUFFICES ASSUME NEW e \in Range(a), e \in Range(b) PROVE FALSE
    BY Zenon
  <2>1. PICK i \in 1..k : e = s[i]
    BY Zenon, <1>6
  <2>2. PICK j \in 1..(Len(s) - k) : e = b[j]
    BY Zenon, <1>3
  <2>3. k + j \in 1..Len(s) /\ i \in 1..Len(s) /\ s[k + j] = s[i] /\ k + j # i
    BY <2>1, <2>2, <1>0, <1>2
  <2> QED BY Zenon, <2>3, <1>0 DEF IsInjective
<1> QED BY Zenon, <1>1, <1>2, <1>4, <1>5, <1>6, <1>7, <1>8 DEF a, b

\* Taking the first element off, as take_index does.
LEMMA TailDistinct ==
  ASSUME NEW S, NEW s \in Seq(S), IsInjective(s), s # <<>>
  PROVE  /\ Head(s) \in S /\ Head(s) \in Range(s)
         /\ Tail(s) \in Seq(S) /\ IsInjective(Tail(s))
         /\ Len(Tail(s)) = Len(s) - 1 /\ Len(s) > 0
         /\ Range(Tail(s)) = Range(s) \ {Head(s)}
<1> DEFINE t == Tail(s)
<1>0. /\ Len(s) \in Nat /\ Len(s) > 0 /\ DOMAIN s = 1..Len(s)
      /\ \A i \in 1..Len(s) : s[i] \in S
      /\ Range(s) = {s[i] : i \in 1..Len(s)}
  BY RangeByPosition
<1>1. /\ Head(s) = s[1] /\ t \in Seq(S) /\ Len(t) = Len(s) - 1
      /\ \A i \in 1..(Len(s) - 1) : t[i] = s[i + 1]
  BY <1>0
<1> HIDE DEF t
<1>2. DOMAIN t = 1..(Len(s) - 1) /\ Range(t) = {t[i] : i \in 1..(Len(s) - 1)}
  BY Zenon, <1>1, RangeByPosition
<1>3. IsInjective(t)
  <2> SUFFICES ASSUME NEW i \in 1..(Len(s) - 1), NEW j \in 1..(Len(s) - 1), t[i] = t[j]
               PROVE  i = j
    BY Zenon, <1>2 DEF IsInjective
  <2>1. i + 1 \in 1..Len(s) /\ j + 1 \in 1..Len(s) /\ s[i + 1] = s[j + 1]
    BY <1>0, <1>1
  <2>2. i + 1 = j + 1
    BY Zenon, <2>1, <1>0 DEF IsInjective
  <2> QED BY <2>2, <1>0
<1>4. Range(t) = Range(s) \ {Head(s)}
  <2>1. ASSUME NEW e \in Range(t) PROVE e \in Range(s) \ {Head(s)}
    <3>1. PICK i \in 1..(Len(s) - 1) : e = t[i]
      BY Zenon, <1>2
    <3>2. i + 1 \in 1..Len(s) /\ 1 \in 1..Len(s) /\ e = s[i + 1] /\ i + 1 # 1
      BY <3>1, <1>0, <1>1
    <3> QED BY Zenon, <3>2, <1>0, <1>1 DEF IsInjective
  <2>2. ASSUME NEW e \in Range(s) \ {Head(s)} PROVE e \in Range(t)
    <3>1. PICK x \in 1..Len(s) : e = s[x] /\ x # 1
      BY Zenon, <1>0, <1>1
    <3>2. x - 1 \in 1..(Len(s) - 1) /\ (x - 1) + 1 = x
      BY <3>1, <1>0
    <3> QED BY Zenon, <3>1, <3>2, <1>1, <1>2
  <2> QED BY Zenon, <2>1, <2>2
<1>5. Head(s) \in S /\ Head(s) \in Range(s)
  BY <1>0, <1>1
<1> QED BY Zenon, <1>0, <1>1, <1>3, <1>4, <1>5 DEF t

-----------------------------------------------------------------------------
(***************************************************************************)
(* The facts about finite sets that the proofs of other modules take as a  *)
(* hypothesis, CountFacts, until their theorems discharge it: the library  *)
(* of theorems they follow from is brought in only there, since every      *)
(* obligation that can see it takes the prover twice as long.              *)
(***************************************************************************)
EmptyCount == IsFiniteSet({}) /\ Cardinality({}) = 0

NatCount == \A S : IsFiniteSet(S) => Cardinality(S) \in Nat

AddCount ==
  \A S, x : IsFiniteSet(S) /\ x \notin S =>
              IsFiniteSet(S \cup {x}) /\ Cardinality(S \cup {x}) = Cardinality(S) + 1

RemoveCount ==
  \A S, x : IsFiniteSet(S) /\ x \in S =>
              IsFiniteSet(S \ {x}) /\ Cardinality(S \ {x}) = Cardinality(S) - 1

SubsetCount ==
  \A S, T : IsFiniteSet(S) /\ T \subseteq S =>
              IsFiniteSet(T) /\ Cardinality(T) <= Cardinality(S)

UnionCount ==
  \A S, T : IsFiniteSet(S) /\ IsFiniteSet(T) /\ S \cap T = {} =>
              /\ IsFiniteSet(S \cup T)
              /\ Cardinality(S \cup T) = Cardinality(S) + Cardinality(T)

RangeCount ==
  \A S : \A s \in Seq(S) : IsInjective(s) =>
           IsFiniteSet(Range(s)) /\ Cardinality(Range(s)) = Len(s)

CountFacts == EmptyCount /\ NatCount /\ AddCount /\ RemoveCount /\ SubsetCount /\ UnionCount

\* What the library of theorems has to be told: it comes with copies of
\* IsFiniteSet and Cardinality, which have the same definitions.
Finite(S) == IsFiniteSet(S)
Count(S) == Cardinality(S)

\* The definitions of the two, spelt out.
LEMMA CountsByDefinition ==
  /\ \A S : Finite(S) <=> \E q \in Seq(S) : \A x \in S : \E n \in 1..Len(q) : q[n] = x
  /\ \A S : Count(S) = LET C[T \in SUBSET S] ==
                             IF T = {} THEN 0 ELSE 1 + C[T \ {CHOOSE x : x \in T}]
                       IN  C[S]
BY Zenon DEF Finite, Count, IsFiniteSet, Cardinality

\* CountFacts, said with the two.
LEMMA CountFactsFollow ==
  ASSUME Finite({}) /\ Count({}) = 0,
         \A S : Finite(S) => Count(S) \in Nat,
         \A S, x : Finite(S) /\ x \notin S =>
                     Finite(S \cup {x}) /\ Count(S \cup {x}) = Count(S) + 1,
         \A S, x : Finite(S) /\ x \in S => Finite(S \ {x}) /\ Count(S \ {x}) = Count(S) - 1,
         \A S, T : Finite(S) /\ T \subseteq S => Finite(T) /\ Count(T) <= Count(S),
         \A S, T : Finite(S) /\ Finite(T) =>
                     /\ Finite(S \cup T)
                     /\ Count(S \cup T) = Count(S) + Count(T) - Count(S \cap T)
  PROVE  CountFacts
<1>1. EmptyCount /\ NatCount
  BY Zenon DEF EmptyCount, NatCount, Finite, Count
<1>2. AddCount /\ RemoveCount
  BY Zenon DEF AddCount, RemoveCount, Finite, Count
<1>3. SubsetCount
  BY Zenon DEF SubsetCount, Finite, Count
<1>4. UnionCount
  <2>1. ASSUME NEW S, NEW T, Finite(S), Finite(T), S \cap T = {}
        PROVE  Finite(S \cup T) /\ Count(S \cup T) = Count(S) + Count(T)
    <3>1. Count(S) \in Nat /\ Count(T) \in Nat /\ Count(S \cap T) = 0
      BY Zenon, <2>1
    <3>2. Finite(S \cup T) /\ Count(S \cup T) = Count(S) + Count(T) - Count(S \cap T)
      BY Zenon, <2>1
    <3> QED BY <3>1, <3>2
  <2> QED BY Zenon, <2>1 DEF UnionCount, Finite, Count
<1> QED BY Zenon, <1>1, <1>2, <1>3, <1>4 DEF CountFacts

\* A set whose elements can be numbered from 1 to n has n of them.
NumberedCount ==
  \A n \in Nat : \A s, R : /\ R = {s[i] : i \in 1..n}
                           /\ \A i, j \in 1..n : s[i] = s[j] => i = j
                           => Finite(R) /\ Count(R) = n

\* An injective list numbers the elements of its range.
LEMMA ListNumbers == NumberedCount => RangeCount
<1> SUFFICES ASSUME NumberedCount, NEW S, NEW s \in Seq(S), IsInjective(s)
             PROVE  Finite(Range(s)) /\ Count(Range(s)) = Len(s)
  BY Zenon DEF RangeCount, Finite, Count
<1>1. /\ Len(s) \in Nat /\ Range(s) = {s[i] : i \in 1..Len(s)}
      /\ \A i, j \in 1..Len(s) : s[i] = s[j] => i = j
  BY RangeByPosition DEF IsInjective
<1> QED BY Zenon, <1>1 DEF NumberedCount
=============================================================================
