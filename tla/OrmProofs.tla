----------------------------- MODULE OrmProofs ------------------------------
(***************************************************************************)
(* Mapper::tx, proved for any connections, drivers, options, depth of      *)
(* nesting and number of faults and writes: a boundary in which a joined   *)
(* call failed is never committed as a success.  The argument is about the *)
(* stack of calls and the stacks of frames under it, Sound(cs, fs, P, R,   *)
(* w): the lemmas up to SoundMore say what a push, a pop, a mark, a body   *)
(* that starts or ends and a write that is answered do to it; the lemmas   *)
(* named ...Kept say which of these each action of OrmTx is.               *)
(***************************************************************************)
EXTENDS OrmTx, TLAPS

\* The top of the stack goes to another stage.
LEMMA StackTop ==
  ASSUME NEW cs \in Seq(CallType), StackOf(cs), Len(cs) > 0, NEW k \in CallType,
         k.kind = cs[Len(cs)].kind, k.c = cs[Len(cs)].c, k.stage \in StagesOf(k.kind),
         k.kind = "iso" => k.stage # "inner"
  PROVE  StackOf([cs EXCEPT ![Len(cs)] = k])
<1> DEFINE d == Len(cs)
           ds == [cs EXCEPT ![d] = k]
<1>1. /\ d \in Nat /\ Len(ds) = d /\ d \in 1..d
      /\ \A i \in 1..d : ds[i] = IF i = d THEN k ELSE cs[i]
  OBVIOUS
<1>2. \A i \in 1..d : ds[i].kind = cs[i].kind /\ ds[i].c = cs[i].c
  BY Zenon, <1>1
<1>3. \A i \in 1..d : i > 1 => i - 1 \in 1..d
  BY <1>1
<1> HIDE DEF d, ds
<1>4. \A i \in 1..d : Fits(ds[i], i > 1, ds[i - 1]) = Fits(cs[i], i > 1, cs[i - 1])
  BY Zenon, <1>2, <1>3 DEF Fits
<1>5. \A i \in 1..d : /\ ds[i].stage \in StagesOf(ds[i].kind)
                      /\ ds[i].kind = "iso" => (ds[i].stage = "inner" <=> i < d)
                      /\ i < d => ds[i].stage \in {"body", "inner"}
  BY <1>1, <1>2 DEF StackOf, d
<1>6. \A i, j \in 1..d : i < j /\ ds[i].c = Isolated => ds[j].c = Isolated
  BY Zenon, <1>2 DEF StackOf, d
<1>7. \A i \in 1..d : Fits(ds[i], i > 1, ds[i - 1])
  BY Zenon, <1>4 DEF StackOf, d
<1> QED BY Zenon, <1>1, <1>5, <1>6, <1>7 DEF StackOf, d, ds

\* A call is pushed: the ones under it are in a body, or tx_requires_new waits
\* for its inner call.
LEMMA StackPush ==
  ASSUME NEW cs \in Seq(CallType), StackOf(cs), NEW ds \in Seq(CallType), Len(ds) = Len(cs) + 1,
         \A i \in 1..Len(cs) : /\ ds[i].kind = cs[i].kind /\ ds[i].c = cs[i].c
                               /\ ds[i].stage = IF cs[i].kind = "iso" THEN "inner" ELSE "body",
         Fits(ds[Len(cs) + 1], Len(cs) > 0, ds[Len(cs)]),
         ds[Len(cs) + 1].stage \in StagesOf(ds[Len(cs) + 1].kind) \ {"inner"},
         Len(cs) > 0 /\ cs[Len(cs)].c = Isolated => ds[Len(cs) + 1].c = Isolated
  PROVE  StackOf(ds)
<1> DEFINE d == Len(cs)
<1>1. d \in Nat /\ Len(ds) = d + 1
  OBVIOUS
<1>2. \A i \in 1..(d + 1) : (i \in 1..d /\ i < d + 1) \/ (i = d + 1 /\ i - 1 = d /\ (i > 1 <=> d > 0))
  BY <1>1
<1>3. \A i \in 1..d : i > 1 => i - 1 \in 1..d
  BY <1>1
<1>4. d > 0 => d \in 1..d
  BY <1>1
<1> HIDE DEF d
<1>5. ASSUME NEW i \in 1..d
      PROVE  /\ Fits(ds[i], i > 1, ds[i - 1])
             /\ ds[i].stage \in StagesOf(ds[i].kind)
             /\ ds[i].kind = "iso" => ds[i].stage = "inner"
             /\ ds[i].stage \in {"body", "inner"}
  <2>1. Fits(cs[i], i > 1, cs[i - 1]) /\ cs[i] \in CallType
    BY DEF StackOf, d
  <2>2. ds[i].kind = cs[i].kind /\ ds[i].c = cs[i].c /\ (i > 1 => ds[i - 1].kind = cs[i - 1].kind /\ ds[i - 1].c = cs[i - 1].c)
    BY Zenon, <1>3 DEF d
  <2>3. ds[i].stage = IF ds[i].kind = "iso" THEN "inner" ELSE "body"
    BY Zenon, <2>2 DEF d
  <2>4. Fits(ds[i], i > 1, ds[i - 1])
    BY Zenon, <2>1, <2>2 DEF Fits
  <2> QED BY <2>1, <2>2, <2>3, <2>4 DEF StagesOf, CallType
<1>6. ASSUME NEW i \in 1..(d + 1)
      PROVE  /\ Fits(ds[i], i > 1, ds[i - 1])
             /\ ds[i].stage \in StagesOf(ds[i].kind)
             /\ ds[i].kind = "iso" => (ds[i].stage = "inner" <=> i < d + 1)
             /\ i < d + 1 => ds[i].stage \in {"body", "inner"}
  <2>1. CASE i \in 1..d /\ i < d + 1
    BY Zenon, <1>5, <2>1
  <2>2. CASE i = d + 1 /\ i - 1 = d /\ (i > 1 <=> d > 0)
    <3>1. ~(d + 1 < d + 1)
      BY <1>1
    <3> QED BY <2>2, <3>1 DEF d
  <2> QED BY Zenon, <1>2, <2>1, <2>2
<1>7. ASSUME NEW i \in 1..(d + 1), NEW j \in 1..(d + 1), i < j, ds[i].c = Isolated
      PROVE  ds[j].c = Isolated
  <2>1. i \in 1..d
    BY <1>1, <1>7
  <2>2. CASE j \in 1..d
    BY Zenon, <1>7, <2>1, <2>2 DEF StackOf, d
  <2>3. CASE j = d + 1
    <3>1. d \in 1..d /\ (i = d \/ i < d) /\ d > 0
      BY <1>1, <2>1
    <3>2. cs[d].c = Isolated
      BY Zenon, <1>7, <2>1, <3>1 DEF StackOf, d
    <3> QED BY Zenon, <2>3, <3>1, <3>2 DEF d
  <2> QED BY Zenon, <1>2, <2>2, <2>3
<1> QED BY Zenon, <1>1, <1>6, <1>7 DEF StackOf

\* The top returns to the call under it.
LEMMA StackPop ==
  ASSUME NEW cs \in Seq(CallType), StackOf(cs), NEW ds \in Seq(CallType), Len(cs) > 0,
         Len(ds) = Len(cs) - 1,
         \A i \in 1..Len(ds) : /\ ds[i].kind = cs[i].kind /\ ds[i].c = cs[i].c
                               /\ ds[i].stage = IF cs[i].kind = "iso" /\ i = Len(ds)
                                                THEN "close" ELSE cs[i].stage
  PROVE  StackOf(ds)
<1> DEFINE d == Len(ds)
<1>1. d \in Nat /\ Len(cs) = d + 1 /\ (\A i \in 1..d : i \in 1..(d + 1) /\ i < d + 1)
  OBVIOUS
<1>2. \A i \in 1..d : i > 1 => i - 1 \in 1..d
  BY <1>1
<1>3. \A i \in 1..d : i < d \/ i = d
  BY <1>1
<1> HIDE DEF d
<1>4. ASSUME NEW i \in 1..d
      PROVE  /\ Fits(ds[i], i > 1, ds[i - 1])
             /\ ds[i].stage \in StagesOf(ds[i].kind)
             /\ ds[i].kind = "iso" => (ds[i].stage = "inner" <=> i < d)
             /\ i < d => ds[i].stage \in {"body", "inner"}
  <2>1. /\ Fits(cs[i], i > 1, cs[i - 1]) /\ cs[i].stage \in {"body", "inner"}
        /\ cs[i].stage \in StagesOf(cs[i].kind)
        /\ cs[i].kind = "iso" => cs[i].stage = "inner"
    BY Zenon, <1>1 DEF StackOf
  <2>2. ds[i].kind = cs[i].kind /\ ds[i].c = cs[i].c /\ (i > 1 => ds[i - 1].kind = cs[i - 1].kind /\ ds[i - 1].c = cs[i - 1].c)
    BY Zenon, <1>2 DEF d
  <2>3. Fits(ds[i], i > 1, ds[i - 1])
    BY Zenon, <2>1, <2>2 DEF Fits
  <2>4. ds[i].stage = IF cs[i].kind = "iso" /\ i = d THEN "close" ELSE cs[i].stage
    BY Zenon DEF d
  <2>5. i < d => i # d
    BY <1>1
  <2> QED BY Zenon, <1>3, <2>1, <2>2, <2>3, <2>4, <2>5 DEF StagesOf
<1>5. ASSUME NEW i \in 1..d, NEW j \in 1..d, i < j, ds[i].c = Isolated
      PROVE  ds[j].c = Isolated
  <2>1. ds[i].c = cs[i].c /\ ds[j].c = cs[j].c
    BY Zenon DEF d
  <2>2. i \in 1..Len(cs) /\ j \in 1..Len(cs)
    BY Zenon, <1>1
  <2> QED BY Zenon, <1>5, <2>1, <2>2 DEF StackOf
<1> QED BY Zenon, <1>1, <1>4, <1>5 DEF StackOf, d

\* What LevelsOf says of the top of a stack that is not empty.
LEMMA TopLevel ==
  ASSUME NEW cs \in Seq(CallType), Len(cs) > 0, NEW fs \in Heights,
         NEW level \in [1..Len(cs) -> 0..Len(cs)], LevelsOf(cs, fs, level)
  PROVE  /\ Len(cs) \in Nat /\ Len(cs) \in 1..Len(cs) /\ level[Len(cs)] \in Nat
         /\ Len(fs[cs[Len(cs)].c]) = Height(cs[Len(cs)], level[Len(cs)])
         /\ level[Len(cs)] = LevelOf1(cs[Len(cs)], level[Len(cs) - 1])
<1>1. Len(cs) \in Nat /\ Len(cs) \in 1..Len(cs)
  OBVIOUS
<1>2. level[Len(cs)] \in Nat
  BY <1>1
<1> QED BY Zenon, <1>1, <1>2 DEF LevelsOf

\* The calls keep their kinds, and whether they run; the frames are as many.
LEMMA LevelsTop ==
  ASSUME NEW cs \in Seq(CallType), NEW ds \in Seq(CallType), Len(ds) = Len(cs),
         NEW fs, NEW gs, NEW level, LevelsOf(cs, fs, level),
         \A i \in 1..Len(cs) : /\ ds[i].kind = cs[i].kind /\ ds[i].c = cs[i].c
                               /\ Running(ds[i]) <=> Running(cs[i]),
         \A c \in {Main, Isolated} : Len(gs[c]) = Len(fs[c])
  PROVE  LevelsOf(ds, gs, level)
<1> DEFINE d == Len(cs)
<1>1. \A i \in 1..d : ds[i].c \in {Main, Isolated}
  <2>1. \A i \in 1..d : ds[i] \in CallType
    OBVIOUS
  <2> QED BY Zenon, <2>1 DEF CallType
<1>2. \A i \in 1..d : Len(gs[ds[i].c]) = Len(fs[cs[i].c])
  BY Zenon, <1>1
<1>3. cs = <<>> <=> ds = <<>>
  OBVIOUS
<1> HIDE DEF d
<1>4. \A i \in 1..d : level[i] \in 0..i /\ level[i] = LevelOf1(ds[i], level[i - 1])
  BY Zenon DEF LevelsOf, LevelOf1, d
<1>5. \A i, j \in 1..d : i < j /\ ds[i].c = ds[j].c /\ ds[i].kind # "iso" =>
                          level[i] <= level[j] /\ (ds[j].kind # "join" => level[i] < level[j])
  BY Zenon DEF LevelsOf, d
<1>6. \A i \in 1..d : Running(ds[i]) => level[i] \in 1..Len(gs[ds[i].c])
  BY Zenon, <1>2 DEF LevelsOf, d
<1>7. \A i \in 1..d : i = d => Len(gs[ds[i].c]) = Height(ds[i], level[i])
  BY <1>2 DEF LevelsOf, Height, d
<1>8. \A i \in 1..d : ds[i].kind = "iso" => Len(gs[Main]) = IF i = 1 THEN 0 ELSE level[i - 1]
  BY Zenon DEF LevelsOf, d
<1>9. ds = <<>> => Len(gs[Main]) = 0
  BY Zenon, <1>3 DEF LevelsOf
<1>10. (\A i \in 1..d : ds[i].c # Isolated) => Len(gs[Isolated]) = 0
  BY Zenon DEF LevelsOf, d
<1> QED BY Zenon, <1>4, <1>5, <1>6, <1>7, <1>8, <1>9, <1>10 DEF LevelsOf, d

\* A call is pushed on a stack whose top runs, or waits for its inner call.
LEMMA LevelsPush ==
  ASSUME NEW cs \in Seq(CallType), StackOf(cs), NEW ds \in Seq(CallType), StackOf(ds),
         Len(ds) = Len(cs) + 1, NEW fs \in Heights,
         NEW level \in [1..Len(cs) -> 0..Len(cs)], LevelsOf(cs, fs, level),
         \A i \in 1..Len(cs) : /\ ds[i].kind = cs[i].kind /\ ds[i].c = cs[i].c
                               /\ Running(ds[i]) <=> Running(cs[i]),
         ds[Len(cs) + 1].kind = "join" \/ ~Running(ds[Len(cs) + 1]),
         Len(cs) > 0 /\ cs[Len(cs)].kind # "iso" => Running(cs[Len(cs)])
  PROVE  \E up \in [1..Len(ds) -> 0..Len(ds)] :
           LevelsOf(ds, fs, up) /\ \A i \in 1..Len(cs) : up[i] = level[i]
<1> DEFINE d == Len(cs)
           e == d + 1
           k == ds[e]
           below == IF d = 0 THEN 0 ELSE level[d]
           l == LevelOf1(k, below)
           up == [i \in 1..e |-> IF i = e THEN l ELSE level[i]]
<1>1. d \in Nat /\ e \in Nat /\ Len(ds) = e /\ e \in 1..e /\ d = e - 1
  OBVIOUS
<1>2. \A i \in 1..e : (i \in 1..d /\ i < e) \/ i = e
  BY <1>1
<1>3. \A i \in 1..d : i \in 1..e /\ i # e /\ (i > 1 => i - 1 \in 1..d)
  BY <1>1
<1>4. k \in CallType /\ Fits(k, e > 1, ds[d]) /\ (e > 1 <=> d > 0) /\ (d > 0 => d \in 1..d)
  BY <1>1 DEF StackOf
<1>5. below \in 0..d /\ l \in 0..e
  <2>1. below \in 0..d
    BY <1>1, <1>4
  <2> HIDE DEF below, d
  <2> QED BY <1>1, <2>1 DEF LevelOf1
<1>6. /\ up \in [1..Len(ds) -> 0..Len(ds)] /\ up[e] = l
      /\ \A i \in 1..d : up[i] = level[i]
  <2>1. \A i \in 1..d : level[i] \in 0..e
    <3>1. \A i \in 1..d : level[i] \in 0..d
      BY Zenon
    <3> QED BY <1>1, <3>1
  <2> HIDE DEF l, d, e
  <2> QED BY Zenon, <1>1, <1>2, <1>3, <1>5, <2>1
<1>7. d > 0 => up[d] = below
  BY <1>4, <1>6
<1> HIDE DEF up, l, below, k, e, d
<1>8. \A i \in 1..e : up[i] \in 0..i /\ up[i] = LevelOf1(ds[i], up[i - 1])
  <2>1. ASSUME NEW i \in 1..d PROVE up[i] \in 0..i /\ up[i] = LevelOf1(ds[i], up[i - 1])
    <3>1. level[i] \in 0..i /\ level[i] = LevelOf1(cs[i], level[i - 1])
      BY Zenon DEF LevelsOf, d
    <3>2. i > 1 => up[i - 1] = level[i - 1]
      BY Zenon, <1>3, <1>6
    <3>3. i = 1 => cs[i].kind \in {"iso", "root"}
      <4>1. Fits(cs[i], i > 1, cs[i - 1]) /\ cs[i] \in CallType
        BY DEF StackOf, d
      <4>2. i = 1 => ~(i > 1)
        BY <1>1
      <4> QED BY Zenon, <4>1, <4>2 DEF Fits, CallType
    <3>4. i = 1 \/ i > 1
      BY <1>1
    <3>5. ds[i].kind = cs[i].kind /\ up[i] = level[i]
      BY Zenon, <1>6 DEF d
    <3> QED BY Zenon, <3>1, <3>2, <3>3, <3>4, <3>5 DEF LevelOf1
  <2>2. up[e] \in 0..e /\ up[e] = LevelOf1(ds[e], up[e - 1])
    <3>1. d = 0 => k.kind \in {"iso", "root"}
      BY <1>1, <1>4 DEF Fits, CallType
    <3>2. d = 0 \/ d > 0
      BY <1>1
    <3>3. l = LevelOf1(k, up[d])
      BY Zenon, <1>7, <3>1, <3>2 DEF LevelOf1, l
    <3> QED BY Zenon, <1>1, <1>5, <1>6, <3>3 DEF k
  <2> QED BY Zenon, <1>2, <2>1, <2>2
<1>9. d > 0 => /\ Len(fs[cs[d].c]) = Height(cs[d], level[d]) /\ level[d] = below
               /\ ds[d].kind = cs[d].kind /\ ds[d].c = cs[d].c
  BY <1>4, TopLevel DEF below, d
<1>10. \A i, j \in 1..e : i < j /\ ds[i].c = ds[j].c /\ ds[i].kind # "iso" =>
                          up[i] <= up[j] /\ (ds[j].kind # "join" => up[i] < up[j])
  <2> SUFFICES ASSUME NEW i \in 1..e, NEW j \in 1..e, i < j, ds[i].c = ds[j].c, ds[i].kind # "iso"
               PROVE  up[i] <= up[j] /\ (ds[j].kind # "join" => up[i] < up[j])
    BY Zenon
  <2>1. i \in 1..d /\ d > 0
    BY <1>1
  <2>2. up[i] = level[i] /\ ds[i].c = cs[i].c /\ ds[i].kind = cs[i].kind /\ level[i] \in Nat
    BY <1>1, <1>6, <2>1 DEF d
  <2>3. CASE j \in 1..d
    <3>1. up[j] = level[j] /\ ds[j].c = cs[j].c /\ ds[j].kind = cs[j].kind
      BY Zenon, <1>6, <2>3 DEF d
    <3> QED BY Zenon, <2>1, <2>2, <2>3, <3>1 DEF LevelsOf, d
  <2>4. CASE j = e
    <3>1. k.kind \in {"iso", "root"} => k.c = Isolated
      BY Zenon, <1>4, <2>1 DEF Fits
    <3>2. CASE k.kind \in {"iso", "root"}
      <4>1. cs[i].c = Isolated
        BY Zenon, <2>2, <2>4, <3>1, <3>2 DEF k
      <4>2. cs[d].c = Isolated
        BY <1>4, <2>1, <4>1 DEF StackOf, d
      <4>3. ds[d].c = Isolated
        BY Zenon, <1>9, <2>1, <4>2
      <4>4. k.kind = "root" /\ ds[d].kind = "iso"
        BY Zenon, <1>4, <2>1, <3>2, <4>3, MainAssumption DEF Fits
      <4>5. Fits(cs[d], d > 1, cs[d - 1]) /\ i # d /\ (i < d)
        BY SMTT(30), <1>1, <1>4, <1>9, <2>1, <2>2, <4>4 DEF StackOf, d
      <4>6. d - 1 \in 1..d /\ d > 1 /\ (i = d - 1 \/ i < d - 1)
        BY <1>1, <2>1, <4>5
      <4>7. cs[d - 1].c = Main
        BY Zenon, <1>9, <2>1, <4>4, <4>5, <4>6 DEF Fits
      <4>8. cs[d - 1].c = Isolated
        BY Zenon, <2>1, <4>1, <4>6 DEF StackOf, d
      <4> QED BY Zenon, <4>7, <4>8, MainAssumption
    <3>3. CASE k.kind \in {"sp", "join"}
      <4>1. k.c = ds[d].c /\ ds[d].kind # "iso"
        BY Zenon, <1>4, <3>3 DEF Fits
      <4>2. cs[i].c = cs[d].c
        BY Zenon, <1>9, <2>1, <2>2, <2>4, <4>1 DEF k
      <4>3. i = d \/ i < d
        BY SMTT(30), <1>1, <2>1
      <4>4. level[i] <= level[d]
        BY <1>4, <2>1, <2>2, <4>2, <4>3 DEF LevelsOf, d
      <4>5. l = IF k.kind = "sp" THEN below + 1 ELSE below
        BY Zenon, <3>3 DEF l, LevelOf1
      <4>6. below \in Nat
        BY <1>1, <1>5
      <4> QED BY SMTT(30), <1>6, <1>9, <2>1, <2>2, <2>4, <3>3, <4>4, <4>5, <4>6 DEF k
    <3> QED BY Zenon, <1>4, <3>2, <3>3 DEF CallType
  <2> QED BY Zenon, <1>2, <2>3, <2>4
<1>11. Len(fs[k.c]) = Height(k, l) /\ (k.kind = "join" => l \in 1..Len(fs[k.c]))
  <2>1. CASE k.kind \in {"sp", "join"}
    <3>1. d > 0 /\ k.c = ds[d].c /\ ds[d].kind # "iso"
      BY Zenon, <1>4, <2>1 DEF Fits
    <3>2. Running(cs[d]) /\ Len(fs[k.c]) = level[d] /\ level[d] \in 1..Len(fs[k.c])
      <4>1. Running(cs[d])
        BY Zenon, <1>9, <3>1 DEF d
      <4>2. Len(fs[k.c]) = level[d]
        BY Zenon, <1>9, <3>1, <4>1 DEF Height, Running
      <4>3. level[d] \in 1..Len(fs[cs[d].c])
        BY Zenon, <1>4, <3>1, <4>1 DEF LevelsOf, d
      <4> QED BY Zenon, <1>9, <3>1, <4>1, <4>2, <4>3
    <3>3. l = IF k.kind = "sp" THEN below + 1 ELSE below
      BY Zenon, <2>1 DEF l, LevelOf1
    <3>4. below \in Nat /\ (below + 1) - 1 = below
      BY <1>1, <1>5
    <3>5. Running(k) <=> k.kind = "join"
      <4>1. k.kind = "join" => k.stage = "body"
        BY Zenon, <1>1 DEF StackOf, StagesOf, k
      <4>2. k.kind = "join" \/ ~Running(k)
        BY Zenon DEF k, e, d
      <4> QED BY Zenon, <4>1, <4>2 DEF Running
    <3> QED BY Zenon, <1>9, <2>1, <3>1, <3>2, <3>3, <3>4, <3>5 DEF Height
  <2>2. CASE k.kind = "root"
    <3>1. ~Running(k) /\ l = 1
      BY Zenon, <2>2 DEF k, e, d, l, LevelOf1
    <3>2. Len(fs[k.c]) = 0
      <4>1. CASE d = 0
        <5>1. k.c = Main /\ cs = <<>>
          BY <1>1, <1>4, <2>2, <4>1 DEF Fits, d
        <5> QED BY Zenon, <5>1 DEF LevelsOf
      <4>2. CASE d > 0
        <5>1. k.c = Isolated /\ ds[d].kind = "iso"
          BY Zenon, <1>4, <2>2, <4>2 DEF Fits
        <5>2. cs[d].kind = "iso" /\ cs[d].c = Isolated
          BY ZenonT(60), <1>4, <1>9, <4>2, <5>1 DEF StackOf, Fits, d
        <5> QED BY Zenon, <1>9, <4>2, <5>1, <5>2 DEF Height, Running
      <4> QED BY <1>1, <4>1, <4>2
    <3> QED BY <2>2, <3>1, <3>2 DEF Height
  <2>3. CASE k.kind = "iso"
    <3>1. k.c = Isolated /\ (d > 0 => ds[d].c = Main)
      BY Zenon, <1>4, <2>3 DEF Fits
    <3>2. ASSUME NEW i \in 1..d PROVE cs[i].c # Isolated
      <4>1. d > 0 /\ (i = d \/ i < d)
        BY <1>1
      <4>2. cs[d].c = Main
        BY Zenon, <1>9, <3>1, <4>1
      <4> QED BY Zenon, <1>4, <4>1, <4>2, MainAssumption DEF StackOf, d
    <3>3. Len(fs[Isolated]) = 0
      BY Zenon, <3>2 DEF LevelsOf, d
    <3> QED BY Zenon, <2>3, <3>1, <3>3 DEF Height, Running
  <2> QED BY Zenon, <1>4, <2>1, <2>2, <2>3 DEF CallType
<1>12. \A i \in 1..e : Running(ds[i]) => up[i] \in 1..Len(fs[ds[i].c])
  <2>1. \A i \in 1..d : Running(ds[i]) => up[i] \in 1..Len(fs[ds[i].c])
    BY Zenon, <1>6 DEF LevelsOf, d
  <2>2. Running(ds[e]) => up[e] \in 1..Len(fs[ds[e].c])
    <3>1. Running(ds[e]) => k.kind = "join"
      BY Zenon DEF k, e, d
    <3> QED BY Zenon, <1>6, <1>11, <3>1 DEF k
  <2> QED BY Zenon, <1>2, <2>1, <2>2
<1>13. \A i \in 1..e : i = e => Len(fs[ds[i].c]) = Height(ds[i], up[i])
  BY Zenon, <1>6, <1>11 DEF k
<1>14. \A i \in 1..e : ds[i].kind = "iso" => Len(fs[Main]) = IF i = 1 THEN 0 ELSE up[i - 1]
  <2>1. ASSUME NEW i \in 1..d, ds[i].kind = "iso"
        PROVE  Len(fs[Main]) = IF i = 1 THEN 0 ELSE up[i - 1]
    <3>1. i # 1 => up[i - 1] = level[i - 1]
      <4>1. i = 1 \/ i > 1
        BY <1>1
      <4> QED BY Zenon, <1>3, <1>6, <4>1
    <3>2. cs[i].kind = "iso"
      BY Zenon, <2>1 DEF d
    <3> QED BY Zenon, <3>1, <3>2 DEF LevelsOf, d
  <2>2. ASSUME ds[e].kind = "iso"
        PROVE  Len(fs[Main]) = IF e = 1 THEN 0 ELSE up[e - 1]
    <3>1. CASE d = 0
      <4>1. cs = <<>> /\ e = 1
        BY <1>1, <3>1 DEF d
      <4> QED BY Zenon, <4>1 DEF LevelsOf
    <3>2. CASE d > 0
      <4>1. ds[d].c = Main /\ ds[d].kind # "iso"
        BY Zenon, <1>4, <2>2, <3>2 DEF Fits, k
      <4>2. Running(cs[d])
        BY Zenon, <1>9, <3>2, <4>1 DEF d
      <4>3. Len(fs[Main]) = level[d]
        BY Zenon, <1>9, <3>2, <4>1, <4>2 DEF Height, Running
      <4>4. e # 1 /\ e - 1 = d
        BY <1>1, <3>2
      <4> QED BY Zenon, <1>7, <1>9, <3>2, <4>3, <4>4
    <3> QED BY <1>1, <3>1, <3>2
  <2> QED BY Zenon, <1>2, <2>1, <2>2
<1>15. ds = <<>> => Len(fs[Main]) = 0
  BY <1>1
<1>16. (\A i \in 1..e : ds[i].c # Isolated) => Len(fs[Isolated]) = 0
  <2> SUFFICES ASSUME \A i \in 1..e : ds[i].c # Isolated PROVE Len(fs[Isolated]) = 0
    BY Zenon
  <2>1. \A i \in 1..d : cs[i].c # Isolated
    BY Zenon, <1>3 DEF d
  <2> QED BY Zenon, <2>1 DEF LevelsOf, d
<1>17. LevelsOf(ds, fs, up)
  BY Zenon, <1>1, <1>8, <1>10, <1>12, <1>13, <1>14, <1>15, <1>16 DEF LevelsOf
<1> QED BY Zenon, <1>6, <1>17 DEF d

\* The top returns: what runs under it runs in the boundary of its level.
LEMMA LevelsPop ==
  ASSUME NEW cs \in Seq(CallType), StackOf(cs), NEW ds \in Seq(CallType), StackOf(ds),
         Len(cs) > 0, Len(ds) = Len(cs) - 1, NEW fs \in Heights,
         NEW level \in [1..Len(cs) -> 0..Len(cs)], LevelsOf(cs, fs, level),
         \A i \in 1..Len(ds) : /\ ds[i].kind = cs[i].kind /\ ds[i].c = cs[i].c
                               /\ Running(ds[i]) <=> Running(cs[i]),
         cs[Len(cs)].kind \in {"root", "sp"} => ~Running(cs[Len(cs)])
  PROVE  \E up \in [1..Len(ds) -> 0..Len(ds)] :
           LevelsOf(ds, fs, up) /\ \A i \in 1..Len(ds) : up[i] = level[i]
<1> DEFINE d == Len(ds)
           e == d + 1
           k == cs[e]
           up == [i \in 1..d |-> level[i]]
<1>1. d \in Nat /\ e \in Nat /\ Len(cs) = e /\ e \in 1..e
  OBVIOUS
<1>2. \A i \in 1..d : i \in 1..e /\ i < e /\ (i > 1 => i - 1 \in 1..d) /\ (i = 1 \/ i > 1)
  BY <1>1
<1>3. \A i \in 1..e : i \in 1..d \/ i = e
  BY <1>1
<1>4. /\ k \in CallType /\ Fits(k, e > 1, cs[d]) /\ (e > 1 <=> d > 0)
      /\ (d > 0 => d \in 1..d) /\ e - 1 = d /\ k.stage \in StagesOf(k.kind)
  BY <1>1 DEF StackOf
<1>5. \A i \in 1..d : up[i] = level[i]
  BY Zenon
<1>6. Len(fs[k.c]) = Height(k, level[e]) /\ level[e] = LevelOf1(k, level[d])
  <2>1. \A i \in 1..e : level[i] = LevelOf1(cs[i], level[i - 1])
    BY Zenon, <1>1 DEF LevelsOf
  <2>2. \A i \in 1..e : i = e => Len(fs[cs[i].c]) = Height(cs[i], level[i])
    BY Zenon, <1>1 DEF LevelsOf
  <2> QED BY Zenon, <1>1, <1>4, <2>1, <2>2
<1>7. \A i \in 1..d : level[i] \in Nat
  <2>1. \A i \in 1..Len(cs) : level[i] \in 0..Len(cs)
    BY Zenon
  <2>2. 0..Len(cs) \subseteq Nat
    OBVIOUS
  <2> HIDE DEF up, k, e, d
  <2> QED BY Zenon, <1>1, <1>2, <2>1, <2>2
<1> HIDE DEF up, k, e, d
<1>8. \A i \in 1..d : up[i] \in 0..i /\ up[i] = LevelOf1(ds[i], up[i - 1])
  <2> TAKE i \in 1..d
  <2>1. level[i] \in 0..i /\ level[i] = LevelOf1(cs[i], level[i - 1])
    BY Zenon, <1>1, <1>2 DEF LevelsOf
  <2>2. i > 1 => up[i - 1] = level[i - 1]
    BY Zenon, <1>2, <1>5
  <2>3. i = 1 => ds[i].kind \in {"iso", "root"}
    <3>1. Fits(ds[i], i > 1, ds[i - 1]) /\ ds[i] \in CallType
      BY DEF StackOf, d
    <3>2. i = 1 => ~(i > 1)
      BY <1>1
    <3> QED BY Zenon, <3>1, <3>2 DEF Fits, CallType
  <2>4. ds[i].kind = cs[i].kind
    BY Zenon DEF d
  <2> QED BY Zenon, <1>2, <1>5, <2>1, <2>2, <2>3, <2>4 DEF LevelOf1
<1>9. \A i, j \in 1..d : i < j /\ ds[i].c = ds[j].c /\ ds[i].kind # "iso" =>
                          up[i] <= up[j] /\ (ds[j].kind # "join" => up[i] < up[j])
  <2> TAKE i, j \in 1..d
  <2>1. /\ ds[i].kind = cs[i].kind /\ ds[i].c = cs[i].c /\ ds[j].kind = cs[j].kind /\ ds[j].c = cs[j].c
    BY Zenon DEF d
  <2>2. i \in 1..Len(cs) /\ j \in 1..Len(cs)
    BY Zenon, <1>1, <1>2
  <2> QED BY Zenon, <1>5, <2>1, <2>2 DEF LevelsOf
<1>10. \A i \in 1..d : Running(ds[i]) => up[i] \in 1..Len(fs[ds[i].c])
  <2> TAKE i \in 1..d
  <2>1. ds[i].c = cs[i].c /\ (Running(ds[i]) <=> Running(cs[i]))
    BY Zenon DEF d
  <2>2. i \in 1..Len(cs)
    BY Zenon, <1>1, <1>2
  <2> QED BY Zenon, <1>5, <2>1, <2>2 DEF LevelsOf
<1>11. d > 0 => Len(fs[ds[d].c]) = Height(ds[d], up[d])
  <2> SUFFICES ASSUME d > 0 PROVE Len(fs[ds[d].c]) = Height(ds[d], up[d])
    BY Zenon
  <2>1. /\ ds[d].kind = cs[d].kind /\ ds[d].c = cs[d].c /\ (Running(ds[d]) <=> Running(cs[d]))
        /\ up[d] = level[d] /\ level[d] \in Nat
    BY Zenon, <1>4, <1>5, <1>7 DEF d
  <2>2. cs[d].kind # "iso" => Running(cs[d])
    <3>1. cs[d].stage \in {"body", "inner"} /\ cs[d].stage \in StagesOf(cs[d].kind) /\ cs[d] \in CallType
      BY <1>1, <1>2, <1>4 DEF StackOf
    <3> QED BY Zenon, <3>1 DEF StagesOf, CallType, Running
  <2>3. CASE k.kind \in {"sp", "join"}
    <3>1. cs[d].kind # "iso" /\ k.c = cs[d].c
      BY Zenon, <1>4, <2>3 DEF Fits
    <3>2. level[e] = IF k.kind = "sp" THEN level[d] + 1 ELSE level[d]
      BY Zenon, <1>6, <2>3 DEF LevelOf1
    <3>3. Running(k) <=> k.kind = "join"
      <4>1. k.kind = "join" => k.stage = "body"
        BY Zenon, <1>4 DEF StagesOf
      <4>2. k.kind = "sp" => ~Running(k)
        BY Zenon, <1>1 DEF k
      <4> QED BY Zenon, <2>3, <4>1, <4>2 DEF Running
    <3>4. (level[d] + 1) - 1 = level[d]
      BY <2>1
    <3>5. Len(fs[k.c]) = level[d]
      BY Zenon, <1>6, <2>3, <3>2, <3>3, <3>4 DEF Height
    <3> QED BY Zenon, <2>1, <2>2, <3>1, <3>5 DEF Height, Running
  <2>4. CASE k.kind = "root"
    <3>1. cs[d].kind = "iso" /\ k.c = Isolated /\ level[e] = 1 /\ ~Running(k)
      BY Zenon, <1>1, <1>4, <1>6, <2>4 DEF Fits, LevelOf1, k
    <3>2. cs[d].c = Isolated
      <4>1. Fits(cs[d], d > 1, cs[d - 1])
        BY Zenon, <1>1, <1>2, <1>4 DEF StackOf
      <4> QED BY Zenon, <3>1, <4>1 DEF Fits
    <3>3. Len(fs[k.c]) = 0
      BY <1>6, <2>4, <3>1 DEF Height
    <3> QED BY Zenon, <2>1, <3>1, <3>2, <3>3 DEF Height, Running
  <2>5. CASE k.kind = "iso"
    <3>1. cs[d].kind # "iso" /\ cs[d].c = Main
      BY Zenon, <1>4, <2>5 DEF Fits
    <3>2. e # 1 /\ e \in 1..Len(cs)
      BY <1>1, <1>4
    <3>3. Len(fs[Main]) = level[e - 1]
      BY Zenon, <2>5, <3>2 DEF LevelsOf, k
    <3> QED BY Zenon, <1>4, <2>1, <2>2, <3>1, <3>3 DEF Height, Running
  <2> QED BY Zenon, <1>4, <2>3, <2>4, <2>5 DEF CallType
<1>12. \A i \in 1..d : ds[i].kind = "iso" => Len(fs[Main]) = IF i = 1 THEN 0 ELSE up[i - 1]
  <2> SUFFICES ASSUME NEW i \in 1..d, ds[i].kind = "iso"
               PROVE  Len(fs[Main]) = IF i = 1 THEN 0 ELSE up[i - 1]
    BY Zenon
  <2>1. i # 1 => up[i - 1] = level[i - 1]
    BY Zenon, <1>2, <1>5
  <2>2. cs[i].kind = "iso" /\ i \in 1..Len(cs)
    BY Zenon, <1>1, <1>2 DEF d
  <2> QED BY Zenon, <2>1, <2>2 DEF LevelsOf
<1>13. ds = <<>> => Len(fs[Main]) = 0
  <2> SUFFICES ASSUME ds = <<>> PROVE Len(fs[Main]) = 0
    BY Zenon
  <2>1. d = 0 /\ e = 1
    BY <1>1 DEF d, e
  <2>2. k.kind \in {"root", "iso"} /\ (k.kind = "root" => k.c = Main)
    BY <1>4, <2>1 DEF Fits, CallType
  <2>3. CASE k.kind = "root"
    <3>1. level[e] = 1 /\ ~Running(k)
      BY Zenon, <1>1, <1>6, <2>3 DEF LevelOf1, k
    <3> QED BY <1>6, <2>2, <2>3, <3>1 DEF Height
  <2>4. CASE k.kind = "iso"
    <3>1. 1 \in 1..Len(cs) /\ cs[1].kind = "iso"
      BY Zenon, <1>1, <2>1, <2>4 DEF k
    <3> QED BY Zenon, <3>1 DEF LevelsOf
  <2> QED BY Zenon, <2>2, <2>3, <2>4
<1>14. (\A i \in 1..d : ds[i].c # Isolated) => Len(fs[Isolated]) = 0
  <2> SUFFICES ASSUME \A i \in 1..d : ds[i].c # Isolated PROVE Len(fs[Isolated]) = 0
    BY Zenon
  <2>1. \A i \in 1..d : cs[i].c # Isolated
    BY Zenon DEF d
  <2>2. CASE k.c # Isolated
    <3>1. \A i \in 1..Len(cs) : cs[i].c # Isolated
      BY Zenon, <1>1, <1>3, <2>1, <2>2 DEF k
    <3> QED BY Zenon, <3>1 DEF LevelsOf
  <2>3. CASE k.c = Isolated
    <3>1. k.kind = "iso"
      <4>1. d > 0 => cs[d].c # Isolated
        BY Zenon, <1>4, <2>1
      <4>2. k.kind = "root" => d > 0 /\ cs[d].kind = "iso"
        BY Zenon, <1>4, <2>3, MainAssumption DEF Fits
      <4>3. d > 0 => Fits(cs[d], d > 1, cs[d - 1])
        BY Zenon, <1>1, <1>2, <1>4 DEF StackOf
      <4>4. k.kind # "root"
        BY Zenon, <4>1, <4>2, <4>3 DEF Fits
      <4>5. k.kind \notin {"sp", "join"}
        BY Zenon, <1>4, <2>3, <4>1 DEF Fits
      <4> QED BY Zenon, <1>4, <4>4, <4>5 DEF CallType
    <3> QED BY Zenon, <1>6, <2>3, <3>1 DEF Height, Running
  <2> QED BY Zenon, <2>2, <2>3
<1>15. \A i \in 1..d : i = d => Len(fs[ds[i].c]) = Height(ds[i], up[i])
  <2>1. \A i \in 1..d : d > 0
    BY <1>1
  <2> QED BY Zenon, <1>11, <2>1
<1>16. LevelsOf(ds, fs, up)
  BY Zenon, <1>8, <1>9, <1>10, <1>12, <1>13, <1>14, <1>15 DEF LevelsOf, d
<1>17. up \in [1..d -> 0..d]
  <2>1. ASSUME NEW i \in 1..d PROVE level[i] \in 0..d
    <3>1. level[i] \in 0..i
      BY Zenon, <1>5, <1>8
    <3> QED BY SMTT(30), <1>1, <3>1
  <2> QED BY Zenon, <2>1 DEF up
<1> QED BY Zenon, <1>5, <1>16, <1>17 DEF d

\* A boundary is open: its frame goes on the stack and its body runs.
LEMMA LevelsFrame ==
  ASSUME NEW cs \in Seq(CallType), StackOf(cs), NEW ds \in Seq(CallType), Len(cs) > 0,
         Len(ds) = Len(cs), NEW fs \in Heights, NEW gs \in Heights,
         NEW level \in [1..Len(cs) -> 0..Len(cs)], LevelsOf(cs, fs, level),
         \A i \in 1..Len(cs) : /\ ds[i].kind = cs[i].kind /\ ds[i].c = cs[i].c
                               /\ i < Len(cs) => (Running(ds[i]) <=> Running(cs[i])),
         cs[Len(cs)].kind \in {"root", "sp"}, ~Running(cs[Len(cs)]), Running(ds[Len(cs)]),
         \A c \in Conn : Len(gs[c]) = IF c = cs[Len(cs)].c THEN Len(fs[c]) + 1 ELSE Len(fs[c])
  PROVE  LevelsOf(ds, gs, level)
<1> DEFINE d == Len(cs)
           k == cs[d]
<1>1. d \in Nat /\ d \in 1..d /\ \A i \in 1..d : i < d \/ i = d
  OBVIOUS
<1>2. \A i \in 1..d : cs[i] \in CallType /\ cs[i].c \in Conn
  <2>1. \A i \in 1..d : cs[i] \in CallType
    OBVIOUS
  <2> QED BY Zenon, <2>1, MainAssumption DEF CallType
<1>3. \A c \in Conn : Len(fs[c]) \in Nat /\ Len(gs[c]) \in Nat
  BY DEF Heights
<1>4. Len(fs[k.c]) = level[d] - 1 /\ level[d] \in Nat /\ Len(gs[k.c]) = level[d] /\ level[d] > 0
  <2>1. Len(fs[k.c]) = Height(k, level[d]) /\ level[d] \in Nat
    BY Zenon, TopLevel
  <2>2. Len(fs[k.c]) = level[d] - 1
    BY Zenon, <2>1 DEF Height
  <2>3. Len(gs[k.c]) = Len(fs[k.c]) + 1
    BY Zenon, <1>1, <1>2
  <2>4. Len(fs[k.c]) \in Nat
    BY Zenon, <1>1, <1>2, <1>3
  <2> HIDE DEF k, d
  <2> QED BY <2>1, <2>2, <2>3, <2>4
<1>5. \A c \in Conn : Len(gs[c]) = IF c = k.c THEN Len(fs[c]) + 1 ELSE Len(fs[c])
  BY Zenon
<1>6. Len(ds) = d /\ Running(ds[d]) /\ k.kind # "iso"
  BY Zenon
<1> HIDE DEF d, k
<1>7. \A i \in 1..d : level[i] \in 0..i /\ level[i] = LevelOf1(ds[i], level[i - 1])
  BY Zenon DEF LevelsOf, LevelOf1, d
<1>8. \A i, j \in 1..d : i < j /\ ds[i].c = ds[j].c /\ ds[i].kind # "iso" =>
                          level[i] <= level[j] /\ (ds[j].kind # "join" => level[i] < level[j])
  BY ZenonT(60) DEF LevelsOf, d
<1>9. \A i \in 1..d : Running(ds[i]) => level[i] \in 1..Len(gs[ds[i].c])
  <2> SUFFICES ASSUME NEW i \in 1..d, Running(ds[i]) PROVE level[i] \in 1..Len(gs[ds[i].c])
    BY Zenon
  <2>1. CASE i < d
    <3>1. Running(cs[i]) /\ ds[i].c = cs[i].c
      BY Zenon, <2>1 DEF d
    <3>2. level[i] \in 1..Len(fs[cs[i].c])
      BY Zenon, <3>1 DEF LevelsOf, d
    <3>3. /\ Len(fs[cs[i].c]) \in Nat /\ Len(gs[cs[i].c]) \in Nat
          /\ Len(gs[cs[i].c]) = Len(fs[cs[i].c]) + 1 \/ Len(gs[cs[i].c]) = Len(fs[cs[i].c])
      BY Zenon, <1>2, <1>3, <1>5
    <3>4. ASSUME NEW l, NEW m \in Nat, NEW n \in Nat, l \in 1..m, n = m + 1 \/ n = m PROVE l \in 1..n
      BY <3>4
    <3> QED BY Zenon, <3>1, <3>2, <3>3, <3>4
  <2>2. CASE i = d
    <3>1. ds[i].c = k.c
      BY Zenon, <2>2 DEF k, d
    <3> QED BY <1>4, <2>2, <3>1
  <2> QED BY Zenon, <1>1, <2>1, <2>2
<1>10. \A i \in 1..d : i = d => Len(gs[ds[i].c]) = Height(ds[i], level[i])
  <2>1. ds[d].c = k.c /\ ds[d].kind = k.kind
    BY Zenon, <1>1 DEF k, d
  <2> QED BY Zenon, <1>4, <1>6, <2>1 DEF Height
<1>11. \A i \in 1..d : ds[i].kind = "iso" => Len(gs[Main]) = IF i = 1 THEN 0 ELSE level[i - 1]
  <2> SUFFICES ASSUME NEW i \in 1..d, ds[i].kind = "iso"
               PROVE  Len(gs[Main]) = IF i = 1 THEN 0 ELSE level[i - 1]
    BY Zenon
  <2>1. cs[i].kind = "iso" /\ Fits(cs[i], i > 1, cs[i - 1])
    BY Zenon DEF d, StackOf
  <2>2. cs[i].c = Isolated /\ i < d
    BY Zenon, <1>1, <1>6, <2>1 DEF Fits, k
  <2>3. k.c = Isolated
    BY Zenon, <1>1, <2>2 DEF StackOf, k, d
  <2>4. Len(gs[Main]) = Len(fs[Main])
    BY Zenon, <1>5, <2>3, MainAssumption
  <2> QED BY Zenon, <2>1, <2>4 DEF LevelsOf, d
<1>12. ds # <<>>
  BY Zenon, <1>1, <1>6
<1>13. (\A i \in 1..d : ds[i].c # Isolated) => Len(gs[Isolated]) = 0
  <2> SUFFICES ASSUME \A i \in 1..d : ds[i].c # Isolated PROVE Len(gs[Isolated]) = 0
    BY Zenon
  <2>1. \A i \in 1..d : cs[i].c # Isolated
    BY Zenon DEF d
  <2>2. k.c # Isolated
    BY Zenon, <1>1, <2>1 DEF k
  <2>3. Len(gs[Isolated]) = Len(fs[Isolated])
    BY Zenon, <1>5, <2>2, MainAssumption
  <2> QED BY Zenon, <2>1, <2>3 DEF LevelsOf, d
<1> QED BY ZenonT(60), <1>6, <1>7, <1>8, <1>9, <1>10, <1>11, <1>12, <1>13 DEF LevelsOf

\* The body of a boundary ends: its frame leaves the stack.
LEMMA LevelsBody ==
  ASSUME NEW cs \in Seq(CallType), StackOf(cs), NEW ds \in Seq(CallType), Len(cs) > 0,
         Len(ds) = Len(cs), NEW fs \in Heights, NEW gs \in Heights,
         NEW level \in [1..Len(cs) -> 0..Len(cs)], LevelsOf(cs, fs, level),
         \A i \in 1..Len(cs) : /\ ds[i].kind = cs[i].kind /\ ds[i].c = cs[i].c
                               /\ i < Len(cs) => (Running(ds[i]) <=> Running(cs[i])),
         cs[Len(cs)].kind \in {"root", "sp"}, Running(cs[Len(cs)]), ~Running(ds[Len(cs)]),
         \A c \in Conn : Len(gs[c]) = IF c = cs[Len(cs)].c THEN Len(fs[c]) - 1 ELSE Len(fs[c])
  PROVE  LevelsOf(ds, gs, level)
<1> DEFINE d == Len(cs)
           k == cs[d]
<1>1. d \in Nat /\ d \in 1..d /\ \A i \in 1..d : i < d \/ i = d
  OBVIOUS
<1>2. \A i \in 1..d : cs[i] \in CallType /\ cs[i].c \in Conn
  <2>1. \A i \in 1..d : cs[i] \in CallType
    BY SMTT(30)
  <2> QED BY Zenon, <2>1, MainAssumption DEF CallType
<1>3. \A c \in Conn : Len(fs[c]) \in Nat /\ Len(gs[c]) \in Nat
  BY DEF Heights
<1>4. Len(fs[k.c]) = level[d] /\ level[d] \in Nat /\ Len(gs[k.c]) = level[d] - 1
  <2>1. Len(fs[k.c]) = Height(k, level[d]) /\ level[d] \in Nat
    BY Zenon, TopLevel
  <2>2. Len(fs[k.c]) = level[d]
    BY Zenon, <2>1 DEF Height
  <2>3. Len(gs[k.c]) = Len(fs[k.c]) - 1
    BY Zenon, <1>1, <1>2
  <2> HIDE DEF k, d
  <2> QED BY Zenon, <2>1, <2>2, <2>3
<1>5. \A c \in Conn : Len(gs[c]) = IF c = k.c THEN Len(fs[c]) - 1 ELSE Len(fs[c])
  BY Zenon
<1>6. Len(ds) = d /\ ~Running(ds[d]) /\ k.kind \in {"root", "sp"}
  BY Zenon
<1> HIDE DEF d, k
<1>7. \A i \in 1..d : level[i] \in 0..i /\ level[i] = LevelOf1(ds[i], level[i - 1])
  BY Zenon DEF LevelsOf, LevelOf1, d
<1>8. \A i, j \in 1..d : i < j /\ ds[i].c = ds[j].c /\ ds[i].kind # "iso" =>
                          level[i] <= level[j] /\ (ds[j].kind # "join" => level[i] < level[j])
  BY ZenonT(60) DEF LevelsOf, d
<1>9. \A i \in 1..d : Running(ds[i]) => level[i] \in 1..Len(gs[ds[i].c])
  <2> SUFFICES ASSUME NEW i \in 1..d, Running(ds[i]) PROVE level[i] \in 1..Len(gs[ds[i].c])
    BY Zenon
  <2>1. i < d
    BY Zenon, <1>1, <1>6
  <2>2. Running(cs[i]) /\ ds[i].c = cs[i].c /\ cs[i].kind # "iso"
    BY Zenon, <2>1 DEF d, Running
  <2>3. level[i] \in 1..Len(fs[cs[i].c])
    BY Zenon, <2>2 DEF LevelsOf, d
  <2>4. CASE cs[i].c = k.c
    <3>1. level[i] < level[d]
      BY ZenonT(60), <1>1, <1>6, <2>1, <2>2, <2>4 DEF LevelsOf, k, d
    <3> QED BY SMTT(30), <1>4, <2>2, <2>3, <2>4, <3>1
  <2>5. CASE cs[i].c # k.c
    BY Zenon, <1>2, <1>5, <2>2, <2>3, <2>5
  <2> QED BY Zenon, <2>4, <2>5
<1>10. \A i \in 1..d : i = d => Len(gs[ds[i].c]) = Height(ds[i], level[i])
  <2>1. ds[d].c = k.c /\ ds[d].kind = k.kind
    BY Zenon, <1>1 DEF k, d
  <2> QED BY Zenon, <1>4, <1>6, <2>1 DEF Height
<1>11. \A i \in 1..d : ds[i].kind = "iso" => Len(gs[Main]) = IF i = 1 THEN 0 ELSE level[i - 1]
  <2> SUFFICES ASSUME NEW i \in 1..d, ds[i].kind = "iso"
               PROVE  Len(gs[Main]) = IF i = 1 THEN 0 ELSE level[i - 1]
    BY Zenon
  <2>1. cs[i].kind = "iso" /\ Fits(cs[i], i > 1, cs[i - 1])
    BY Zenon DEF d, StackOf
  <2>2. cs[i].c = Isolated /\ i < d
    BY Zenon, <1>1, <1>6, <2>1 DEF Fits, k
  <2>3. k.c = Isolated
    BY Zenon, <1>1, <2>2 DEF StackOf, k, d
  <2>4. Len(gs[Main]) = Len(fs[Main])
    BY Zenon, <1>5, <2>3, MainAssumption
  <2> QED BY Zenon, <2>1, <2>4 DEF LevelsOf, d
<1>12. ds # <<>>
  BY Zenon, <1>1, <1>6
<1>13. (\A i \in 1..d : ds[i].c # Isolated) => Len(gs[Isolated]) = 0
  <2> SUFFICES ASSUME \A i \in 1..d : ds[i].c # Isolated PROVE Len(gs[Isolated]) = 0
    BY Zenon
  <2>1. \A i \in 1..d : cs[i].c # Isolated
    BY Zenon DEF d
  <2>2. k.c # Isolated
    BY Zenon, <1>1, <2>1 DEF k
  <2>3. Len(gs[Isolated]) = Len(fs[Isolated])
    BY Zenon, <1>5, <2>2, MainAssumption
  <2> QED BY Zenon, <2>1, <2>3 DEF LevelsOf, d
<1> QED BY ZenonT(60), <1>6, <1>7, <1>8, <1>9, <1>10, <1>11, <1>12, <1>13 DEF LevelsOf
\* What a boundary owes for its poisoned writes goes on to hold while its call
\* and its frame stay, whatever else is poisoned.
LEMMA MarkCarried ==
  ASSUME NEW k, NEW l, NEW fs, NEW gs, NEW P, NEW Q, MarkOf(k, l, fs, P),
         k.kept \cap Q \subseteq P,
         Running(k) /\ fs[k.c][l].rollback_only => gs[k.c][l].rollback_only
  PROVE  MarkOf(k, l, gs, Q)
BY Zenon DEF MarkOf

\* The writes that are acknowledged to the top of the stack stay, or the write
\* that has just been answered joins them.
LEMMA KeptTop ==
  ASSUME NEW cs \in Seq(CallType), Len(cs) > 0, NEW P, NEW R, NEW w \in Nat, KeptOf(cs, R, P, w),
         NEW k \in CallType, NEW X \in SUBSET (1..w), k.kept = cs[Len(cs)].kept \cup X,
         X \cap (R \cup P) = {}, \A i \in 1..Len(cs) : X \cap cs[i].kept = {}
  PROVE  KeptOf([cs EXCEPT ![Len(cs)] = k], R, P, w)
<1> DEFINE d == Len(cs)
           ds == [cs EXCEPT ![d] = k]
<1>1. /\ d \in Nat /\ Len(ds) = d /\ d \in 1..d
      /\ \A i \in 1..d : ds[i] = IF i = d THEN k ELSE cs[i]
  OBVIOUS
<1>2. \A i \in 1..d : ds[i].kept = cs[i].kept \cup (IF i = d THEN X ELSE {})
  BY Zenon, <1>1
<1>3. \A i, j \in 1..d : i # j => cs[i].kept \cap cs[j].kept = {}
  BY Zenon DEF KeptOf
<1>4. \A i \in 1..d : cs[i].kept \cap R = {} /\ cs[i].kept \subseteq 1..w
  BY Zenon DEF KeptOf
<1>5. P \cap R = {} /\ P \subseteq 1..w /\ R \subseteq 1..w
  BY Zenon DEF KeptOf
<1> HIDE DEF ds, d
<1>6. \A i, j \in 1..d : i # j => ds[i].kept \cap ds[j].kept = {}
  <2> SUFFICES ASSUME NEW i \in 1..d, NEW j \in 1..d, i # j PROVE ds[i].kept \cap ds[j].kept = {}
    BY Zenon
  <2>1. cs[i].kept \cap cs[j].kept = {} /\ X \cap cs[i].kept = {} /\ X \cap cs[j].kept = {}
    BY Zenon, <1>3 DEF d
  <2> QED BY Zenon, <1>2, <2>1
<1>7. \A i \in 1..d : ds[i].kept \cap R = {} /\ ds[i].kept \subseteq 1..w
  BY ZenonT(60), <1>2, <1>4
<1> QED BY Zenon, <1>1, <1>5, <1>6, <1>7 DEF KeptOf, ds, d

\* The top call goes on in its body or from one statement of its boundary to
\* the next: what it keeps stays, or the write just answered joins it.
LEMMA SoundTop ==
  ASSUME NEW cs, NEW fs, NEW P, NEW R, NEW w, Sound(cs, fs, P, R, w), Len(cs) > 0,
         NEW k \in CallType, k.kind = cs[Len(cs)].kind, k.c = cs[Len(cs)].c,
         k.stage \in StagesOf(k.kind), k.kind = "iso" => k.stage # "inner",
         Running(k) <=> Running(cs[Len(cs)]),
         k.stage \in Opening => cs[Len(cs)].stage \in Opening,
         k.stage \in Closing => cs[Len(cs)].stage \in Closing /\ k.frame = cs[Len(cs)].frame,
         NEW X \in SUBSET (1..w), k.kept = cs[Len(cs)].kept \cup X, X # {} => Running(k),
         X \cap (R \cup P) = {}, \A i \in 1..Len(cs) : X \cap cs[i].kept = {}
  PROVE  Sound([cs EXCEPT ![Len(cs)] = k], fs, P, R, w)
<1> DEFINE d == Len(cs)
           ds == [cs EXCEPT ![d] = k]
<1>0. /\ cs \in Seq(CallType) /\ fs \in Heights /\ w \in Nat /\ StackOf(cs) /\ KeptOf(cs, R, P, w)
      /\ \E level \in [1..Len(cs) -> 0..Len(cs)] :
           LevelsOf(cs, fs, level) /\ MarksOf(cs, fs, P, level)
  BY Zenon DEF Sound
<1>1. /\ d \in Nat /\ Len(ds) = d /\ d \in 1..d /\ ds \in Seq(CallType)
      /\ \A i \in 1..d : ds[i] = IF i = d THEN k ELSE cs[i]
  BY <1>0
<1>2. StackOf(ds)
  BY Zenon, <1>0, StackTop
<1>3. KeptOf(ds, R, P, w)
  BY Zenon, <1>0, KeptTop
<1>4. PICK level \in [1..d -> 0..d] : LevelsOf(cs, fs, level) /\ MarksOf(cs, fs, P, level)
  BY Zenon, <1>0
<1> HIDE DEF ds, d
<1>5. \A i \in 1..d : /\ ds[i].kind = cs[i].kind /\ ds[i].c = cs[i].c
                      /\ Running(ds[i]) <=> Running(cs[i])
  BY Zenon, <1>1 DEF d
<1>6. LevelsOf(ds, fs, level)
  BY Zenon, <1>0, <1>1, <1>4, <1>5, LevelsTop DEF d
<1>7. MarkOf(k, level[d], fs, P)
  <2>1. MarkOf(cs[d], level[d], fs, P)
    BY Zenon, <1>1, <1>4 DEF MarksOf, d
  <2>2. k.kept \cap P = cs[d].kept \cap P
    BY Zenon DEF d
  <2>3. Running(k) => k.stage \notin Opening
    BY Zenon DEF Running, Opening
  <2>4. k.kind = "iso" \/ k.stage \in Opening => k.kept = {}
    <3>1. k.kind = "iso" => ~Running(k)
      BY Zenon DEF Running
    <3> QED BY Zenon, <2>1, <2>3, <3>1 DEF MarkOf, d
  <2> QED BY Zenon, <2>1, <2>2, <2>4 DEF MarkOf, d
<1>8. MarksOf(ds, fs, P, level)
  BY Zenon, <1>1, <1>4, <1>7 DEF MarksOf, d
<1> QED BY Zenon, <1>0, <1>1, <1>2, <1>3, <1>4, <1>6, <1>8 DEF Sound, ds, d

\* A call is pushed on cs, which gives ds; it keeps nothing yet.
Pushes(cs, ds) ==
  /\ ds \in Seq(CallType) /\ Len(ds) = Len(cs) + 1
  /\ \A i \in 1..Len(cs) : /\ ds[i].kind = cs[i].kind /\ ds[i].c = cs[i].c
                           /\ ds[i].stage = IF cs[i].kind = "iso" THEN "inner" ELSE "body"
                           /\ ds[i].kept = cs[i].kept
  /\ Len(cs) > 0 => cs[Len(cs)].kind = "iso" \/ Running(cs[Len(cs)])
  /\ Fits(ds[Len(cs) + 1], Len(cs) > 0, ds[Len(cs)])
  /\ ds[Len(cs) + 1].stage \in StagesOf(ds[Len(cs) + 1].kind) \ {"inner"}
  /\ ds[Len(cs) + 1].kind = "join" \/ ~Running(ds[Len(cs) + 1])
  /\ ds[Len(cs) + 1].kept = {}
  /\ Len(cs) > 0 /\ cs[Len(cs)].c = Isolated => ds[Len(cs) + 1].c = Isolated

\* The stack with the new call is sound.
LEMMA SoundPush ==
  ASSUME NEW cs, NEW fs, NEW P, NEW R, NEW w, Sound(cs, fs, P, R, w), NEW ds, Pushes(cs, ds)
  PROVE  Sound(ds, fs, P, R, w)
<1> USE DEF Pushes
<1> DEFINE d == Len(cs)
<1>0. /\ cs \in Seq(CallType) /\ fs \in Heights /\ w \in Nat /\ StackOf(cs) /\ KeptOf(cs, R, P, w)
      /\ \E level \in [1..Len(cs) -> 0..Len(cs)] :
           LevelsOf(cs, fs, level) /\ MarksOf(cs, fs, P, level)
  BY Zenon DEF Sound
<1>1. /\ d \in Nat /\ Len(ds) = d + 1
      /\ \A i \in 1..(d + 1) : i = d + 1 \/ i \in 1..d
  BY <1>0
<1>2. StackOf(ds)
  BY Zenon, <1>0, StackPush
<1>3. \A i \in 1..d : Running(ds[i]) <=> Running(cs[i])
  <2> SUFFICES ASSUME NEW i \in 1..d PROVE Running(ds[i]) <=> Running(cs[i])
    BY Zenon
  <2>1. CASE i = d
    BY <1>1, <2>1 DEF Running
  <2>2. CASE i < d
    <3>1. cs[i].stage \in StagesOf(cs[i].kind) /\ cs[i].stage \in {"body", "inner"}
      BY ZenonT(60), <1>0, <2>2 DEF StackOf
    <3>2. cs[i] \in CallType
      BY SMTT(30), <1>0
    <3>3. cs[i].kind \in {"root", "sp", "join", "iso"}
      BY Zenon, <3>2 DEF CallType
    <3> QED BY Zenon, <3>1, <3>3 DEF Running, StagesOf
  <2> QED BY <1>1, <2>1, <2>2
<1>4. PICK level \in [1..d -> 0..d] : LevelsOf(cs, fs, level) /\ MarksOf(cs, fs, P, level)
  BY Zenon, <1>0
<1>5. PICK up \in [1..Len(ds) -> 0..Len(ds)] :
        LevelsOf(ds, fs, up) /\ \A i \in 1..d : up[i] = level[i]
  <2>1. \A i \in 1..Len(cs) : /\ ds[i].kind = cs[i].kind /\ ds[i].c = cs[i].c
                              /\ Running(ds[i]) <=> Running(cs[i])
    BY Zenon, <1>3
  <2>2. Len(cs) > 0 /\ cs[Len(cs)].kind # "iso" => Running(cs[Len(cs)])
    BY Zenon
  <2>3. ds[Len(cs) + 1].kind = "join" \/ ~Running(ds[Len(cs) + 1])
    BY Zenon
  <2>4. level \in [1..Len(cs) -> 0..Len(cs)] /\ LevelsOf(cs, fs, level)
    BY Zenon, <1>4
  <2>6. ds \in Seq(CallType) /\ Len(ds) = Len(cs) + 1
    BY Zenon
  <2> HIDE DEF d, Pushes
  <2>5. \E up \in [1..Len(ds) -> 0..Len(ds)] :
          LevelsOf(ds, fs, up) /\ \A i \in 1..Len(cs) : up[i] = level[i]
    BY ZenonT(60), <1>0, <1>2, <2>1, <2>2, <2>3, <2>4, <2>6, LevelsPush
  <2> QED BY Zenon, <2>5 DEF d
<1>6. \A i \in 1..d : ds[i].stage \notin Opening \cup Closing
  BY Zenon DEF Opening, Closing
<1>7. \A i \in 1..d : ds[i].kept = cs[i].kept /\ ds[i].c = cs[i].c /\ ds[i].kind = cs[i].kind
  BY Zenon
<1>8. ds[d + 1].kept = {} /\ ds \in Seq(CallType)
  BY Zenon
<1> HIDE DEF d, Pushes
<1>9. MarksOf(ds, fs, P, up)
  <2> SUFFICES ASSUME NEW i \in 1..(d + 1) PROVE MarkOf(ds[i], up[i], fs, P)
    BY Zenon, <1>1 DEF MarksOf
  <2>1. CASE i = d + 1
    BY Zenon, <1>8, <2>1 DEF MarkOf
  <2>2. CASE i \in 1..d
    <3>1. MarkOf(cs[i], level[i], fs, P) /\ up[i] = level[i]
      BY Zenon, <1>4, <1>5, <2>2 DEF MarksOf, d
    <3> QED BY Zenon, <1>3, <1>6, <1>7, <2>2, <3>1 DEF MarkOf
  <2> QED BY Zenon, <1>1, <2>1, <2>2
<1>10. KeptOf(ds, R, P, w)
  <2>1. \A i, j \in 1..d : i # j => ds[i].kept \cap ds[j].kept = {}
    BY Zenon, <1>0, <1>7 DEF KeptOf, d
  <2>2. \A i \in 1..d : ds[i].kept \cap R = {} /\ ds[i].kept \subseteq 1..w
    BY Zenon, <1>0, <1>7 DEF KeptOf, d
  <2>3. \A i, j \in 1..(d + 1) : i # j => ds[i].kept \cap ds[j].kept = {}
    <3> SUFFICES ASSUME NEW i \in 1..(d + 1), NEW j \in 1..(d + 1), i # j
                 PROVE  ds[i].kept \cap ds[j].kept = {}
      BY Zenon
    <3>1. (i \in 1..d /\ j \in 1..d) \/ i = d + 1 \/ j = d + 1
      BY Zenon, <1>1
    <3> QED BY Zenon, <1>8, <2>1, <3>1
  <2>4. \A i \in 1..(d + 1) : ds[i].kept \cap R = {} /\ ds[i].kept \subseteq 1..w
    BY Zenon, <1>1, <1>8, <2>2
  <2> QED BY Zenon, <1>0, <1>1, <2>3, <2>4 DEF KeptOf
<1> QED BY Zenon, <1>0, <1>2, <1>5, <1>8, <1>9, <1>10 DEF Sound

\* The writes of a call that returns go to the call under it, or to the
\* promised ones, or are dropped; the ones of a joined call that throws are
\* poisoned.
LEMMA KeptPop ==
  ASSUME NEW cs \in Seq(CallType), NEW ds \in Seq(CallType), Len(cs) > 0, Len(ds) = Len(cs) - 1,
         NEW P, NEW R, NEW w \in Nat, KeptOf(cs, R, P, w), NEW Q, NEW S,
         \A i \in 1..Len(ds) : \/ ds[i].kept = cs[i].kept
                               \/ i = Len(ds) /\ ds[i].kept = cs[i].kept \cup cs[Len(cs)].kept,
         S = R \/ /\ S = R \cup cs[Len(cs)].kept /\ Q = P /\ cs[Len(cs)].kept \cap P = {}
                  /\ \A i \in 1..Len(ds) : ds[i].kept = cs[i].kept,
         Q = P \/ Q = P \cup cs[Len(cs)].kept
  PROVE  KeptOf(ds, S, Q, w)
<1> DEFINE d == Len(ds)
           K == cs[Len(cs)].kept
<1>0. d \in Nat /\ Len(cs) = d + 1
  OBVIOUS
<1>1. /\ d \in Nat /\ Len(cs) = d + 1 /\ \A i \in 1..d : i \in 1..(d + 1) /\ i # d + 1
      /\ d + 1 \in 1..(d + 1)
  <2> HIDE DEF d
  <2> QED BY <1>0
<1>2. \A i, j \in 1..(d + 1) : i # j => cs[i].kept \cap cs[j].kept = {}
  BY Zenon, <1>1 DEF KeptOf
<1>3. \A i \in 1..(d + 1) : cs[i].kept \cap R = {} /\ cs[i].kept \subseteq 1..w
  BY Zenon, <1>1 DEF KeptOf
<1>4. P \cap R = {} /\ P \subseteq 1..w /\ R \subseteq 1..w
  BY Zenon DEF KeptOf
<1>5. K \cap R = {} /\ K \subseteq 1..w /\ \A i \in 1..d : cs[i].kept \cap K = {}
  BY Zenon, <1>1, <1>2, <1>3
<1>6. \A i \in 1..d : ds[i].kept = cs[i].kept \/ (i = d /\ ds[i].kept = cs[i].kept \cup K)
  BY Zenon
<1>7. S = R \/ /\ S = R \cup K /\ Q = P /\ K \cap P = {}
               /\ \A i \in 1..d : ds[i].kept = cs[i].kept
  BY Zenon
<1>8. Q = P \/ Q = P \cup K
  BY Zenon
<1> HIDE DEF d, K
<1>9. \A i, j \in 1..d : i # j => ds[i].kept \cap ds[j].kept = {}
  <2> SUFFICES ASSUME NEW i \in 1..d, NEW j \in 1..d, i # j PROVE ds[i].kept \cap ds[j].kept = {}
    BY Zenon
  <2>1. cs[i].kept \cap cs[j].kept = {} /\ cs[i].kept \cap K = {} /\ cs[j].kept \cap K = {}
    BY Zenon, <1>1, <1>2, <1>5
  <2> QED BY Zenon, <1>6, <2>1
<1>10. \A i \in 1..d : ds[i].kept \cap S = {} /\ ds[i].kept \subseteq 1..w
  <2> SUFFICES ASSUME NEW i \in 1..d PROVE ds[i].kept \cap S = {} /\ ds[i].kept \subseteq 1..w
    BY Zenon
  <2>1. cs[i].kept \cap R = {} /\ cs[i].kept \subseteq 1..w /\ cs[i].kept \cap K = {}
    BY Zenon, <1>1, <1>3, <1>5
  <2> QED BY Zenon, <1>5, <1>6, <1>7, <2>1
<1>11. Q \cap S = {} /\ Q \subseteq 1..w /\ S \subseteq 1..w
  BY Zenon, <1>4, <1>5, <1>7, <1>8
<1> QED BY Zenon, <1>9, <1>10, <1>11 DEF KeptOf, d

\* The top call returns, with an exception if thrown, and leaves the stack ds; R
\* and P become S and Q.  It runs no body, unless it is a joined call; a
\* boundary that returns a value holds no poisoned write; a joined call that
\* throws has marked the frame of its boundary.
Pops(cs, ds, fs, P, Q, R, S, thrown, takes) ==
  /\ Len(cs) > 0 /\ ds \in Seq(CallType) /\ Len(ds) = Len(cs) - 1
  /\ thrown \in BOOLEAN /\ takes \in BOOLEAN
  /\ \A i \in 1..Len(ds) : /\ ds[i].kind = cs[i].kind /\ ds[i].c = cs[i].c
                           /\ ds[i].stage = IF cs[i].kind = "iso" /\ i = Len(ds)
                                            THEN "close" ELSE cs[i].stage
                           /\ ds[i].kept = IF takes /\ i = Len(ds)
                                           THEN cs[i].kept \cup cs[Len(cs)].kept
                                           ELSE cs[i].kept
  /\ takes => \/ cs[Len(cs)].kind = "join"
              \/ cs[Len(cs)].kind = "sp" /\ ~thrown
  /\ cs[Len(cs)].kind # "join" => ~Running(cs[Len(cs)])
  /\ cs[Len(cs)].kind \in {"root", "sp"} /\ ~thrown => cs[Len(cs)].kept \cap P = {}
  /\ cs[Len(cs)].kind = "join" /\ thrown =>
       fs[cs[Len(cs)].c][Len(fs[cs[Len(cs)].c])].rollback_only
  /\ \/ S = R
     \/ S = R \cup cs[Len(cs)].kept /\ cs[Len(cs)].kind = "root" /\ ~thrown
  /\ Q = P \cup (IF cs[Len(cs)].kind = "join" /\ thrown THEN cs[Len(cs)].kept ELSE {})

\* The stack that such a return leaves is sound.
LEMMA SoundPop ==
  ASSUME NEW cs, NEW fs, NEW P, NEW R, NEW w, Sound(cs, fs, P, R, w), NEW ds, NEW Q, NEW S,
         NEW thrown, NEW takes, Pops(cs, ds, fs, P, Q, R, S, thrown, takes)
  PROVE  Sound(ds, fs, Q, S, w)
<1> USE DEF Pops
<1> DEFINE d == Len(ds)
           e == Len(cs)
           k == cs[e]
<1>0. /\ cs \in Seq(CallType) /\ fs \in Heights /\ w \in Nat /\ StackOf(cs) /\ KeptOf(cs, R, P, w)
      /\ \E level \in [1..Len(cs) -> 0..Len(cs)] :
           LevelsOf(cs, fs, level) /\ MarksOf(cs, fs, P, level)
  BY Zenon DEF Sound
<1>1. d \in Nat /\ e = d + 1
  BY SMTT(30), <1>0
<1>2. e \in 1..e /\ \A i \in 1..d : i \in 1..e /\ i # e
  <2> HIDE DEF d, e
  <2> QED BY <1>1
<1>3. StackOf(ds)
  BY Zenon, <1>0, StackPop
<1>4. KeptOf(ds, S, Q, w)
  <2>1. \A i \in 1..Len(ds) : \/ ds[i].kept = cs[i].kept
                              \/ i = Len(ds) /\ ds[i].kept = cs[i].kept \cup cs[Len(cs)].kept
    BY Zenon
  <2>2. S = R \/ /\ S = R \cup cs[Len(cs)].kept /\ Q = P /\ cs[Len(cs)].kept \cap P = {}
                 /\ \A i \in 1..Len(ds) : ds[i].kept = cs[i].kept
    BY Zenon
  <2>3. Q = P \/ Q = P \cup cs[Len(cs)].kept
    BY Zenon
  <2>4. ds \in Seq(CallType) /\ Len(cs) > 0 /\ Len(ds) = Len(cs) - 1
    BY Zenon
  <2> HIDE DEF d, e, k, Pops
  <2> QED BY ZenonT(60), <1>0, <2>1, <2>2, <2>3, <2>4, KeptPop
<1>5. \A i \in 1..d : Running(ds[i]) <=> Running(cs[i])
  BY Zenon DEF Running
<1>6. PICK level \in [1..e -> 0..e] : LevelsOf(cs, fs, level) /\ MarksOf(cs, fs, P, level)
  BY Zenon, <1>0
<1>7. \E up \in [1..Len(ds) -> 0..Len(ds)] :
        LevelsOf(ds, fs, up) /\ \A i \in 1..Len(ds) : up[i] = level[i]
  <2>1. \A i \in 1..Len(ds) : /\ ds[i].kind = cs[i].kind /\ ds[i].c = cs[i].c
                              /\ Running(ds[i]) <=> Running(cs[i])
    BY Zenon, <1>5
  <2>2. cs[Len(cs)].kind \in {"root", "sp"} => ~Running(cs[Len(cs)])
    BY Zenon
  <2>3. level \in [1..Len(cs) -> 0..Len(cs)] /\ LevelsOf(cs, fs, level)
    BY Zenon, <1>6
  <2>4. ds \in Seq(CallType) /\ Len(cs) > 0 /\ Len(ds) = Len(cs) - 1
    BY Zenon
  <2> HIDE DEF d, e, k, Pops
  <2> QED BY ZenonT(60), <1>0, <1>3, <2>1, <2>2, <2>3, <2>4, LevelsPop
<1>8. PICK up \in [1..d -> 0..d] : LevelsOf(ds, fs, up) /\ \A i \in 1..d : up[i] = level[i]
  BY Zenon, <1>7
<1>9. \A i \in 1..e : MarkOf(cs[i], level[i], fs, P)
  BY Zenon, <1>6 DEF MarksOf
<1>10. \A i, j \in 1..e : i # j => cs[i].kept \cap cs[j].kept = {}
  BY Zenon, <1>0 DEF KeptOf
<1>11. /\ Q = P \cup (IF k.kind = "join" /\ thrown THEN k.kept ELSE {})
       /\ takes => k.kind = "join" \/ (k.kind = "sp" /\ ~thrown)
       /\ k.kind \in {"root", "sp"} /\ ~thrown => k.kept \cap P = {}
       /\ k.kind = "join" /\ thrown => fs[k.c][Len(fs[k.c])].rollback_only
  BY Zenon
<1>12. \A i \in 1..d : /\ ds[i].kind = cs[i].kind /\ ds[i].c = cs[i].c
                       /\ ds[i].stage = IF cs[i].kind = "iso" /\ i = d THEN "close" ELSE cs[i].stage
                       /\ ds[i].kept = IF takes /\ i = d THEN cs[i].kept \cup k.kept
                                       ELSE cs[i].kept
  BY ZenonT(60)
<1>13. \A i \in 1..d : cs[i].stage \in {"body", "inner"}
  BY <1>0, <1>1 DEF StackOf
<1>18. ds \in Seq(CallType)
  BY Zenon
<1> HIDE DEF d, e, k, Pops
<1>14. \A i \in 1..d : ds[i].stage \notin Opening \cup Closing
  BY ZenonT(60), <1>12, <1>13 DEF Opening, Closing
<1>15. ASSUME NEW i \in 1..d, ~(takes /\ i = d) PROVE MarkOf(ds[i], up[i], fs, Q)
  <2>1. MarkOf(cs[i], level[i], fs, P) /\ up[i] = level[i] /\ ds[i].kept = cs[i].kept
    BY Zenon, <1>2, <1>8, <1>9, <1>12, <1>15
  <2>2. cs[i].kept \cap k.kept = {}
    BY Zenon, <1>2, <1>10 DEF k
  <2>3. ds[i].kept \cap Q = cs[i].kept \cap P
    BY Zenon, <1>11, <2>1, <2>2
  <2>4. ds[i].kind = cs[i].kind /\ ds[i].c = cs[i].c /\ (Running(ds[i]) <=> Running(cs[i]))
    BY Zenon, <1>5, <1>12
  <2> QED BY Zenon, <1>14, <2>1, <2>3, <2>4 DEF MarkOf
<1>16. ASSUME takes, d > 0 PROVE MarkOf(ds[d], up[d], fs, Q)
  <2>1. d \in 1..d /\ e - 1 = d /\ e > 1
    BY <1>1, <1>16
  <2>2. k.kind \in {"join", "sp"} /\ Fits(k, e > 1, cs[e - 1])
    BY Zenon, <1>0, <1>2, <1>11, <1>16 DEF StackOf, k, e
  <2>3. cs[d].kind # "iso" /\ k.c = cs[d].c
    BY Zenon, <2>1, <2>2 DEF Fits
  <2>4. MarkOf(cs[d], level[d], fs, P) /\ MarkOf(k, level[e], fs, P) /\ up[d] = level[d]
    BY Zenon, <1>2, <1>8, <1>9, <2>1 DEF k
  <2>5. /\ ds[d].kept = cs[d].kept \cup k.kept /\ ds[d].c = cs[d].c /\ ds[d].kind = cs[d].kind
        /\ Running(ds[d]) <=> Running(cs[d])
    BY Zenon, <1>5, <1>12, <1>16, <2>1
  <2>6. CASE k.kind = "sp"
    <3>1. k.kept \cap P = {} /\ Q = P
      BY Zenon, <1>11, <1>16, <2>6
    <3>2. ds[d].kept \cap Q = cs[d].kept \cap P
      BY Zenon, <2>5, <3>1
    <3> QED BY Zenon, <1>14, <2>1, <2>3, <2>4, <2>5, <3>2 DEF MarkOf
  <2>7. CASE k.kind = "join"
    <3>1. /\ level[e] = LevelOf1(k, level[e - 1])
          /\ Len(fs[k.c]) = Height(k, level[e])
      <4>1. Len(cs) > 0
        BY <1>1, <2>1 DEF e
      <4>2. level \in [1..Len(cs) -> 0..Len(cs)] /\ LevelsOf(cs, fs, level)
        BY Zenon, <1>6 DEF e
      <4> QED BY Zenon, <1>0, <4>1, <4>2, TopLevel DEF k, e
    <3>2. level[e] = level[d]
      BY Zenon, <2>1, <2>7, <3>1 DEF LevelOf1
    <3>3. k.stage \in StagesOf(k.kind)
      BY Zenon, <1>0, <1>2 DEF StackOf, k, e
    <3>4. Running(k)
      BY Zenon, <2>7, <3>3 DEF Running, StagesOf
    <3>5. Len(fs[k.c]) = level[e]
      BY Zenon, <2>7, <3>1, <3>4 DEF Height
    <3>6. CASE thrown
      <4>1. fs[ds[d].c][up[d]].rollback_only
        BY Zenon, <1>11, <2>3, <2>4, <2>5, <2>7, <3>2, <3>5, <3>6
      <4> QED BY Zenon, <1>14, <2>1, <2>3, <2>5, <4>1 DEF MarkOf
    <3>7. CASE ~thrown
      <4>1. Q = P
        BY Zenon, <1>11, <3>7
      <4>2. ds[d].kept \cap Q # {} => cs[d].kept \cap P # {} \/ k.kept \cap P # {}
        BY Zenon, <2>5, <4>1
      <4>3. Running(ds[d]) /\ ds[d].kept \cap Q # {} => fs[ds[d].c][up[d]].rollback_only
        BY Zenon, <2>3, <2>4, <2>5, <3>2, <3>4, <4>2 DEF MarkOf
      <4> QED BY Zenon, <1>14, <2>1, <2>3, <2>5, <4>3 DEF MarkOf
    <3> QED BY Zenon, <3>6, <3>7
  <2> QED BY Zenon, <2>2, <2>6, <2>7
<1>17. MarksOf(ds, fs, Q, up)
  <2>1. \A i \in 1..d : i = d => d > 0
    BY <1>1
  <2> QED BY Zenon, <1>15, <1>16, <2>1 DEF MarksOf, d
<1> QED BY Zenon, <1>0, <1>3, <1>4, <1>8, <1>17, <1>18 DEF Sound, d

\* Frames get marks and lose none.
LEMMA SoundMark ==
  ASSUME NEW cs, NEW fs, NEW P, NEW R, NEW w, Sound(cs, fs, P, R, w), NEW gs \in Heights,
         \A c \in {Main, Isolated} :
           /\ Len(gs[c]) = Len(fs[c])
           /\ \A l \in 1..Len(fs[c]) : fs[c][l].rollback_only => gs[c][l].rollback_only
  PROVE  Sound(cs, gs, P, R, w)
<1>0. /\ cs \in Seq(CallType) /\ fs \in Heights /\ w \in Nat /\ StackOf(cs) /\ KeptOf(cs, R, P, w)
      /\ \E level \in [1..Len(cs) -> 0..Len(cs)] :
           LevelsOf(cs, fs, level) /\ MarksOf(cs, fs, P, level)
  BY Zenon DEF Sound
<1>1. PICK level \in [1..Len(cs) -> 0..Len(cs)] :
        LevelsOf(cs, fs, level) /\ MarksOf(cs, fs, P, level)
  BY Zenon, <1>0
<1>2. LevelsOf(cs, gs, level)
  BY Zenon, <1>0, <1>1, LevelsTop
<1>3. MarksOf(cs, gs, P, level)
  <2> SUFFICES ASSUME NEW i \in 1..Len(cs) PROVE MarkOf(cs[i], level[i], gs, P)
    BY Zenon DEF MarksOf
  <2>1. MarkOf(cs[i], level[i], fs, P) /\ (Running(cs[i]) => level[i] \in 1..Len(fs[cs[i].c]))
    BY Zenon, <1>1 DEF MarksOf, LevelsOf
  <2>2. cs[i] \in CallType
    BY <1>0
  <2>3. cs[i].c \in {Main, Isolated}
    BY Zenon, <2>2 DEF CallType
  <2>4. Running(cs[i]) /\ fs[cs[i].c][level[i]].rollback_only => gs[cs[i].c][level[i]].rollback_only
    BY Zenon, <2>1, <2>3
  <2> QED BY Zenon, <2>1, <2>4, MarkCarried
<1> QED BY Zenon, <1>0, <1>1, <1>2, <1>3 DEF Sound

\* BEGIN or SAVEPOINT is done: the frame goes on the stack and the body starts.
LEMMA SoundFrame ==
  ASSUME NEW cs, NEW fs, NEW P, NEW R, NEW w, Sound(cs, fs, P, R, w), Len(cs) > 0,
         cs[Len(cs)].stage \in Opening, NEW f \in FrameType, NEW k \in CallType,
         k.kind = cs[Len(cs)].kind, k.c = cs[Len(cs)].c, k.kept = cs[Len(cs)].kept,
         k.kind \in {"root", "sp"}, k.stage = "body"
  PROVE  Sound([cs EXCEPT ![Len(cs)] = k], [fs EXCEPT ![k.c] = Append(@, f)], P, R, w)
<1> DEFINE d == Len(cs)
           ds == [cs EXCEPT ![d] = k]
           gs == [fs EXCEPT ![k.c] = Append(@, f)]
<1>0. /\ cs \in Seq(CallType) /\ fs \in Heights /\ w \in Nat /\ StackOf(cs) /\ KeptOf(cs, R, P, w)
      /\ \E level \in [1..Len(cs) -> 0..Len(cs)] :
           LevelsOf(cs, fs, level) /\ MarksOf(cs, fs, P, level)
  BY Zenon DEF Sound
<1>1. /\ d \in Nat /\ Len(ds) = d /\ d \in 1..d /\ ds \in Seq(CallType)
      /\ \A i \in 1..d : ds[i] = IF i = d THEN k ELSE cs[i]
  BY <1>0
<1>2. k.c \in Conn /\ \A c \in Conn : fs[c] \in Seq(FrameType)
  BY Zenon, <1>0, MainAssumption DEF CallType, Heights
<1>3. \A c \in Conn : gs[c] = IF c = k.c THEN Append(fs[c], f) ELSE fs[c]
  BY Zenon, <1>0, <1>2 DEF Heights
<1>4. gs \in Heights
  <2>1. Append(fs[k.c], f) \in Seq(FrameType)
    BY <1>2
  <2> QED BY Zenon, <1>0, <2>1 DEF Heights
<1>a. \A s \in Seq(FrameType) : /\ Len(Append(s, f)) = Len(s) + 1
                                /\ \A l \in 1..Len(s) : Append(s, f)[l] = s[l]
  OBVIOUS
<1>5. \A c \in Conn : Len(gs[c]) = IF c = cs[Len(cs)].c THEN Len(fs[c]) + 1 ELSE Len(fs[c])
  <2> HIDE DEF gs, d
  <2> QED BY Zenon, <1>a, <1>2, <1>3
<1>6. \A c \in Conn : \A l \in 1..Len(fs[c]) : gs[c][l] = fs[c][l]
  <2> HIDE DEF gs, d
  <2>1. ASSUME NEW c \in Conn, NEW l \in 1..Len(fs[c]) PROVE gs[c][l] = fs[c][l]
    <3>1. CASE c = k.c
      <4>1. gs[c] = Append(fs[c], f) /\ fs[c] \in Seq(FrameType)
        BY Zenon, <1>2, <1>3, <3>1
      <4> QED BY Zenon, <1>a, <4>1
    <3>2. CASE c # k.c
      BY Zenon, <1>3, <3>2
    <3> QED BY Zenon, <3>1, <3>2
  <2> QED BY Zenon, <2>1
<1>7. StackOf(ds)
  BY Zenon, <1>0, StackTop DEF StagesOf
<1>8. KeptOf(ds, R, P, w)
  <2>1. \A i \in 1..d : ds[i].kept = cs[i].kept
    BY Zenon, <1>1
  <2> QED BY Zenon, <1>0, <1>1, <2>1 DEF KeptOf
<1>9. PICK level \in [1..d -> 0..d] : LevelsOf(cs, fs, level) /\ MarksOf(cs, fs, P, level)
  BY Zenon, <1>0
<1>10. Running(k) /\ ~Running(cs[d])
  BY Zenon DEF Running, Opening
<1>11. k.kind = cs[d].kind /\ k.c = cs[d].c /\ k.kept = cs[d].kept /\ cs[d].stage \in Opening
  BY Zenon
<1> HIDE DEF ds, d, gs
<1>12. \A i \in 1..d : /\ ds[i].kind = cs[i].kind /\ ds[i].c = cs[i].c
                       /\ i < d => (Running(ds[i]) <=> Running(cs[i]))
  BY <1>1, <1>11
<1>13. LevelsOf(ds, gs, level)
  <2>1. cs[Len(cs)].kind \in {"root", "sp"} /\ ~Running(cs[Len(cs)]) /\ Running(ds[Len(cs)])
    BY Zenon, <1>1, <1>10 DEF d
  <2>2. \A i \in 1..Len(cs) : /\ ds[i].kind = cs[i].kind /\ ds[i].c = cs[i].c
                              /\ i < Len(cs) => (Running(ds[i]) <=> Running(cs[i]))
    BY Zenon, <1>12 DEF d
  <2>3. level \in [1..Len(cs) -> 0..Len(cs)] /\ LevelsOf(cs, fs, level) /\ Len(ds) = Len(cs)
    BY Zenon, <1>1, <1>9 DEF d
  <2> QED BY ZenonT(120), <1>0, <1>1, <1>4, <1>5, <2>1, <2>2, <2>3, LevelsFrame
<1>14. MarksOf(ds, gs, P, level)
  <2> SUFFICES ASSUME NEW i \in 1..d PROVE MarkOf(ds[i], level[i], gs, P)
    BY Zenon, <1>1 DEF MarksOf
  <2>1. MarkOf(cs[i], level[i], fs, P) /\ (Running(cs[i]) => level[i] \in 1..Len(fs[cs[i].c]))
    BY Zenon, <1>9 DEF MarksOf, LevelsOf, d
  <2>2. CASE i = d
    <3>1. ds[i].kept = {}
      BY Zenon, <1>1, <1>11, <2>1, <2>2 DEF MarkOf
    <3> QED BY Zenon, <3>1 DEF MarkOf
  <2>3. CASE i # d
    <3>1. cs[i] \in CallType
      BY <1>0 DEF d
    <3>2. cs[i].c \in Conn
      BY Zenon, <3>1, MainAssumption DEF CallType
    <3>3. Running(cs[i]) => gs[cs[i].c][level[i]] = fs[cs[i].c][level[i]]
      BY Zenon, <1>6, <2>1, <3>2
    <3>4. MarkOf(cs[i], level[i], gs, P)
      BY Zenon, <2>1, <3>3, MarkCarried
    <3> QED BY ZenonT(60), <1>1, <2>3, <3>4
  <2> QED BY Zenon, <2>2, <2>3
<1> QED BY Zenon, <1>0, <1>1, <1>4, <1>7, <1>8, <1>9, <1>13, <1>14 DEF Sound, ds, d, gs

\* The body of a boundary ends: its frame, marked or as it was, leaves the stack
\* and stays with the call.
LEMMA SoundBody ==
  ASSUME NEW cs, NEW fs, NEW P, NEW R, NEW w, Sound(cs, fs, P, R, w), Len(cs) > 0,
         Running(cs[Len(cs)]), NEW k \in CallType,
         k.kind = cs[Len(cs)].kind, k.c = cs[Len(cs)].c, k.kept = cs[Len(cs)].kept,
         k.kind \in {"root", "sp"}, k.stage \in Closing, k.stage \in StagesOf(k.kind),
         NEW m \in Seq(FrameType), Len(m) = Len(fs[k.c]), k.frame = m[Len(m)],
         \A l \in 1..Len(m) : fs[k.c][l].rollback_only => m[l].rollback_only
  PROVE  Sound([cs EXCEPT ![Len(cs)] = k], [fs EXCEPT ![k.c] = SubSeq(m, 1, Len(m) - 1)], P, R, w)
<1> DEFINE d == Len(cs)
           ds == [cs EXCEPT ![d] = k]
           gs == [fs EXCEPT ![k.c] = SubSeq(m, 1, Len(m) - 1)]
<1>0. /\ cs \in Seq(CallType) /\ fs \in Heights /\ w \in Nat /\ StackOf(cs) /\ KeptOf(cs, R, P, w)
      /\ \E level \in [1..Len(cs) -> 0..Len(cs)] :
           LevelsOf(cs, fs, level) /\ MarksOf(cs, fs, P, level)
  BY ZenonT(60) DEF Sound
<1>1. /\ d \in Nat /\ Len(ds) = d /\ d \in 1..d /\ ds \in Seq(CallType)
      /\ \A i \in 1..d : ds[i] = IF i = d THEN k ELSE cs[i]
  BY <1>0
<1>2. k.c \in Conn /\ \A c \in Conn : fs[c] \in Seq(FrameType)
  BY Zenon, <1>0, MainAssumption DEF CallType, Heights
<1>3. PICK level \in [1..d -> 0..d] : LevelsOf(cs, fs, level) /\ MarksOf(cs, fs, P, level)
  BY Zenon, <1>0
<1>4. k.kind = cs[d].kind /\ k.c = cs[d].c /\ k.kept = cs[d].kept /\ Running(cs[d])
      /\ cs[d].kind # "iso"
  BY Zenon
<1>5. ~Running(k) /\ k.stage \notin Opening /\ k.kind # "iso"
  BY Zenon DEF Running, Closing, Opening
<1>6. level[d] = Len(m) /\ level[d] \in 1..Len(m)
  <2>1. Len(fs[k.c]) = Height(cs[d], level[d])
    BY Zenon, <1>0, <1>3, TopLevel
  <2>2. Len(fs[k.c]) = level[d]
    BY Zenon, <1>4, <2>1 DEF Height
  <2>3. level[d] \in 1..Len(fs[cs[d].c])
    BY Zenon, <1>1, <1>3, <1>4 DEF LevelsOf
  <2> QED BY Zenon, <2>2, <2>3
<1>7. \A c \in Conn : gs[c] = IF c = k.c THEN SubSeq(m, 1, Len(m) - 1) ELSE fs[c]
  BY ZenonT(60), <1>0, <1>2 DEF Heights
<1>8. /\ SubSeq(m, 1, Len(m) - 1) \in Seq(FrameType)
      /\ Len(SubSeq(m, 1, Len(m) - 1)) = Len(m) - 1
      /\ \A l \in 1..(Len(m) - 1) : SubSeq(m, 1, Len(m) - 1)[l] = m[l]
  BY <1>6
<1>9. gs \in Heights
  BY Zenon, <1>0, <1>8 DEF Heights
<1>10. \A c \in Conn : Len(gs[c]) = IF c = cs[Len(cs)].c THEN Len(fs[c]) - 1 ELSE Len(fs[c])
  <2> HIDE DEF gs
  <2> QED BY ZenonT(60), <1>2, <1>7, <1>8
<1>11. \A c \in Conn : \A l \in 1..Len(gs[c]) : fs[c][l].rollback_only => gs[c][l].rollback_only
  <2> HIDE DEF gs
  <2> SUFFICES ASSUME NEW c \in Conn, NEW l \in 1..Len(gs[c]), fs[c][l].rollback_only
               PROVE  gs[c][l].rollback_only
    BY Zenon
  <2>1. CASE c = k.c
    <3>0. gs[c] = SubSeq(m, 1, Len(m) - 1)
      BY Zenon, <1>7, <2>1
    <3>1. l \in 1..(Len(m) - 1) /\ l \in 1..Len(m)
      <4>1. Len(gs[c]) = Len(m) - 1
        BY Zenon, <1>8, <3>0
      <4>2. Len(m) \in Nat
        OBVIOUS
      <4> QED BY <4>1, <4>2
    <3>2. gs[c][l] = m[l]
      BY Zenon, <1>2, <1>7, <1>8, <2>1, <3>1
    <3> QED BY Zenon, <2>1, <3>1, <3>2
  <2>2. CASE c # k.c
    BY Zenon, <1>7, <2>2
  <2> QED BY Zenon, <2>1, <2>2
<1>12. StackOf(ds)
  <2>1. k.kind = "iso" => k.stage # "inner"
    BY Zenon
  <2> QED BY Zenon, <1>0, <2>1, StackTop
<1>13. KeptOf(ds, R, P, w)
  <2>1. \A i \in 1..d : ds[i].kept = cs[i].kept
    BY Zenon, <1>1
  <2> QED BY Zenon, <1>0, <1>1, <2>1 DEF KeptOf
<1>14. k.frame = m[Len(m)] /\ \A l \in 1..Len(m) : fs[k.c][l].rollback_only => m[l].rollback_only
  BY Zenon
<1> HIDE DEF ds, d, gs
<1>15. \A i \in 1..d : /\ ds[i].kind = cs[i].kind /\ ds[i].c = cs[i].c
                       /\ i < d => (Running(ds[i]) <=> Running(cs[i]))
  BY <1>1, <1>4
<1>16. LevelsOf(ds, gs, level)
  <2>1. cs[Len(cs)].kind \in {"root", "sp"} /\ Running(cs[Len(cs)]) /\ ~Running(ds[Len(cs)])
    BY Zenon, <1>1, <1>5 DEF d
  <2>2. \A i \in 1..Len(cs) : /\ ds[i].kind = cs[i].kind /\ ds[i].c = cs[i].c
                              /\ i < Len(cs) => (Running(ds[i]) <=> Running(cs[i]))
    BY Zenon, <1>15 DEF d
  <2>3. level \in [1..Len(cs) -> 0..Len(cs)] /\ LevelsOf(cs, fs, level) /\ Len(ds) = Len(cs)
    BY Zenon, <1>1, <1>3 DEF d
  <2> QED BY ZenonT(120), <1>0, <1>1, <1>9, <1>10, <2>1, <2>2, <2>3, LevelsBody
<1>17. MarksOf(ds, gs, P, level)
  <2> SUFFICES ASSUME NEW i \in 1..d PROVE MarkOf(ds[i], level[i], gs, P)
    BY Zenon, <1>1 DEF MarksOf
  <2>1. MarkOf(cs[i], level[i], fs, P) /\ (Running(ds[i]) => level[i] \in 1..Len(gs[ds[i].c]))
    BY Zenon, <1>1, <1>3, <1>16 DEF MarksOf, LevelsOf, d
  <2>2. CASE i = d
    <3>1. cs[d].kept \cap P # {} => fs[cs[d].c][level[d]].rollback_only
      BY Zenon, <1>4, <2>1, <2>2 DEF MarkOf
    <3>2. k.kept \cap P # {} => k.frame.rollback_only
      BY Zenon, <1>4, <1>6, <1>14, <3>1
    <3> QED BY Zenon, <1>1, <1>5, <2>2, <3>2 DEF MarkOf
  <2>3. CASE i # d
    <3>1. cs[i] \in CallType /\ ds[i] = cs[i]
      BY <1>0, <1>1, <2>3 DEF d
    <3>2. cs[i].c \in Conn
      BY Zenon, <3>1, MainAssumption DEF CallType
    <3>3. Running(cs[i]) /\ fs[cs[i].c][level[i]].rollback_only => gs[cs[i].c][level[i]].rollback_only
      BY Zenon, <1>11, <2>1, <3>1, <3>2
    <3> QED BY ZenonT(60), <2>1, <3>1, <3>3, MarkCarried
  <2> QED BY Zenon, <2>2, <2>3
<1> QED BY Zenon, <1>0, <1>1, <1>3, <1>9, <1>12, <1>13, <1>16, <1>17 DEF Sound, ds, d, gs
-----------------------------------------------------------------------------
(* The steps.                                                              *)

\* An operation in progress stays the operation it is until its result is
\* taken; nothing starts one on an idle connection.
LEMMA OperationsKept ==
  ASSUME op \in [Conn -> OperationType], driver \in Drivers, NEW c \in Conn, ConnStep(c)
  PROVE  /\ op' \in [Conn -> OperationType]
         /\ \A b \in Conn : op'[b].kind = op[b].kind /\ (op[b] = NoOp => op'[b] = NoOp)
<1>0. NoOp.kind = "none"
  BY Zenon DEF NoOp, Operation
<1>1. op[c] \in OperationType /\ NoStatement \in Statements
  BY Zenon DEF NoStatement, Statements
<1>2. ASSUME NEW o \in OperationType, op' = [op EXCEPT ![c] = o],
             o.kind = op[c].kind, op[c].kind # "none"
      PROVE  /\ op' \in [Conn -> OperationType]
             /\ \A b \in Conn : op'[b].kind = op[b].kind /\ (op[b] = NoOp => op'[b] = NoOp)
  <2> HIDE DEF OperationType
  <2>1. op' \in [Conn -> OperationType] /\ \A b \in Conn : op'[b] = IF b = c THEN o ELSE op[b]
    BY Zenon, <1>2
  <2> QED BY Zenon, <1>0, <1>2, <2>1
<1>3. ASSUME NEW res \in {"none", "ok", "err"}, Ended(c, res), op[c].kind # "none"
      PROVE  /\ op' \in [Conn -> OperationType]
             /\ \A b \in Conn : op'[b].kind = op[b].kind /\ (op[b] = NoOp => op'[b] = NoOp)
  <2> DEFINE o == Operation(op[c].kind, "done", NoStatement, FALSE, res)
  <2>1. o \in OperationType /\ o.kind = op[c].kind
    BY Zenon, <1>1 DEF Operation, OperationType
  <2>2. op' = [op EXCEPT ![c] = o]
    BY Zenon, <1>3 DEF Ended
  <2> HIDE DEF o
  <2> QED BY Zenon, <1>2, <1>3, <2>1, <2>2
<1>4. ASSUME op' = [op EXCEPT ![c].late = TRUE], op[c].kind # "none"
      PROVE  /\ op' \in [Conn -> OperationType]
             /\ \A b \in Conn : op'[b].kind = op[b].kind /\ (op[b] = NoOp => op'[b] = NoOp)
  <2> DEFINE o == [op[c] EXCEPT !.late = TRUE]
  <2>1. o \in OperationType /\ o.kind = op[c].kind
    BY Zenon, <1>1 DEF OperationType
  <2>2. op' = [op EXCEPT ![c] = o]
    BY Zenon, <1>4
  <2> HIDE DEF o
  <2> QED BY Zenon, <1>2, <1>4, <2>1, <2>2
<1>5. ASSUME op' = [op EXCEPT ![c].hit = TRUE], op[c].kind # "none"
      PROVE  /\ op' \in [Conn -> OperationType]
             /\ \A b \in Conn : op'[b].kind = op[b].kind /\ (op[b] = NoOp => op'[b] = NoOp)
  <2> DEFINE o == [op[c] EXCEPT !.hit = TRUE]
  <2>1. o \in OperationType /\ o.kind = op[c].kind
    BY Zenon, <1>1 DEF OperationType
  <2>2. op' = [op EXCEPT ![c] = o]
    BY Zenon, <1>5
  <2> HIDE DEF o
  <2> QED BY Zenon, <1>2, <1>5, <2>1, <2>2
<1>6. ASSUME NEW res \in {"ok", "err"}, op' = [op EXCEPT ![c].phase = "ran", ![c].res = res],
             op[c].kind # "none"
      PROVE  /\ op' \in [Conn -> OperationType]
             /\ \A b \in Conn : op'[b].kind = op[b].kind /\ (op[b] = NoOp => op'[b] = NoOp)
  <2> DEFINE o == [op[c] EXCEPT !.phase = "ran", !.res = res]
  <2>1. o \in OperationType /\ o.kind = op[c].kind
    BY Zenon, <1>1 DEF OperationType
  <2>2. op' = [op EXCEPT ![c] = o]
    BY Zenon, <1>6
  <2> HIDE DEF o
  <2> QED BY Zenon, <1>2, <1>6, <2>1, <2>2
<1>7. op[c].res \in {"none", "ok", "err"}
  BY Zenon, <1>1 DEF OperationType
<1>8. CASE op' = op
  BY Zenon, <1>8
<1>9. CASE OpenDone(c) \/ OpenFails(c) \/ OpenTimeout(c)
  BY Zenon, <1>3, <1>4, <1>9 DEF OpenDone, OpenFails, OpenTimeout
<1>10. CASE ServerRuns(c) \/ ServerFails(c)
  <2>1. op[c].kind # "none"
    BY Zenon, <1>10 DEF ServerRuns, ServerFails, Querying
  <2>2. \E res \in {"ok", "err"} : op' = [op EXCEPT ![c].phase = "ran", ![c].res = res]
    BY Zenon, <1>10 DEF ServerRuns, ServerFails
  <2> QED BY Zenon, <1>6, <2>1, <2>2
<1>11. CASE Answer(c) \/ QueryTimeout(c)
  BY Zenon, <1>3, <1>4, <1>7, <1>11 DEF Answer, QueryTimeout
<1>12. CASE StrayRuns(c) \/ SignalLands(c)
  BY Zenon, <1>5, <1>8, <1>12 DEF StrayRuns, SignalLands, Querying
<1>13. CASE CancelTask(c)
  <2>1. driver \in {"sqlite", "postgres", "mysql"} =>
          op' = op \/ (Querying(c) /\ op' = [op EXCEPT ![c].hit = TRUE])
    BY Zenon, <1>13 DEF CancelTask
  <2> QED BY Zenon, <1>5, <1>8, <2>1, DriversAssumption DEF Querying
<1> QED BY Zenon, <1>9, <1>10, <1>11, <1>12, <1>13 DEF ConnStep

\* The connection in use is a connection; a stack that is not empty has a top.
LEMMA HereFacts ==
  ASSUME NEW cs \in Seq(CallType)
  PROVE  /\ Len(cs) \in Nat
         /\ Len(cs) > 0 => cs[Len(cs)] \in CallType /\ cs[Len(cs)].c \in {Main, Isolated}
         /\ cs # <<>> => Len(cs) > 0
         /\ {Main, Isolated} \subseteq Conn
<1>1. Len(cs) \in Nat /\ (Len(cs) > 0 => cs[Len(cs)] \in CallType) /\ (cs # <<>> => Len(cs) > 0)
  OBVIOUS
<1> QED BY Zenon, <1>1, MainAssumption DEF CallType

\* While every connection is idle no write is in progress.
LEMMA IdleIsFine ==
  ASSUME calls' \in Seq(CallType), \A c \in Conn : op'[c] = NoOp
  PROVE  BusyInv'
<1>1. Here' \in Conn
  BY HereFacts DEF Here, Depth, Top
<1>2. NoOp.kind = "none"
  BY Zenon DEF NoOp, Operation
<1>3. op'[Here'].kind # "query"
  BY Zenon, <1>1, <1>2
<1> QED BY Zenon, <1>3 DEF BusyInv

\* The result of the operation on the connection in use is taken: every
\* connection is idle.
LEMMA TakenIsIdle ==
  ASSUME op \in [Conn -> OperationType], BusyInv, op' = [op EXCEPT ![Here] = NoOp]
  PROVE  op' \in [Conn -> OperationType] /\ \A c \in Conn : op'[c] = NoOp
<1>1. NoOp \in OperationType
  BY Zenon DEF NoOp, Operation, OperationType, NoStatement, Statements
<1> HIDE DEF OperationType
<1>2. \A c \in Conn : op'[c] = IF c = Here THEN NoOp ELSE op[c]
  BY Zenon
<1> QED BY Zenon, <1>1, <1>2 DEF BusyInv

\* The caller of a tx() that returns: its connection and its boundary stay.
LEMMA ResumedFacts ==
  ASSUME NEW p \in CallType, NEW k \in CallType, NEW exc \in {"none", "app", "sql"}
  PROVE  /\ Resumed(p, k, exc) \in CallType
         /\ Resumed(p, k, exc).kind = p.kind /\ Resumed(p, k, exc).c = p.c
         /\ Resumed(p, k, exc).stage = IF p.kind = "iso" THEN "close" ELSE p.stage
         /\ Resumed(p, k, exc).kept =
              IF p.kind # "iso" /\ (k.kind = "join" \/ (k.kind = "sp" /\ exc = "none"))
              THEN p.kept \cup k.kept ELSE p.kept
<1>1. /\ p.kept \in SUBSET Nat /\ k.kept \in SUBSET Nat /\ p.tried \in SUBSET Nat
      /\ k.tried \in SUBSET Nat /\ p.swallowed \in BOOLEAN /\ k.swallowed \in BOOLEAN
  BY Zenon DEF CallType
<1>2. (IF p.kind = "iso" THEN "close" ELSE p.stage)
        \in Opening \cup Closing \cup {"body", "open", "inner", "close"}
  BY Zenon DEF CallType
<1> DEFINE merges == p.kind # "iso" /\ k.kind \in {"join", "sp"}
           stage == IF p.kind = "iso" THEN "close" ELSE p.stage
           swallowed == p.swallowed \/ (merges /\ k.swallowed)
           kept == IF merges /\ (k.kind = "join" \/ exc = "none") THEN p.kept \cup k.kept ELSE p.kept
           tried == IF merges THEN p.tried \cup k.tried ELSE p.tried
<1>3. Resumed(p, k, exc) = [p EXCEPT !.exc = exc, !.stage = stage, !.swallowed = swallowed,
                                     !.kept = kept, !.tried = tried]
  BY Zenon DEF Resumed
<1>4. swallowed \in BOOLEAN /\ kept \in SUBSET Nat /\ tried \in SUBSET Nat
  BY Zenon, <1>1
<1>5. kept = IF p.kind # "iso" /\ (k.kind = "join" \/ (k.kind = "sp" /\ exc = "none"))
             THEN p.kept \cup k.kept ELSE p.kept
  BY Zenon
<1>6. stage \in Opening \cup Closing \cup {"body", "open", "inner", "close"}
  BY Zenon, <1>2
<1> HIDE DEF stage, swallowed, kept, tried
<1>7. Resumed(p, k, exc) \in CallType
  BY ZenonT(40), <1>3, <1>4, <1>6 DEF CallType
<1>8. /\ Resumed(p, k, exc).kind = p.kind /\ Resumed(p, k, exc).c = p.c
      /\ Resumed(p, k, exc).stage = stage /\ Resumed(p, k, exc).kept = kept
  BY Zenon, <1>3 DEF CallType
<1> QED BY Zenon, <1>5, <1>7, <1>8 DEF stage

\* Prefixes and one more element, for the stack of calls.
LEMMA StackFacts ==
  ASSUME NEW T, NEW s \in Seq(T)
  PROVE  /\ \A n \in 0..Len(s) : /\ SubSeq(s, 1, n) \in Seq(T) /\ Len(SubSeq(s, 1, n)) = n
                                 /\ \A i \in 1..n : SubSeq(s, 1, n)[i] = s[i]
         /\ \A e \in T : /\ Append(s, e) \in Seq(T) /\ Len(Append(s, e)) = Len(s) + 1
                         /\ Append(s, e)[Len(s) + 1] = e
                         /\ \A i \in 1..Len(s) : Append(s, e)[i] = s[i]
OBVIOUS

\* The call k may return with exc: it runs no body, unless it is a joined call;
\* a boundary that returns a value holds no poisoned write; a joined call that
\* throws has marked the frame of its boundary.
MayReturn(k, fs, P, exc) ==
  /\ k.kind # "join" => ~Running(k)
  /\ k.kind \in {"root", "sp"} /\ exc = "none" => k.kept \cap P = {}
  /\ k.kind = "join" /\ exc # "none" => fs[k.c][Len(fs[k.c])].rollback_only

\* tx() returns: the stack under it, the promised and the poisoned writes.
LEMMA ReturnsSound ==
  ASSUME NEW fs, Sound(calls, fs, poisoned, promised, writes), Depth > 0,
         NEW exc \in {"none", "app", "sql"}, Returns(Top, exc), MayReturn(Top, fs, poisoned, exc)
  PROVE  Sound(calls', fs, poisoned', promised', writes)
<1> DEFINE d == Len(calls)
           k == calls[d]
           ds == calls'
           takes == k.kind = "join" \/ (k.kind = "sp" /\ exc = "none")
<1>1. calls \in Seq(CallType) /\ d \in Nat /\ d > 0 /\ k \in CallType /\ StackOf(calls)
  BY Zenon, HereFacts DEF Sound, Depth
<1>2. /\ ds = IF d = 1 THEN <<>>
              ELSE Append(SubSeq(calls, 1, d - 2), Resumed(calls[d - 1], k, exc))
      /\ promised' = promised \cup
           (IF k.kind = "root" /\ exc = "none" /\ ~k.swallowed THEN k.kept ELSE {})
      /\ poisoned' = poisoned \cup (IF k.kind = "join" /\ exc # "none" THEN k.kept ELSE {})
  BY Zenon DEF Returns, Depth, Top
<1> HIDE DEF d
<1>3. d > 1 => /\ d - 1 \in 1..d /\ calls[d - 1] \in CallType /\ d - 2 \in Nat
               /\ Resumed(calls[d - 1], k, exc) \in CallType
               /\ SubSeq(calls, 1, d - 2) \in Seq(CallType)
               /\ Len(SubSeq(calls, 1, d - 2)) = d - 2
               /\ \A i \in 1..(d - 2) : SubSeq(calls, 1, d - 2)[i] = calls[i]
  <2> SUFFICES ASSUME d > 1
               PROVE  /\ d - 1 \in 1..d /\ calls[d - 1] \in CallType /\ d - 2 \in Nat
                      /\ Resumed(calls[d - 1], k, exc) \in CallType
                      /\ SubSeq(calls, 1, d - 2) \in Seq(CallType)
                      /\ Len(SubSeq(calls, 1, d - 2)) = d - 2
                      /\ \A i \in 1..(d - 2) : SubSeq(calls, 1, d - 2)[i] = calls[i]
    BY Zenon
  <2>1. d - 1 \in 1..d /\ d - 2 \in Nat
    BY <1>1
  <2>2. calls[d - 1] \in CallType
    BY <1>1, <2>1 DEF d
  <2>3. /\ SubSeq(calls, 1, d - 2) \in Seq(CallType)
        /\ Len(SubSeq(calls, 1, d - 2)) = d - 2
        /\ \A i \in 1..(d - 2) : SubSeq(calls, 1, d - 2)[i] = calls[i]
    <3>1. d - 2 \in 0..Len(calls)
      BY SMTT(30), <1>1, <2>1 DEF d
    <3> HIDE DEF k
    <3> QED BY <1>1, <3>1, StackFacts
  <2> QED BY Zenon, <1>1, <2>1, <2>2, <2>3, ResumedFacts
<1>4. /\ ds \in Seq(CallType) /\ Len(ds) = d - 1
      /\ \A i \in 1..(d - 1) : ds[i] = IF i = d - 1 THEN Resumed(calls[d - 1], k, exc) ELSE calls[i]
  <2> HIDE DEF ds, k
  <2>1. CASE d = 1
    BY <1>2, <2>1
  <2>2. CASE d > 1
    <3> DEFINE s == SubSeq(calls, 1, d - 2)
               e == Resumed(calls[d - 1], k, exc)
    <3>1. ds = Append(s, e) /\ s \in Seq(CallType) /\ e \in CallType /\ Len(s) = d - 2
          /\ \A i \in 1..(d - 2) : s[i] = calls[i]
      BY SMTT(30), <1>2, <1>3, <2>2
    <3> HIDE DEF s, e
    <3>2. ds \in Seq(CallType) /\ Len(ds) = Len(s) + 1 /\ ds[Len(s) + 1] = e
          /\ \A i \in 1..Len(s) : ds[i] = s[i]
      BY <3>1, StackFacts
    <3>3. d - 2 + 1 = d - 1 /\ \A i \in 1..(d - 1) : i # d - 1 => i \in 1..(d - 2)
      BY <1>1
    <3> QED BY ZenonT(60), <3>1, <3>2, <3>3 DEF e
  <2> QED BY SMTT(30), <1>1, <2>1, <2>2
<1>5. \A i \in 1..(d - 1) : takes /\ i = d - 1 => calls[i].kind # "iso"
  <2> SUFFICES ASSUME NEW i \in 1..(d - 1), takes, i = d - 1 PROVE calls[i].kind # "iso"
    BY Zenon
  <2>1. d \in 1..d /\ d > 1
    BY <1>1
  <2>2. Fits(k, d > 1, calls[d - 1])
    BY Zenon, <1>1, <2>1 DEF StackOf, d
  <2> QED BY Zenon, <2>1, <2>2 DEF Fits
<1>6. \A i \in 1..(d - 1) :
        /\ ds[i].kind = calls[i].kind /\ ds[i].c = calls[i].c
        /\ ds[i].stage = IF calls[i].kind = "iso" /\ i = d - 1 THEN "close" ELSE calls[i].stage
        /\ ds[i].kept = IF takes /\ i = d - 1 THEN calls[i].kept \cup k.kept ELSE calls[i].kept
  <2> SUFFICES ASSUME NEW i \in 1..(d - 1)
               PROVE  /\ ds[i].kind = calls[i].kind /\ ds[i].c = calls[i].c
                      /\ ds[i].stage = IF calls[i].kind = "iso" /\ i = d - 1 THEN "close"
                                       ELSE calls[i].stage
                      /\ ds[i].kept = IF takes /\ i = d - 1 THEN calls[i].kept \cup k.kept
                                      ELSE calls[i].kept
    BY Zenon
  <2>1. CASE i # d - 1
    BY Zenon, <1>4, <2>1
  <2>2. CASE i = d - 1
    <3>1. d > 1
      BY <1>1, <2>2
    <3>2. ds[i] = Resumed(calls[i], k, exc) /\ calls[i] \in CallType
      BY Zenon, <1>3, <1>4, <2>2, <3>1
    <3>3. takes => calls[i].kind # "iso"
      BY Zenon, <1>5, <2>2
    <3>4. /\ ds[i].kind = calls[i].kind /\ ds[i].c = calls[i].c
          /\ ds[i].stage = IF calls[i].kind = "iso" THEN "close" ELSE calls[i].stage
          /\ ds[i].kept = IF calls[i].kind # "iso" /\ takes THEN calls[i].kept \cup k.kept
                          ELSE calls[i].kept
      <4> DEFINE p == calls[i]
                 r == Resumed(p, k, exc)
      <4>1. p \in CallType /\ k \in CallType /\ ds[i] = r
        BY Zenon, <1>1, <3>2
      <4> HIDE DEF p, k, ds
      <4>2. /\ r \in CallType /\ r.kind = p.kind /\ r.c = p.c
            /\ r.stage = IF p.kind = "iso" THEN "close" ELSE p.stage
            /\ r.kept = IF p.kind # "iso" /\ (k.kind = "join" \/ (k.kind = "sp" /\ exc = "none"))
                        THEN p.kept \cup k.kept ELSE p.kept
        BY <4>1, ResumedFacts
      <4> HIDE DEF r
      <4> QED BY Zenon, <4>1, <4>2 DEF p
    <3> HIDE DEF ds, k, takes
    <3> QED BY Zenon, <2>2, <3>3, <3>4
  <2> QED BY Zenon, <2>1, <2>2
<1> DEFINE thrown == exc # "none"
<1>7. /\ takes \in BOOLEAN /\ thrown \in BOOLEAN
      /\ takes => k.kind = "join" \/ (k.kind = "sp" /\ ~thrown)
      /\ k.kind # "join" => ~Running(k)
      /\ k.kind \in {"root", "sp"} /\ ~thrown => k.kept \cap poisoned = {}
      /\ k.kind = "join" /\ thrown => fs[k.c][Len(fs[k.c])].rollback_only
      /\ promised' = promised \/ (promised' = promised \cup k.kept /\ k.kind = "root" /\ ~thrown)
      /\ poisoned' = poisoned \cup (IF k.kind = "join" /\ thrown THEN k.kept ELSE {})
  BY Zenon, <1>2 DEF MayReturn, Top, Depth, d
<1>8. calls' \in Seq(CallType) /\ Len(calls') = Len(calls) - 1
  BY Zenon, <1>4 DEF d
<1>9. \A i \in 1..Len(calls') :
        /\ calls'[i].kind = calls[i].kind /\ calls'[i].c = calls[i].c
        /\ calls'[i].stage = IF calls[i].kind = "iso" /\ i = Len(calls') THEN "close"
                             ELSE calls[i].stage
        /\ calls'[i].kept = IF takes /\ i = Len(calls')
                            THEN calls[i].kept \cup calls[Len(calls)].kept ELSE calls[i].kept
  <2> HIDE DEF takes
  <2> QED BY Zenon, <1>4, <1>6 DEF d
<1> HIDE DEF takes, thrown, ds
<1>10. Pops(calls, calls', fs, poisoned, poisoned', promised, promised', thrown, takes)
  BY Zenon, <1>1, <1>7, <1>8, <1>9 DEF Pops, d, k
<1> QED BY Zenon, <1>10, SoundPop

\* The top call goes on: from one statement of its boundary to the next, or in
\* its body.
GoesOn(k, top) ==
  /\ k.kind = top.kind /\ k.c = top.c /\ k.kept = top.kept
  /\ k.stage \in StagesOf(k.kind) /\ (k.kind = "iso" => k.stage # "inner")
  /\ Running(k) <=> Running(top)
  /\ k.stage \in Opening => top.stage \in Opening
  /\ k.stage \in Closing => top.stage \in Closing /\ k.frame = top.frame

\* Such a step keeps the stack sound.
LEMMA SoundGoesOn ==
  ASSUME NEW cs, NEW fs, NEW P, NEW R, NEW w, Sound(cs, fs, P, R, w), Len(cs) > 0,
         NEW k \in CallType, GoesOn(k, cs[Len(cs)])
  PROVE  Sound([cs EXCEPT ![Len(cs)] = k], fs, P, R, w)
<1> DEFINE X == {}
<1>1. /\ X \in SUBSET (1..w) /\ k.kept = cs[Len(cs)].kept \cup X /\ (X # {} => Running(k))
      /\ X \cap (R \cup P) = {} /\ \A i \in 1..Len(cs) : X \cap cs[i].kept = {}
  BY Zenon DEF GoesOn
<1> HIDE DEF X
<1> QED BY ZenonT(60), <1>1, SoundTop DEF GoesOn

\* What a sound stack says of its top and of the frames under it.
LEMMA SoundFacts ==
  ASSUME NEW cs, NEW fs, NEW P, NEW R, NEW w, Sound(cs, fs, P, R, w)
  PROVE  /\ cs \in Seq(CallType) /\ fs \in Heights /\ w \in Nat /\ Len(cs) \in Nat
         /\ P \subseteq 1..w /\ R \subseteq 1..w /\ P \cap R = {}
         /\ Len(cs) = 0 => Len(fs[Main]) = 0
         /\ \A i \in 1..Len(cs) : i < Len(cs) =>
              cs[i].stage = IF cs[i].kind = "iso" THEN "inner" ELSE "body"
         /\ Len(cs) > 0 =>
              LET k == cs[Len(cs)]
              IN  /\ k \in CallType /\ k.c \in {Main, Isolated} /\ k.stage \in StagesOf(k.kind)
                  /\ k.kind \in {"root", "sp", "join", "iso"}
                  /\ k.kind = "iso" => k.c = Isolated /\ Len(fs[Isolated]) = 0 /\ k.kept = {}
                  /\ Running(k) => Len(fs[k.c]) > 0
                  /\ k.stage \in Closing /\ k.kept \cap P # {} => k.frame.rollback_only
<1>0. /\ cs \in Seq(CallType) /\ fs \in Heights /\ w \in Nat /\ StackOf(cs) /\ KeptOf(cs, R, P, w)
      /\ \E level \in [1..Len(cs) -> 0..Len(cs)] :
           LevelsOf(cs, fs, level) /\ MarksOf(cs, fs, P, level)
  BY Zenon DEF Sound
<1>1. P \subseteq 1..w /\ R \subseteq 1..w /\ P \cap R = {} /\ Len(cs) \in Nat
  BY <1>0 DEF KeptOf
<1>2. PICK level \in [1..Len(cs) -> 0..Len(cs)] :
        LevelsOf(cs, fs, level) /\ MarksOf(cs, fs, P, level)
  BY Zenon, <1>0
<1>3. Len(cs) = 0 => Len(fs[Main]) = 0
  <2>1. Len(cs) = 0 => cs = <<>>
    BY <1>0
  <2> QED BY Zenon, <1>2, <2>1 DEF LevelsOf
<1>4. ASSUME NEW i \in 1..Len(cs), i < Len(cs)
      PROVE  cs[i].stage = IF cs[i].kind = "iso" THEN "inner" ELSE "body"
  <2>1. cs[i].stage \in {"body", "inner"} /\ cs[i].stage \in StagesOf(cs[i].kind)
    BY Zenon, <1>0, <1>4 DEF StackOf
  <2>2. cs[i] \in CallType
    BY <1>0
  <2>3. cs[i].kind \in {"root", "sp", "join", "iso"}
    BY Zenon, <2>2 DEF CallType
  <2> QED BY Zenon, <2>1, <2>3 DEF StagesOf
<1>5. ASSUME Len(cs) > 0
      PROVE  LET k == cs[Len(cs)]
             IN  /\ k \in CallType /\ k.c \in {Main, Isolated} /\ k.stage \in StagesOf(k.kind)
                 /\ k.kind \in {"root", "sp", "join", "iso"}
                 /\ k.kind = "iso" => k.c = Isolated /\ Len(fs[Isolated]) = 0 /\ k.kept = {}
                 /\ Running(k) => Len(fs[k.c]) > 0
                 /\ k.stage \in Closing /\ k.kept \cap P # {} => k.frame.rollback_only
  <2> DEFINE d == Len(cs)
             k == cs[d]
  <2>1. d \in 1..d /\ d \in Nat /\ k \in CallType
    BY <1>0, <1>5
  <2>2. k.c \in {Main, Isolated} /\ k.kind \in {"root", "sp", "join", "iso"}
    <3> HIDE DEF k
    <3> QED BY Zenon, <2>1 DEF CallType
  <2>3. Fits(k, d > 1, cs[d - 1]) /\ k.stage \in StagesOf(k.kind)
    BY Zenon, <1>0, <2>1 DEF StackOf
  <2>4. MarkOf(k, level[d], fs, P)
    BY Zenon, <1>2, <2>1 DEF MarksOf
  <2>5. Len(fs[k.c]) = Height(k, level[d]) /\ (Running(k) => level[d] \in 1..Len(fs[k.c]))
    BY Zenon, <1>2, <2>1 DEF LevelsOf
  <2>6. Len(fs[k.c]) \in Nat
    <3>1. k.c \in Conn
      BY Zenon, <2>2, MainAssumption
    <3>2. fs[k.c] \in Seq(FrameType)
      BY Zenon, <1>0, <3>1 DEF Heights
    <3> QED BY <3>2
  <2> HIDE DEF d, k
  <2>7. k.kind = "iso" => k.c = Isolated
    BY Zenon, <2>3 DEF Fits
  <2>8. k.kind = "iso" => Len(fs[Isolated]) = 0 /\ k.kept = {}
    BY Zenon, <2>4, <2>5, <2>7 DEF Height, MarkOf, Running
  <2>9. Running(k) => Len(fs[k.c]) > 0
    BY <2>5, <2>6
  <2>10. k.stage \in Closing /\ k.kept \cap P # {} => k.frame.rollback_only
    BY Zenon, <2>4 DEF MarkOf
  <2> QED BY Zenon, <2>1, <2>2, <2>3, <2>7, <2>8, <2>9, <2>10 DEF d, k
<1> QED BY Zenon, <1>0, <1>1, <1>3, <1>4, <1>5

\* The call k starts above below, which is the stack cs with its top waiting.
LEMMA SoundCall ==
  ASSUME NEW cs, NEW fs, NEW P, NEW R, NEW w, Sound(cs, fs, P, R, w), NEW below \in Seq(CallType),
         Len(below) = Len(cs),
         \A i \in 1..Len(cs) : /\ below[i].kind = cs[i].kind /\ below[i].c = cs[i].c
                               /\ below[i].kept = cs[i].kept
                               /\ below[i].stage = IF cs[i].kind = "iso" THEN "inner" ELSE "body",
         Len(cs) > 0 => cs[Len(cs)].kind = "iso" \/ Running(cs[Len(cs)]),
         NEW k \in CallType, Fits(k, Len(cs) > 0, cs[Len(cs)]),
         k.stage \in StagesOf(k.kind) \ {"inner"}, k.kind = "join" \/ ~Running(k), k.kept = {},
         Len(cs) > 0 /\ cs[Len(cs)].c = Isolated => k.c = Isolated
  PROVE  Sound(Append(below, k), fs, P, R, w)
<1> DEFINE ds == Append(below, k)
           d == Len(cs)
<1>1. d \in Nat
  BY Zenon, SoundFacts
<1>2. /\ ds \in Seq(CallType) /\ Len(ds) = d + 1 /\ ds[d + 1] = k
      /\ \A i \in 1..d : ds[i] = below[i]
  BY SMTT(30), StackFacts
<1>3. Fits(k, d > 0, ds[d])
  <2>1. CASE d = 0
    BY <2>1 DEF Fits
  <2>2. CASE d > 0
    <3>1. d \in 1..d
      BY <1>1, <2>2
    <3>2. ds[d].kind = cs[d].kind /\ ds[d].c = cs[d].c
      <4> HIDE DEF ds
      <4> QED BY ZenonT(60), <1>2, <3>1
    <3> HIDE DEF ds
    <3> QED BY Zenon, <3>2 DEF Fits
  <2> HIDE DEF ds, d
  <2> QED BY <1>1, <2>1, <2>2
<1> HIDE DEF ds
<1>4. Pushes(cs, ds)
  BY <1>1, <1>2, <1>3 DEF Pushes
<1> QED BY Zenon, <1>4, SoundPush DEF ds

\* A new frame.
LEMMA NewFrame ==
  /\ Frame(0, FALSE) \in FrameType
  /\ \A n \in Nat : \A timeout \in BOOLEAN : Frame(n, timeout) \in FrameType
BY Zenon DEF Frame, FrameType

\* The default options are options.
LEMMA DefaultFacts == DefaultOptions \in TxOptions
BY Zenon DEF DefaultOptions, TxOptions, Propagation

\* A tx() that is refused leaves its exception with the body that called it.
LEMMA RefusedSound ==
  ASSUME Sound(calls, frames, poisoned, promised, writes), Depth > 0 => Stage("body"), Refused
  PROVE  Sound(calls', frames', poisoned, promised, writes)
<1>1. calls \in Seq(CallType) /\ Depth \in Nat /\ frames' = frames
  BY Zenon, SoundFacts DEF Depth, Refused
<1>2. CASE Depth = 0
  BY Zenon, <1>1, <1>2 DEF Refused
<1>3. CASE Depth > 0
  <2> DEFINE k == [Top EXCEPT !.exc = "app"]
  <2>1. Top \in CallType /\ Top.stage \in StagesOf(Top.kind) /\ Top.stage = "body"
    BY Zenon, <1>3, SoundFacts DEF Stage, Top, Depth
  <2>2. k \in CallType /\ k.kind = Top.kind /\ k.c = Top.c /\ k.kept = Top.kept
        /\ k.stage = Top.stage /\ k.frame = Top.frame
    BY Zenon, <2>1 DEF CallType
  <2>3. calls' = [calls EXCEPT ![Len(calls)] = k]
    BY <1>3 DEF Refused, Depth, Top
  <2> HIDE DEF k
  <2>4. GoesOn(k, calls[Len(calls)])
    BY Zenon, <2>1, <2>2 DEF GoesOn, Running, Top, Depth
  <2>5. Len(calls) > 0
    BY Zenon, <1>3 DEF Depth
  <2> QED BY Zenon, <1>1, <2>2, <2>3, <2>4, <2>5, SoundGoesOn
<1> QED BY <1>1, <1>2, <1>3

\* tx_local begins, opens a savepoint or joins, in the body of the caller.
LEMMA LocalSound ==
  ASSUME Sound(calls, frames, poisoned, promised, writes), Depth > 0 => Stage("body"),
         seq \in [Conn -> Nat], NEW o \in TxOptions, TxLocal(Here, o, calls)
  PROVE  Sound(calls', frames', poisoned, promised, writes) /\ seq' \in [Conn -> Nat]
<1> DEFINE c == Here
           root == ~InTransaction(c)
           sp == ~root /\ o.propagation = "nested"
           timeout == o.timeout \/ (sp /\ frames[c][Len(frames[c])].timeout)
           n == seq[c] + 1
           k == CASE root -> Call(c, "root", "begin", o, Frame(0, timeout))
                  [] sp   -> Call(c, "sp", "save", o, Frame(n, timeout))
                  [] OTHER -> Call(c, "join", "body", DefaultOptions, Frame(0, FALSE))
<1>1. /\ calls \in Seq(CallType) /\ Depth \in Nat /\ frames \in Heights
      /\ Depth = 0 => Len(frames[Main]) = 0
      /\ \A i \in 1..Depth : i < Depth =>
           calls[i].stage = IF calls[i].kind = "iso" THEN "inner" ELSE "body"
  BY SoundFacts DEF Depth
<1>2. Depth > 0 => /\ Top \in CallType /\ Top.c \in {Main, Isolated} /\ Top.stage = "body"
                   /\ Top.kind # "iso" /\ Running(Top) /\ Len(frames[Top.c]) > 0
  <2> SUFFICES ASSUME Depth > 0
               PROVE  /\ Top \in CallType /\ Top.c \in {Main, Isolated} /\ Top.stage = "body"
                      /\ Top.kind # "iso" /\ Running(Top) /\ Len(frames[Top.c]) > 0
    BY ZenonT(60)
  <2>1. /\ Top \in CallType /\ Top.c \in {Main, Isolated} /\ Top.stage \in StagesOf(Top.kind)
        /\ Running(Top) => Len(frames[Top.c]) > 0
    BY SoundFacts DEF Top, Depth
  <2>2. Top.stage = "body"
    BY Zenon DEF Stage
  <2>3. Top.kind # "iso"
    BY ZenonT(60), <2>1, <2>2 DEF StagesOf
  <2> QED BY Zenon, <2>1, <2>2, <2>3 DEF Running
<1>3. c \in {Main, Isolated} /\ (Depth = 0 => c = Main) /\ (Depth > 0 => c = Top.c)
  BY <1>1, <1>2 DEF Here
<1>4. CASE InTransaction(c) /\ (o.read_only \/ o.isolation)
  <2>1. Refused
    BY Zenon, <1>4 DEF TxLocal
  <2>2. seq' = seq
    BY Zenon, <2>1 DEF Refused
  <2> QED BY Zenon, <2>1, <2>2, RefusedSound
<1>5. CASE ~(InTransaction(c) /\ (o.read_only \/ o.isolation))
  <2>1. /\ calls' = Append(calls, k) /\ seq' = (IF sp THEN [seq EXCEPT ![c] = n] ELSE seq)
        /\ frames' = frames
    BY Zenon, <1>5 DEF TxLocal
  <2>2. c \in Conn /\ seq[c] \in Nat /\ frames[c] \in Seq(FrameType)
    BY Zenon, <1>1, <1>3, MainAssumption DEF Heights
  <2>3. seq' \in [Conn -> Nat]
    BY SMTT(30), <2>1, <2>2
  <2>4. root <=> Depth = 0
    <3>1. Depth = 0 => frames[c] = <<>>
      BY SMTT(30), <1>1, <1>3, <2>2
    <3>2. Depth > 0 => frames[c] # <<>>
      BY SMTT(30), <1>2, <1>3, <2>2
    <3> QED BY SMTT(30), <1>1, <3>1, <3>2 DEF InTransaction
  <2>5. timeout \in BOOLEAN
    <3>1. o.timeout \in BOOLEAN
      BY Zenon DEF TxOptions
    <3>2. sp => frames[c][Len(frames[c])].timeout \in BOOLEAN
      <4> SUFFICES ASSUME sp PROVE frames[c][Len(frames[c])].timeout \in BOOLEAN
        BY Zenon
      <4>1. Len(frames[c]) \in 1..Len(frames[c])
        BY <2>2 DEF InTransaction
      <4>2. frames[c][Len(frames[c])] \in FrameType
        BY <2>2, <4>1
      <4> QED BY Zenon, <4>2 DEF FrameType
    <3> QED BY Zenon, <3>1, <3>2
  <2>11. root => ~sp
    BY Zenon
  <2> HIDE DEF timeout, root, sp, c
  <2>6. n \in Nat
    BY <2>2
  <2> HIDE DEF n
  <2>7. /\ k \in CallType /\ k.c = c /\ k.kept = {}
        /\ root => k.kind = "root" /\ k.stage = "begin"
        /\ ~root => \/ k.kind = "sp" /\ k.stage = "save"
                    \/ k.kind = "join" /\ k.stage = "body"
    <3>1. CASE root
      <4>1. k = Call(c, "root", "begin", o, Frame(0, timeout))
        BY Zenon, <2>11, <3>1
      <4>2. 0 \in Nat
        OBVIOUS
      <4>3. Frame(0, timeout) \in FrameType
        BY Zenon, <2>5, <4>2, NewFrame
      <4> HIDE DEF k
      <4>a. k \in CallType
        BY Zenon, <1>3, <4>1, <4>3 DEF Call, CallType, Opening
      <4>b. k.c = c /\ k.kept = {} /\ k.kind = "root" /\ k.stage = "begin"
        BY Zenon, <4>1 DEF Call
      <4> QED BY Zenon, <3>1, <4>a, <4>b
    <3>2. CASE ~root /\ sp
      <4>1. k = Call(c, "sp", "save", o, Frame(n, timeout))
        BY Zenon, <3>2
      <4>2. Frame(n, timeout) \in FrameType
        BY Zenon, <2>5, <2>6, NewFrame
      <4> HIDE DEF k
      <4>a. k \in CallType
        BY Zenon, <1>3, <4>1, <4>2 DEF Call, CallType, Opening
      <4>b. k.c = c /\ k.kept = {} /\ k.kind = "sp" /\ k.stage = "save"
        BY Zenon, <4>1 DEF Call
      <4> QED BY Zenon, <3>2, <4>a, <4>b
    <3>3. CASE ~root /\ ~sp
      <4>1. k = Call(c, "join", "body", DefaultOptions, Frame(0, FALSE))
        BY Zenon, <3>3
      <4>2. Frame(0, FALSE) \in FrameType /\ DefaultOptions \in TxOptions
        BY Zenon, NewFrame, DefaultFacts
      <4> HIDE DEF k
      <4>a. k \in CallType
        BY Zenon, <1>3, <4>1, <4>2 DEF Call, CallType, Opening
      <4>b. k.c = c /\ k.kept = {} /\ k.kind = "join" /\ k.stage = "body"
        BY Zenon, <4>1 DEF Call
      <4> QED BY Zenon, <3>3, <4>a, <4>b
    <3> QED BY Zenon, <3>1, <3>2, <3>3
  <2> HIDE DEF k
  <2>8. Fits(k, Depth > 0, Top) /\ k.stage \in StagesOf(k.kind) \ {"inner"}
        /\ (k.kind = "join" \/ ~Running(k))
    BY SMTT(30), <1>1, <1>2, <1>3, <2>4, <2>7 DEF Fits, StagesOf, Running
  <2>9. \A i \in 1..Len(calls) : calls[i].stage = IF calls[i].kind = "iso" THEN "inner" ELSE "body"
    BY <1>1, <1>2 DEF Top, Depth
  <2>10. Sound(Append(calls, k), frames, poisoned, promised, writes)
    <3>1. Len(calls) > 0 => calls[Len(calls)].kind = "iso" \/ Running(calls[Len(calls)])
      BY Zenon, <1>2 DEF Top, Depth
    <3>2. Len(calls) > 0 /\ calls[Len(calls)].c = Isolated => k.c = Isolated
      BY Zenon, <1>3, <2>7 DEF Top, Depth
    <3>3. Fits(k, Len(calls) > 0, calls[Len(calls)])
      BY Zenon, <2>8 DEF Top, Depth
    <3> QED BY Zenon, <1>1, <2>7, <2>8, <2>9, <3>1, <3>2, <3>3, SoundCall
  <2> QED BY Zenon, <2>1, <2>3, <2>10
<1> QED BY ZenonT(60), <1>4, <1>5

\* A step after which every connection is idle.
LEMMA IdleStep ==
  ASSUME driver \in Drivers, driver' = driver, op' \in [Conn -> OperationType],
         \A c \in Conn : op'[c] = NoOp, seq' \in [Conn -> Nat],
         Sound(calls', frames', poisoned', promised', writes')
  PROVE  PoisonInv'
<1>1. calls' \in Seq(CallType)
  BY Zenon DEF Sound
<1>2. BusyInv'
  BY Zenon, <1>1, IdleIsFine
<1> QED BY Zenon, <1>2 DEF PoisonInv

\* Mapper::tx keeps the invariant.
LEMMA TxKept ==
  ASSUME PoisonInv, NEW o \in Options, Tx(o)
  PROVE  PoisonInv'
<1>1. /\ Sound(calls, frames, poisoned, promised, writes) /\ BusyInv /\ seq \in [Conn -> Nat]
      /\ driver \in Drivers /\ op \in [Conn -> OperationType] /\ o \in TxOptions
  BY Zenon, OptionsAssumption DEF PoisonInv
<1>2. /\ driver' = driver /\ op' = op /\ poisoned' = poisoned /\ promised' = promised
      /\ writes' = writes
  BY Zenon DEF Tx, connVars, history
<1>3. \A c \in Conn : op'[c] = NoOp
  BY Zenon, <1>1, <1>2 DEF Tx, Guard, BusyInv
<1>4. Depth > 0 => Stage("body")
  BY DEF Tx, MayCall
<1>5. Sound(calls', frames', poisoned, promised, writes) /\ seq' \in [Conn -> Nat]
  <2>1. CASE TxLocal(Here, o, calls)
    BY ZenonT(60), <1>1, <1>4, <2>1, LocalSound
  <2>2. CASE Refused
    BY Zenon, <1>1, <1>4, <2>2, RefusedSound DEF Refused
  <2>3. CASE /\ Here # Isolated
             /\ calls' = Append(calls, Call(Isolated, "iso", "open", o, Frame(0, FALSE)))
             /\ seq' = [seq EXCEPT ![Isolated] = 0]
             /\ frames' = frames
    <3> DEFINE k == Call(Isolated, "iso", "open", o, Frame(0, FALSE))
    <3>1. seq' \in [Conn -> Nat]
      BY Zenon, <1>1, <2>3, MainAssumption
    <3>2. k \in CallType /\ k.c = Isolated /\ k.kind = "iso" /\ k.stage = "open" /\ k.kept = {}
      <4> DEFINE f == Frame(0, FALSE)
      <4>1. f \in FrameType
        BY Zenon, NewFrame
      <4> HIDE DEF f
      <4>2. k = Call(Isolated, "iso", "open", o, f)
        BY Zenon DEF f
      <4> HIDE DEF k
      <4>3. /\ "iso" \in {"root", "sp", "join", "iso"} /\ Isolated \in {Main, Isolated}
            /\ "open" \in Opening \cup Closing \cup {"body", "open", "inner", "close"}
        BY Zenon
      <4>4. o \in TxOptions
        BY Zenon, OptionsAssumption
      <4>5. k \in CallType
        BY Zenon, <4>1, <4>2, <4>3, <4>4 DEF Call, CallType
      <4>6. k.c = Isolated /\ k.kind = "iso" /\ k.stage = "open" /\ k.kept = {}
        BY Zenon, <4>2 DEF Call
      <4> QED BY Zenon, <4>5, <4>6
    <3>3. /\ calls \in Seq(CallType) /\ Depth \in Nat
          /\ \A i \in 1..Depth : i < Depth =>
               calls[i].stage = IF calls[i].kind = "iso" THEN "inner" ELSE "body"
          /\ Depth > 0 => Top.c \in {Main, Isolated} /\ Top.stage \in StagesOf(Top.kind)
      BY Zenon, <1>1, SoundFacts DEF Depth, Top
    <3>4. Depth > 0 => Top.stage = "body" /\ Top.kind # "iso" /\ Running(Top) /\ Top.c = Main
      BY <1>4, <2>3, <3>3 DEF Stage, StagesOf, Running, Here
    <3> HIDE DEF k
    <3>5. /\ Fits(k, Len(calls) > 0, calls[Len(calls)]) /\ k.stage \in StagesOf(k.kind) \ {"inner"}
          /\ ~Running(k) /\ (Len(calls) > 0 => Running(calls[Len(calls)]))
      BY Zenon, <3>2, <3>4 DEF Fits, StagesOf, Running, Top, Depth
    <3>6. \A i \in 1..Len(calls) :
            calls[i].stage = IF calls[i].kind = "iso" THEN "inner" ELSE "body"
      BY <3>3, <3>4 DEF Top, Depth
    <3>7. Sound(Append(calls, k), frames, poisoned, promised, writes)
      BY ZenonT(60), <1>1, <3>2, <3>3, <3>5, <3>6, SoundCall
    <3> QED BY Zenon, <2>3, <3>1, <3>7 DEF k
  <2> QED BY Zenon, <2>1, <2>2, <2>3 DEF Tx
<1> QED BY Zenon, <1>1, <1>2, <1>3, <1>5, IdleStep

\* From one statement of a boundary to the next.
LEMMA GotoSound ==
  ASSUME Sound(calls, frames, poisoned, promised, writes), Depth > 0, NEW k \in CallType,
         NEW stage \in Opening \cup Closing, Goto(k, stage),
         k.kind = Top.kind, k.c = Top.c, k.kept = Top.kept, stage \in StagesOf(k.kind),
         ~Running(Top), stage \in Opening => Top.stage \in Opening,
         stage \in Closing => Top.stage \in Closing /\ k.frame = Top.frame
  PROVE  Sound(calls', frames', poisoned', promised', writes)
<1> DEFINE r == [k EXCEPT !.stage = stage]
<1>1. /\ r \in CallType /\ r.kind = Top.kind /\ r.c = Top.c /\ r.kept = Top.kept
      /\ r.stage = stage /\ r.frame = k.frame
  BY Zenon DEF CallType
<1>2. calls' = [calls EXCEPT ![Len(calls)] = r] /\ Len(calls) > 0
      /\ frames' = frames /\ poisoned' = poisoned /\ promised' = promised
  BY Zenon DEF Goto, SetTop, Depth, history
<1> HIDE DEF r
<1>3. ~Running(r) /\ stage # "inner"
  BY Zenon, <1>1 DEF Running, Opening, Closing
<1>4. GoesOn(r, Top)
  BY Zenon, <1>1, <1>3 DEF GoesOn
<1>5. GoesOn(r, calls[Len(calls)])
  BY Zenon, <1>4 DEF Top, Depth
<1> QED BY Zenon, <1>1, <1>2, <1>5, SoundGoesOn

\* The call returns from a statement of its boundary.
LEMMA EndsSound ==
  ASSUME Sound(calls, frames, poisoned, promised, writes), Depth > 0, ~Running(Top),
         Top.kind # "join", NEW exc \in {"none", "app", "sql"}, Ends(Top, exc),
         exc = "none" => Top.stage \in Closing /\ ~Top.frame.rollback_only
  PROVE  Sound(calls', frames', poisoned', promised', writes)
<1>1. Top.stage \in Closing /\ Top.kept \cap poisoned # {} => Top.frame.rollback_only
  BY SoundFacts DEF Top, Depth
<1>2. MayReturn(Top, frames, poisoned, exc)
  BY Zenon, <1>1 DEF MayReturn
<1>3. Returns(Top, exc) /\ frames' = frames
  BY Zenon DEF Ends
<1> QED BY ZenonT(60), <1>2, <1>3, ReturnsSound

\* The body starts.
LEMMA PushFrameSound ==
  ASSUME Sound(calls, frames, poisoned, promised, writes), Depth > 0, NEW k \in CallType,
         PushFrame(k), k.kind = Top.kind, k.c = Top.c, k.kept = Top.kept,
         k.kind \in {"root", "sp"}, Top.stage \in Opening
  PROVE  Sound(calls', frames', poisoned', promised', writes)
<1> DEFINE r == [k EXCEPT !.stage = "body", !.o = DefaultOptions, !.frame = Frame(0, FALSE)]
<1>1. k.frame \in FrameType /\ Frame(0, FALSE) \in FrameType
  BY Zenon DEF CallType, Frame, FrameType
<1>2. /\ r \in CallType /\ r.kind = Top.kind /\ r.c = Top.c /\ r.kept = Top.kept
      /\ r.stage = "body" /\ r.c = k.c
  BY Zenon, <1>1, DefaultFacts DEF CallType
<1>3. /\ calls' = [calls EXCEPT ![Len(calls)] = r] /\ Len(calls) > 0
      /\ frames' = [frames EXCEPT ![k.c] = Append(@, k.frame)]
      /\ poisoned' = poisoned /\ promised' = promised
  BY Zenon DEF PushFrame, SetTop, Depth, history
<1> HIDE DEF r
<1>4. r.kind = calls[Len(calls)].kind /\ r.c = calls[Len(calls)].c /\ r.kept = calls[Len(calls)].kept
      /\ r.kind \in {"root", "sp"} /\ calls[Len(calls)].stage \in Opening
  BY Zenon, <1>2 DEF Top, Depth
<1>5. Sound([calls EXCEPT ![Len(calls)] = r], [frames EXCEPT ![r.c] = Append(@, k.frame)],
            poisoned, promised, writes)
  BY Zenon, <1>1, <1>2, <1>3, <1>4, SoundFrame
<1> QED BY Zenon, <1>2, <1>3, <1>5

\* What follows a statement of a boundary.
LEMMA AfterSound ==
  ASSUME Sound(calls, frames, poisoned, promised, writes), Depth > 0,
         Top.stage \in ControlStages, NEW ok \in BOOLEAN, AfterControl(Top, ok)
  PROVE  Sound(calls', frames', poisoned', promised', writes)
<1> DEFINE k == Top
<1>1. /\ k \in CallType /\ k.stage \in StagesOf(k.kind) /\ k.kind \in {"root", "sp", "join", "iso"}
      /\ k.c = Top.c /\ k.kept = Top.kept /\ k.kind = Top.kind
  BY Zenon, SoundFacts DEF Top, Depth
<1>2. /\ ~Running(k) /\ k.kind \in {"root", "sp"}
      /\ k.stage \in {"begin", "apply", "undo", "undorestore"} => k.kind = "root"
  BY Zenon, <1>1 DEF StagesOf, Running, ControlStages
<1>3. ASSUME Ends(k, "sql") PROVE Sound(calls', frames', poisoned', promised', writes)
  BY Zenon, <1>2, <1>3, EndsSound
<1>4. ASSUME NEW stage \in {"apply", "undo", "undorestore"}, Goto(k, stage),
             k.stage \in {"begin", "apply", "undo"}
      PROVE  Sound(calls', frames', poisoned', promised', writes)
  <2>1. /\ stage \in Opening /\ stage \notin Closing /\ k.stage \in Opening
        /\ k.kind = "root" /\ stage \in StagesOf(k.kind)
    BY Zenon, <1>2, <1>4 DEF Opening, Closing, StagesOf
  <2> QED BY Zenon, <1>1, <1>2, <1>4, <2>1, GotoSound
<1>5. ASSUME PushFrame(k), k.stage \in Opening
      PROVE  Sound(calls', frames', poisoned', promised', writes)
  BY Zenon, <1>1, <1>2, <1>5, PushFrameSound
<1>6. ASSUME Ends(k, Verdict(k)), k.stage \in Closing
      PROVE  Sound(calls', frames', poisoned', promised', writes)
  <2>1. /\ Verdict(k) \in {"none", "app", "sql"}
        /\ Verdict(k) = "none" => ~k.frame.rollback_only
    BY Zenon, <1>1 DEF Verdict, CallType
  <2> HIDE DEF k
  <2>2. Ends(Top, Verdict(k))
    BY Zenon, <1>6 DEF k
  <2>3. ~Running(Top) /\ Top.kind # "join" /\ Top.stage \in Closing
        /\ (Verdict(k) = "none" => ~Top.frame.rollback_only)
    BY Zenon, <1>2, <1>6, <2>1 DEF k
  <2> QED BY Zenon, <2>1, <2>2, <2>3, EndsSound
<1>7. CASE k.stage = "begin"
  <2>1. IF ok THEN Began(k) ELSE Ends(k, "sql")
    BY Zenon, <1>7 DEF AfterControl
  <2>2. k.stage \in Opening
    BY Zenon, <1>7 DEF Opening
  <2> QED BY Zenon, <1>3, <1>4, <1>5, <1>7, <2>1, <2>2 DEF Began
<1>8. CASE k.stage = "apply"
  <2> DEFINE on == [k EXCEPT !.frame.qonly = driver = "sqlite"]
  <2>1. IF ok THEN Applied(k) ELSE Goto(k, "undo")
    BY Zenon, <1>8 DEF AfterControl
  <2>2. on \in CallType /\ on.kind = Top.kind /\ on.c = Top.c /\ on.kept = Top.kept
    <3>1. k.frame \in FrameType
      BY Zenon, <1>1 DEF CallType
    <3>2. [k.frame EXCEPT !.qonly = driver = "sqlite"] \in FrameType
      BY Zenon, <3>1 DEF FrameType
    <3>3. on = [k EXCEPT !.frame = [k.frame EXCEPT !.qonly = driver = "sqlite"]]
      BY Zenon
    <3> HIDE DEF on
    <3> QED BY Zenon, <1>1, <3>2, <3>3 DEF CallType
  <2>3. k.stage \in Opening
    BY Zenon, <1>8 DEF Opening
  <2>4. ~ok \/ Goto(on, "undo") \/ PushFrame(on)
    BY Zenon, <2>1 DEF Applied
  <2> HIDE DEF on
  <2>5. CASE Goto(on, "undo")
    <3>1. /\ "undo" \in Opening /\ "undo" \notin Closing
          /\ k.kind = "root" /\ "undo" \in StagesOf(on.kind)
      BY Zenon, <1>2, <1>8, <2>2 DEF Opening, Closing, StagesOf
    <3> QED BY Zenon, <1>2, <2>2, <2>3, <2>5, <3>1, GotoSound
  <2>6. CASE PushFrame(on)
    BY Zenon, <1>2, <2>2, <2>3, <2>6, PushFrameSound
  <2> QED BY Zenon, <1>4, <1>8, <2>1, <2>4, <2>5, <2>6
<1>9. CASE k.stage = "undo"
  <2>1. Undone(k)
    BY Zenon, <1>9 DEF AfterControl
  <2> QED BY Zenon, <1>3, <1>4, <1>9, <2>1 DEF Undone
<1>10. CASE k.stage = "undorestore"
  <2>1. Ends(k, "sql")
    BY Zenon, <1>10 DEF AfterControl
  <2> QED BY Zenon, <1>3, <2>1
<1>11. CASE k.stage = "save"
  <2>1. IF ok THEN PushFrame(k) ELSE Ends(k, "sql")
    BY Zenon, <1>11 DEF AfterControl
  <2>2. k.stage \in Opening
    BY Zenon, <1>11 DEF Opening
  <2> QED BY Zenon, <1>3, <1>5, <2>1, <2>2
<1>12. CASE k.stage = "final"
  <2>1. Finalized(k, ok)
    BY Zenon, <1>12 DEF AfterControl
  <2>2. k.stage \in Closing
    BY Zenon, <1>12 DEF Closing
  <2>3. CASE Goto(k, "restore")
    <3>1. /\ "restore" \in Closing /\ "restore" \notin Opening
          /\ "restore" \in StagesOf(k.kind)
      BY Zenon, <1>2, <1>12 DEF Opening, Closing, StagesOf
    <3> QED BY Zenon, <1>1, <1>2, <2>2, <2>3, <3>1, GotoSound
  <2> QED BY Zenon, <1>3, <1>6, <2>1, <2>2, <2>3 DEF Finalized
<1>13. CASE k.stage = "rollto"
  <2>1. IF ok THEN Goto(k, "release") ELSE Ends(k, "sql")
    BY Zenon, <1>13 DEF AfterControl
  <2>2. CASE Goto(k, "release")
    <3>1. /\ "release" \in Closing /\ "release" \notin Opening
          /\ "release" \in StagesOf(k.kind) /\ k.stage \in Closing
      BY Zenon, <1>2, <1>13 DEF Opening, Closing, StagesOf
    <3> QED BY Zenon, <1>1, <1>2, <2>2, <3>1, GotoSound
  <2> QED BY Zenon, <1>3, <2>1, <2>2
<1>14. CASE k.stage \in {"release", "restore"}
  <2>1. Ends(k, IF ok THEN Verdict(k) ELSE "sql")
    BY Zenon, <1>14 DEF AfterControl
  <2>2. k.stage \in Closing
    BY Zenon, <1>14 DEF Closing
  <2>3. CASE ok
    BY Zenon, <1>6, <2>1, <2>2, <2>3
  <2>4. CASE ~ok
    BY Zenon, <1>3, <2>1, <2>4
  <2> QED BY Zenon, <2>3, <2>4
<1> QED
  BY ZenonT(60), <1>7, <1>8, <1>9, <1>10, <1>11, <1>12, <1>13, <1>14 DEF ControlStages

\* The outcome of a statement of a boundary keeps the invariant.
LEMMA ControlKept ==
  ASSUME PoisonInv, Control
  PROVE  PoisonInv'
<1>1. /\ Sound(calls, frames, poisoned, promised, writes) /\ BusyInv /\ seq \in [Conn -> Nat]
      /\ driver \in Drivers /\ op \in [Conn -> OperationType]
  BY Zenon DEF PoisonInv
<1>2. /\ Depth > 0 /\ Top.stage \in ControlStages /\ AfterControl(Top, Ok(Top.c))
      /\ op' = [op EXCEPT ![Here] = NoOp] /\ driver' = driver /\ seq' = seq /\ writes' = writes
  <2>1. Depth > 0 /\ Depth \in Nat
    BY Zenon, <1>1, SoundFacts DEF Control, Depth
  <2>2. Here = Top.c
    BY <2>1 DEF Here
  <2> QED BY Zenon, <2>1, <2>2 DEF Control, Taken
<1>3. op' \in [Conn -> OperationType] /\ \A c \in Conn : op'[c] = NoOp
  BY Zenon, <1>1, <1>2, TakenIsIdle
<1>4. Sound(calls', frames', poisoned', promised', writes)
  <2>1. Ok(Top.c) \in BOOLEAN
    BY Zenon DEF Ok
  <2> QED BY Zenon, <1>1, <1>2, <2>1, AfterSound
<1> QED BY Zenon, <1>1, <1>2, <1>3, <1>4, IdleStep

\* The stack stays sound while the program makes more writes.
LEMMA SoundMore ==
  ASSUME NEW cs, NEW fs, NEW P, NEW R, NEW w, Sound(cs, fs, P, R, w)
  PROVE  Sound(cs, fs, P, R, w + 1)
<1>1. w \in Nat /\ KeptOf(cs, R, P, w)
  BY Zenon DEF Sound
<1>2. 1..w \subseteq 1..(w + 1)
  BY <1>1
<1>3. KeptOf(cs, R, P, w + 1)
  BY Zenon, <1>1, <1>2 DEF KeptOf
<1> QED BY <1>1, <1>3 DEF Sound

\* The statement types.
LEMMA StatementFacts ==
  ASSUME NEW k \in CallType, k.stage \in ControlStages
  PROVE  Statement(k) \in Statements
<1>1. k.frame \in FrameType
  BY Zenon DEF CallType
<1>2. k.frame.savepoint \in Nat
  BY Zenon, <1>1 DEF FrameType
<1>3. /\ \A d \in {"none", "begin", "set", "commit", "rollback"} : [do |-> d] \in Statements
      /\ \A b \in BOOLEAN : [do |-> "qonly", on |-> b] \in Statements
      /\ \A n \in Nat : /\ [do |-> "save", name |-> n] \in Statements
                        /\ [do |-> "release", name |-> n] \in Statements
                        /\ [do |-> "rollto", name |-> n] \in Statements
  BY Zenon DEF Statements
<1>4. [do |-> "qonly", on |-> TRUE] \in Statements /\ [do |-> "qonly", on |-> FALSE] \in Statements
  BY Zenon, <1>3
<1>5. FinalStatement(k) \in Statements
  BY Zenon, <1>3 DEF FinalStatement
<1> HIDE DEF Statements
<1>6. CASE k.stage \in {"begin", "undo", "final"}
  BY Zenon, <1>3, <1>5, <1>6 DEF Statement
<1>7. CASE k.stage = "apply"
  BY Zenon, <1>3, <1>4, <1>7 DEF Statement
<1>8. CASE k.stage \in {"restore", "undorestore"}
  BY Zenon, <1>4, <1>8 DEF Statement
<1>9. CASE k.stage \in {"save", "rollto", "release"}
  BY Zenon, <1>2, <1>3, <1>9 DEF Statement
<1> QED BY Zenon, <1>6, <1>7, <1>8, <1>9 DEF ControlStages

\* An operation that is no write of a body starts or ends on the connection in
\* use.
LEMMA StartKept ==
  ASSUME PoisonInv, NEW o \in OperationType, op' = [op EXCEPT ![Here] = o],
         UNCHANGED txVars, driver' = driver,
         ~(Depth = 0 \/ Stage("body")) \/ o.kind # "query"
  PROVE  PoisonInv'
<1>1. /\ Sound(calls, frames, poisoned, promised, writes) /\ BusyInv /\ seq \in [Conn -> Nat]
      /\ driver \in Drivers /\ op \in [Conn -> OperationType]
  BY Zenon DEF PoisonInv
<1>2. /\ calls' = calls /\ frames' = frames /\ poisoned' = poisoned /\ promised' = promised
      /\ writes' = writes /\ seq' = seq
  BY Zenon DEF txVars
<1>3. Here \in Conn
  BY <1>1, SoundFacts, MainAssumption DEF Here, Depth, Top
<1>4. /\ Here' = Here /\ Depth' = Depth /\ (Stage("body")' <=> Stage("body"))
  BY Zenon, <1>2 DEF Here, Depth, Top, Stage
<1> HIDE DEF OperationType
<1>5. /\ op' \in [Conn -> OperationType]
      /\ \A c \in Conn : op'[c] = IF c = Here THEN o ELSE op[c]
  BY Zenon, <1>1, <1>3
<1>6. BusyInv'
  BY Zenon, <1>1, <1>3, <1>4, <1>5 DEF BusyInv
<1>7. Sound(calls', frames', poisoned', promised', writes')
  BY Zenon, <1>1, <1>2
<1> QED BY Zenon, <1>1, <1>2, <1>5, <1>6, <1>7 DEF PoisonInv

\* Opening and closing an operation record.
LEMMA OperationFacts ==
  /\ NoOp \in OperationType /\ NoOp.kind = "none"
  /\ \A kind \in {"open", "query", "close"} : \A phase \in {"sent", "done"} :
       \A st \in Statements : \A timed \in BOOLEAN : \A res \in {"none", "ok", "err"} :
         /\ Operation(kind, phase, st, timed, res) \in OperationType
         /\ Operation(kind, phase, st, timed, res).kind = kind
  /\ NoStatement \in Statements
<1>1. NoStatement \in Statements
  BY Zenon DEF NoStatement, Statements
<1> HIDE DEF Statements
<1>2. NoOp \in OperationType /\ NoOp.kind = "none"
  BY Zenon, <1>1 DEF NoOp, Operation, OperationType
<1>3. \A kind \in {"open", "query", "close"} : \A phase \in {"sent", "done"} :
       \A st \in Statements : \A timed \in BOOLEAN : \A res \in {"none", "ok", "err"} :
         /\ Operation(kind, phase, st, timed, res) \in OperationType
         /\ Operation(kind, phase, st, timed, res).kind = kind
  BY DEF Operation, OperationType
<1> QED BY Zenon, <1>1, <1>2, <1>3

\* The four operations that open and close a connection.
LEMMA OpenCloseKept ==
  ASSUME PoisonInv, IsoOpen \/ IsoClose \/ OpenMain \/ MainOpened
  PROVE  PoisonInv'
<1>1. Sound(calls, frames, poisoned, promised, writes)
  BY Zenon DEF PoisonInv
<1>2. calls \in Seq(CallType) /\ Depth \in Nat
  BY Zenon, <1>1, SoundFacts DEF Depth
<1>3. ASSUME Stage("open") \/ Stage("close") PROVE Here = Isolated /\ Depth > 0 /\ ~Stage("body")
  <2>1. Depth > 0 /\ Top.stage \in {"open", "close"}
    BY Zenon, <1>3 DEF Stage
  <2>2. /\ Top.stage \in StagesOf(Top.kind) /\ Top.kind \in {"root", "sp", "join", "iso"}
        /\ Top.kind = "iso" => Top.c = Isolated
    BY Zenon, <1>1, <2>1, SoundFacts DEF Depth, Top
  <2>3. Top.kind = "iso"
    BY Zenon, <2>1, <2>2 DEF StagesOf
  <2> QED BY SMTT(30), <1>2, <2>1, <2>2, <2>3 DEF Here, Stage
<1> DEFINE o1 == Operation("open", "sent", NoStatement, TRUE, "none")
           o2 == Operation("close", "done", NoStatement, FALSE, "ok")
<1>4. /\ o1 \in OperationType /\ o1.kind = "open" /\ o2 \in OperationType /\ o2.kind = "close"
      /\ NoOp \in OperationType /\ NoOp.kind = "none"
  <2>1. TRUE \in BOOLEAN /\ FALSE \in BOOLEAN
    BY Zenon
  <2>2. o1 \in OperationType /\ o1.kind = "open"
    BY ZenonT(60), <2>1, OperationFacts
  <2>3. o2 \in OperationType /\ o2.kind = "close"
    BY Zenon, <2>1, OperationFacts
  <2>4. NoOp \in OperationType /\ NoOp.kind = "none"
    BY Zenon, OperationFacts
  <2> QED BY Zenon, <2>2, <2>3, <2>4
<1>5. Depth = 0 => Here = Main
  BY Zenon DEF Here
<1>6. CASE IsoOpen
  <2>1. op' = [op EXCEPT ![Here] = o1] /\ UNCHANGED txVars /\ driver' = driver
    BY Zenon, <1>3, <1>6 DEF IsoOpen, OpenTask
  <2> HIDE DEF o1, o2
  <2> QED BY Zenon, <1>4, <2>1, StartKept
<1>7. CASE IsoClose
  <2>1. op' = [op EXCEPT ![Here] = o2] /\ UNCHANGED txVars /\ driver' = driver
    BY ZenonT(60), <1>3, <1>7 DEF IsoClose, CloseTask
  <2> HIDE DEF o1, o2
  <2> QED BY Zenon, <1>4, <2>1, StartKept
<1>8. CASE OpenMain
  <2>1. op' = [op EXCEPT ![Here] = o1] /\ UNCHANGED txVars /\ driver' = driver
    BY Zenon, <1>5, <1>8 DEF OpenMain, OpenTask
  <2> HIDE DEF o1, o2
  <2> QED BY Zenon, <1>4, <2>1, StartKept
<1>9. CASE MainOpened
  <2>1. op' = [op EXCEPT ![Here] = NoOp] /\ UNCHANGED txVars /\ driver' = driver
    BY Zenon, <1>5, <1>9 DEF MainOpened, Taken
  <2> HIDE DEF o1, o2
  <2> QED BY Zenon, <1>4, <2>1, StartKept
<1> QED BY Zenon, <1>6, <1>7, <1>8, <1>9

\* requires_new: the connection is open and tx_local begins on it, or it is not
\* and tx() throws.
LEMMA IsoOpenedKept ==
  ASSUME PoisonInv, IsoOpened
  PROVE  PoisonInv'
<1>1. /\ Sound(calls, frames, poisoned, promised, writes) /\ BusyInv /\ seq \in [Conn -> Nat]
      /\ driver \in Drivers /\ op \in [Conn -> OperationType]
  BY DEF PoisonInv
<1>2. /\ Depth > 0 /\ Top.stage = "open" /\ op' = [op EXCEPT ![Isolated] = NoOp]
      /\ driver' = driver /\ writes' = writes
  BY Zenon DEF IsoOpened, Stage
<1>3. /\ calls \in Seq(CallType) /\ Depth \in Nat /\ frames \in Heights /\ Top \in CallType
      /\ Top.stage \in StagesOf(Top.kind) /\ Top.kind \in {"root", "sp", "join", "iso"}
      /\ Top.kind = "iso" => Top.c = Isolated /\ Len(frames[Isolated]) = 0 /\ Top.kept = {}
      /\ \A i \in 1..Depth : i < Depth =>
           calls[i].stage = IF calls[i].kind = "iso" THEN "inner" ELSE "body"
  BY ZenonT(60), <1>1, <1>2, SoundFacts DEF Depth, Top
<1>4. Top.kind = "iso"
  BY Zenon, <1>2, <1>3 DEF StagesOf
<1>5. Here = Isolated
  BY <1>2, <1>3, <1>4 DEF Here
<1>6. op' \in [Conn -> OperationType] /\ \A c \in Conn : op'[c] = NoOp
  BY Zenon, <1>1, <1>2, <1>5, TakenIsIdle
<1>7. CASE ~Ok(Isolated)
  <2>1. Returns(Top, "sql") /\ frames' = frames /\ seq' = seq
    BY Zenon, <1>7 DEF IsoOpened
  <2>2. MayReturn(Top, frames, poisoned, "sql")
    BY Zenon, <1>4 DEF MayReturn, Running
  <2>3. Sound(calls', frames', poisoned', promised', writes')
    BY Zenon, <1>1, <1>2, <2>1, <2>2, ReturnsSound
  <2> QED BY Zenon, <1>1, <1>2, <1>6, <2>1, <2>3, IdleStep
<1>8. CASE Ok(Isolated)
  <2> DEFINE o == [Top.o EXCEPT !.propagation = "required"]
             below == [calls EXCEPT ![Depth].stage = "inner"]
             timeout == o.timeout
             f == Frame(0, timeout)
             k == Call(Isolated, "root", "begin", o, f)
  <2>1. TxLocal(Isolated, o, below) /\ poisoned' = poisoned /\ promised' = promised
    BY Zenon, <1>8 DEF IsoOpened, history
  <2>2. o \in TxOptions /\ o.timeout \in BOOLEAN
    <3>1. Top.o \in TxOptions
      BY Zenon, <1>3 DEF CallType
    <3> QED BY Zenon, <3>1 DEF TxOptions, Propagation
  <2>3. frames[Isolated] = <<>>
    <3>1. frames[Isolated] \in Seq(FrameType)
      BY Zenon, <1>3, MainAssumption DEF Heights
    <3> QED BY <1>3, <1>4, <3>1
  <2>4. calls' = Append(below, k) /\ seq' = seq /\ frames' = frames
    <3>1. ~InTransaction(Isolated)
      BY Zenon, <2>3 DEF InTransaction
    <3> HIDE DEF o, below
    <3>2. timeout = (o.timeout \/ FALSE)
      BY Zenon, <2>2
    <3>3. (o.timeout \/ (FALSE /\ frames[Isolated][Len(frames[Isolated])].timeout)) = timeout
      BY Zenon, <2>2
    <3> QED BY Zenon, <2>1, <3>1, <3>3 DEF TxLocal
  <2>5. k \in CallType /\ k.c = Isolated /\ k.kind = "root" /\ k.stage = "begin" /\ k.kept = {}
    <3>1. f \in FrameType
      BY Zenon, <2>2, NewFrame
    <3>2. /\ "root" \in {"root", "sp", "join", "iso"} /\ Isolated \in {Main, Isolated}
          /\ "begin" \in Opening \cup Closing \cup {"body", "open", "inner", "close"}
      BY Zenon DEF Opening
    <3> HIDE DEF f, o
    <3>3. k \in CallType
      BY Zenon, <2>2, <3>1, <3>2 DEF Call, CallType
    <3>4. k.c = Isolated /\ k.kind = "root" /\ k.stage = "begin" /\ k.kept = {}
      BY Zenon DEF Call
    <3> QED BY Zenon, <3>3, <3>4
  <2> DEFINE w == [Top EXCEPT !.stage = "inner"]
  <2>6. /\ w \in CallType /\ w.kind = Top.kind /\ w.c = Top.c /\ w.kept = Top.kept
        /\ w.stage = "inner"
    BY Zenon, <1>3 DEF CallType
  <2>7. below = [calls EXCEPT ![Depth] = w]
    BY Zenon DEF Top
  <2> HIDE DEF o, timeout, f, k, w, below
  <2>8. /\ below \in Seq(CallType) /\ Len(below) = Len(calls)
        /\ \A i \in 1..Len(calls) : below[i] = IF i = Len(calls) THEN w ELSE calls[i]
    BY SMTT(30), <1>2, <1>3, <2>6, <2>7 DEF Depth
  <2>9. \A i \in 1..Len(calls) :
          /\ below[i].kind = calls[i].kind /\ below[i].c = calls[i].c
          /\ below[i].kept = calls[i].kept
          /\ below[i].stage = IF calls[i].kind = "iso" THEN "inner" ELSE "body"
    BY SMTT(30), <1>3, <1>4, <2>6, <2>8 DEF Top, Depth
  <2>10. /\ Fits(k, Len(calls) > 0, calls[Len(calls)]) /\ k.stage \in StagesOf(k.kind) \ {"inner"}
         /\ ~Running(k) /\ calls[Len(calls)].kind = "iso"
    BY Zenon, <1>2, <1>4, <2>5 DEF Fits, StagesOf, Running, Top, Depth
  <2>11. Sound(Append(below, k), frames, poisoned, promised, writes)
    BY Zenon, <1>1, <2>5, <2>8, <2>9, <2>10, SoundCall
  <2>12. Sound(calls', frames', poisoned', promised', writes')
    BY Zenon, <1>2, <2>1, <2>4, <2>11
  <2> QED BY ZenonT(60), <1>1, <1>2, <1>6, <2>4, <2>12, IdleStep
<1> QED BY Zenon, <1>7, <1>8

\* requires_new: the connection is closed and tx() returns.
LEMMA IsoClosedKept ==
  ASSUME PoisonInv, IsoClosed
  PROVE  PoisonInv'
<1>1. /\ Sound(calls, frames, poisoned, promised, writes) /\ BusyInv /\ seq \in [Conn -> Nat]
      /\ driver \in Drivers /\ op \in [Conn -> OperationType]
  BY DEF PoisonInv
<1>2. /\ Depth > 0 /\ Top.stage = "close" /\ op' = [op EXCEPT ![Isolated] = NoOp]
      /\ driver' = driver /\ writes' = writes /\ frames' = frames /\ seq' = seq
      /\ Returns(Top, Top.exc)
  BY Zenon DEF IsoClosed, Stage, Taken
<1>3. /\ Depth \in Nat /\ Top \in CallType
      /\ Top.stage \in StagesOf(Top.kind) /\ Top.kind \in {"root", "sp", "join", "iso"}
      /\ Top.kind = "iso" => Top.c = Isolated
  BY Zenon, <1>1, <1>2, SoundFacts DEF Depth, Top
<1>4. Top.kind = "iso" /\ Top.exc \in {"none", "app", "sql"}
  BY Zenon, <1>2, <1>3 DEF StagesOf, CallType
<1>5. Here = Isolated
  BY <1>2, <1>3, <1>4 DEF Here
<1>6. op' \in [Conn -> OperationType] /\ \A c \in Conn : op'[c] = NoOp
  BY Zenon, <1>1, <1>2, <1>5, TakenIsIdle
<1>7. MayReturn(Top, frames, poisoned, Top.exc)
  BY Zenon, <1>4 DEF MayReturn, Running
<1>8. Sound(calls', frames', poisoned', promised', writes')
  BY Zenon, <1>1, <1>2, <1>4, <1>7, ReturnsSound
<1> QED BY Zenon, <1>1, <1>2, <1>6, <1>8, IdleStep

\* A statement of a boundary is sent.
LEMMA ExecuteControlKept ==
  ASSUME PoisonInv, ExecuteControl
  PROVE  PoisonInv'
<1>1. Sound(calls, frames, poisoned, promised, writes)
  BY Zenon DEF PoisonInv
<1>2. /\ Depth > 0 /\ Top.stage \in ControlStages /\ Depth \in Nat /\ Top \in CallType
      /\ UNCHANGED txVars /\ driver' = driver
  BY Zenon, <1>1, SoundFacts DEF ExecuteControl, QueryTask, Depth, Top
<1> DEFINE o == IF handle[Top.c] # "open" \/ left[Top.c]
                THEN Operation("query", "done", NoStatement, FALSE, "err")
                ELSE Operation("query", "sent", Statement(Top), Top.frame.timeout, "none")
<1>3. op' = [op EXCEPT ![Here] = o]
  <2>1. Here = Top.c
    BY <1>2 DEF Here
  <2> QED BY Zenon, <2>1 DEF ExecuteControl, QueryTask
<1>4. o \in OperationType
  <2>1. Statement(Top) \in Statements
    BY Zenon, <1>2, StatementFacts
  <2>2. Top.frame \in FrameType
    BY Zenon, <1>2 DEF CallType
  <2>3. Top.frame.timeout \in BOOLEAN
    BY Zenon, <2>2 DEF FrameType
  <2>4. /\ "query" \in {"open", "query", "close"} /\ {"sent", "done"} \subseteq {"sent", "done"}
        /\ FALSE \in BOOLEAN
    BY Zenon
  <2>5. Operation("query", "done", NoStatement, FALSE, "err") \in OperationType
    BY Zenon, <2>4, OperationFacts
  <2>6. Operation("query", "sent", Statement(Top), Top.frame.timeout, "none") \in OperationType
    BY <2>1, <2>3, OperationFacts
  <2> QED BY Zenon, <2>5, <2>6
<1>5. ~(Depth = 0 \/ Stage("body"))
  BY <1>2 DEF Stage, ControlStages
<1> HIDE DEF o
<1> QED BY Zenon, <1>2, <1>3, <1>4, <1>5, StartKept

\* A write is sent: its number is new.
LEMMA WriteKept ==
  ASSUME PoisonInv, Write
  PROVE  PoisonInv'
<1>1. /\ Sound(calls, frames, poisoned, promised, writes) /\ BusyInv /\ seq \in [Conn -> Nat]
      /\ driver \in Drivers /\ op \in [Conn -> OperationType]
  BY DEF PoisonInv
<1>2. /\ calls' = calls /\ frames' = frames /\ poisoned' = poisoned /\ promised' = promised
      /\ writes' = writes + 1 /\ seq' = seq /\ driver' = driver
  BY ZenonT(40) DEF Write, QueryTask, history
<1>3. /\ writes \in Nat /\ Depth \in Nat /\ Here \in Conn /\ frames \in Heights
      /\ poisoned \subseteq 1..writes /\ promised \subseteq 1..writes
      /\ \A i \in 1..Depth : calls[i].kept \subseteq 1..writes
  <2>1. KeptOf(calls, promised, poisoned, writes)
    BY Zenon, <1>1 DEF Sound
  <2> QED BY SMTT(30), <1>1, <2>1, SoundFacts, MainAssumption DEF Here, Depth, Top, KeptOf
<1>4. PICK o \in OperationType : op' = [op EXCEPT ![Here] = o]
  <2> DEFINE st == [do |-> "write", id |-> writes + 1]
             timed == CurrentTxTimeout(Here)
  <2>1. st \in Statements
    BY <1>3 DEF Statements
  <2>2. timed \in BOOLEAN
    <3>1. frames[Here] \in Seq(FrameType)
      BY Zenon, <1>3 DEF Heights
    <3>2. CASE frames[Here] = <<>>
      BY Zenon, <3>2 DEF CurrentTxTimeout, InTransaction
    <3>3. CASE frames[Here] # <<>>
      <4>1. frames[Here][Len(frames[Here])] \in FrameType
        BY <3>1, <3>3
      <4>2. frames[Here][Len(frames[Here])].timeout \in BOOLEAN
        BY Zenon, <4>1 DEF FrameType
      <4> QED BY Zenon, <4>2 DEF CurrentTxTimeout, InTransaction
    <3> QED BY Zenon, <3>2, <3>3
  <2> HIDE DEF st, timed
  <2>3. \/ op' = [op EXCEPT ![Here] = Operation("query", "done", NoStatement, FALSE, "err")]
        \/ op' = [op EXCEPT ![Here] = Operation("query", "sent", st, timed, "none")]
    BY Zenon DEF Write, QueryTask, st, timed
  <2>4. FALSE \in BOOLEAN
    BY Zenon
  <2>5. Operation("query", "done", NoStatement, FALSE, "err") \in OperationType
    BY Zenon, <2>4, OperationFacts
  <2>6. Operation("query", "sent", st, timed, "none") \in OperationType
    BY <2>1, <2>2, OperationFacts
  <2> QED BY Zenon, <2>3, <2>5, <2>6
<1>5. Here' = Here
  BY Zenon, <1>2 DEF Here, Depth, Top
<1> HIDE DEF OperationType
<1>6. /\ op' \in [Conn -> OperationType]
      /\ \A c \in Conn : op'[c] = IF c = Here THEN o ELSE op[c]
  BY Zenon, <1>1, <1>3, <1>4
<1>7. writes' > 0 /\ writes' \notin Acknowledged'
  <2>1. writes + 1 \notin 1..writes /\ writes + 1 > 0
    BY <1>3
  <2>2. Acknowledged \subseteq 1..writes
    BY Zenon, <1>3 DEF Acknowledged
  <2>3. Acknowledged' = Acknowledged
    BY Zenon, <1>2 DEF Acknowledged, Depth
  <2> QED BY ZenonT(40), <1>2, <2>1, <2>2, <2>3
<1>8. BusyInv'
  BY Zenon, <1>1, <1>5, <1>6, <1>7 DEF BusyInv
<1>9. Sound(calls', frames', poisoned', promised', writes')
  BY Zenon, <1>1, <1>2, SoundMore
<1> QED BY Zenon, <1>1, <1>2, <1>6, <1>8, <1>9 DEF PoisonInv

\* A write outside every transaction is acknowledged.
LEMMA SoundPromise ==
  ASSUME NEW cs, NEW fs, NEW P, NEW R, NEW w, Sound(cs, fs, P, R, w), Len(cs) = 0,
         NEW X \in SUBSET (1..w), X \cap P = {}
  PROVE  Sound(cs, fs, P, R \cup X, w)
<1>1. KeptOf(cs, R, P, w) /\ 1..Len(cs) = {}
  BY DEF Sound
<1>2. KeptOf(cs, R \cup X, P, w)
  BY Zenon, <1>1 DEF KeptOf
<1> QED BY Zenon, <1>2 DEF Sound

\* A write is answered: outside a transaction it is promised to the caller, in a
\* body the call keeps it.
LEMMA WriteDoneKept ==
  ASSUME PoisonInv, WriteDone
  PROVE  PoisonInv'
<1>1. /\ Sound(calls, frames, poisoned, promised, writes) /\ BusyInv /\ seq \in [Conn -> Nat]
      /\ driver \in Drivers /\ op \in [Conn -> OperationType]
  BY DEF PoisonInv
<1>2. /\ frames' = frames /\ poisoned' = poisoned /\ writes' = writes /\ seq' = seq
      /\ driver' = driver /\ op' = [op EXCEPT ![Here] = NoOp]
      /\ op[Here].kind = "query" /\ (Depth = 0 \/ Stage("body"))
  BY Zenon DEF WriteDone, Taken
<1>3. op' \in [Conn -> OperationType] /\ \A c \in Conn : op'[c] = NoOp
  BY ZenonT(60), <1>1, <1>2, TakenIsIdle
<1>4. writes > 0 /\ writes \notin Acknowledged /\ writes \in Nat /\ Depth \in Nat
  BY SMTT(30), <1>1, <1>2, SoundFacts DEF BusyInv, Depth
<1>5. /\ writes \notin promised /\ writes \notin poisoned /\ writes \in 1..writes
      /\ \A i \in 1..Depth : writes \notin calls[i].kept
  BY <1>4 DEF Acknowledged
<1>6. CASE Depth = 0
  <2> DEFINE X == IF Ok(Here) /\ ~control THEN {writes} ELSE {}
  <2>1. calls' = calls /\ promised' = promised \cup X
    BY Zenon, <1>6 DEF WriteDone
  <2>2. X \in SUBSET (1..writes) /\ X \cap poisoned = {}
    BY Zenon, <1>5
  <2> HIDE DEF X
  <2>3. Sound(calls, frames, poisoned, promised \cup X, writes)
    BY Zenon, <1>1, <1>6, <2>2, SoundPromise DEF Depth
  <2>4. Sound(calls', frames', poisoned', promised', writes')
    BY Zenon, <1>2, <2>1, <2>3
  <2> QED BY Zenon, <1>1, <1>2, <1>3, <2>4, IdleStep
<1>7. CASE Depth > 0
  <2> DEFINE X == IF Ok(Here) THEN {writes} ELSE {}
             k == [Top EXCEPT !.tried = @ \cup {writes},
                              !.kept = IF Ok(Here) THEN @ \cup {writes} ELSE @,
                              !.exc = IF Ok(Here) THEN "none" ELSE "sql"]
  <2>1. calls' = [calls EXCEPT ![Depth] = k] /\ promised' = promised /\ Top.stage = "body"
    BY <1>4, <1>7 DEF WriteDone, SetTop, Stage
  <2>2. Top \in CallType /\ Top.stage \in StagesOf(Top.kind)
    BY Zenon, <1>1, <1>7, SoundFacts DEF Depth, Top
  <2>3. /\ k \in CallType /\ k.kind = Top.kind /\ k.c = Top.c /\ k.stage = "body"
        /\ k.kept = Top.kept \cup X
    <3>1. /\ Top.kept \in SUBSET Nat /\ Top.tried \in SUBSET Nat
      BY Zenon, <2>2 DEF CallType
    <3>2. /\ Top.kept \cup {writes} \in SUBSET Nat /\ Top.tried \cup {writes} \in SUBSET Nat
      BY Zenon, <1>4, <3>1
    <3>3. k \in CallType
      BY Zenon, <2>2, <3>1, <3>2 DEF CallType
    <3>4. k.kind = Top.kind /\ k.c = Top.c /\ k.stage = Top.stage
          /\ k.kept = IF Ok(Here) THEN Top.kept \cup {writes} ELSE Top.kept
      BY Zenon, <2>2 DEF CallType
    <3> QED BY Zenon, <2>1, <3>3, <3>4
  <2>4. /\ X \in SUBSET (1..writes) /\ X \cap (promised \cup poisoned) = {}
        /\ \A i \in 1..Depth : X \cap calls[i].kept = {}
    BY Zenon, <1>5
  <2> HIDE DEF X, k
  <2>5. /\ Running(k) /\ Running(Top) /\ "body" \notin Opening \cup Closing
    BY Zenon, <2>1, <2>2, <2>3 DEF Running, Opening, Closing, StagesOf
  <2>6. Sound([calls EXCEPT ![Len(calls)] = k], frames, poisoned, promised, writes)
    BY Zenon, <1>1, <1>7, <2>1, <2>2, <2>3, <2>4, <2>5, SoundTop DEF Top, Depth
  <2>7. Sound(calls', frames', poisoned', promised', writes')
    BY Zenon, <1>2, <2>1, <2>6 DEF Depth
  <2> QED BY SMTT(30), <1>1, <1>2, <1>3, <2>7, IdleStep
<1> QED BY <1>4, <1>6, <1>7

\* The body catches an exception.
LEMMA CatchKept ==
  ASSUME PoisonInv, Catch
  PROVE  PoisonInv'
<1>1. /\ Sound(calls, frames, poisoned, promised, writes) /\ BusyInv /\ seq \in [Conn -> Nat]
      /\ driver \in Drivers /\ op \in [Conn -> OperationType]
  BY DEF PoisonInv
<1> DEFINE k == [Top EXCEPT !.exc = "none", !.swallowed = @ \/ Top.exc = "sql"]
<1>2. /\ frames' = frames /\ poisoned' = poisoned /\ promised' = promised /\ writes' = writes
      /\ seq' = seq /\ driver' = driver /\ op' = op /\ calls' = [calls EXCEPT ![Depth] = k]
      /\ Depth > 0 /\ Top.stage = "body"
  BY Zenon DEF Catch, SetTop, Stage, connVars, history
<1>3. calls \in Seq(CallType) /\ Depth \in Nat /\ Top \in CallType /\ Top.stage \in StagesOf(Top.kind)
  BY Zenon, <1>1, <1>2, SoundFacts DEF Depth, Top
<1>4. /\ k \in CallType /\ k.kind = Top.kind /\ k.c = Top.c /\ k.kept = Top.kept
      /\ k.stage = "body"
  BY Zenon, <1>2, <1>3 DEF CallType
<1> HIDE DEF k
<1>5. /\ Len(calls') = Depth /\ \A i \in 1..Depth : calls'[i] = IF i = Depth THEN k ELSE calls[i]
  BY <1>2, <1>3, <1>4 DEF Depth
<1>6. GoesOn(k, Top)
  BY Zenon, <1>2, <1>3, <1>4 DEF GoesOn, Running, Opening, Closing
<1>7. Sound([calls EXCEPT ![Len(calls)] = k], frames, poisoned, promised, writes)
  BY Zenon, <1>1, <1>2, <1>4, <1>6, SoundGoesOn DEF Top, Depth
<1>8. Sound(calls', frames', poisoned', promised', writes')
  BY Zenon, <1>2, <1>7 DEF Depth
<1>9. BusyInv'
  <2>1. Depth' = Depth /\ Here' = Here /\ Stage("body")
    BY <1>2, <1>3, <1>4, <1>5 DEF Depth, Here, Top, Stage
  <2>2. \A i \in 1..Depth : calls'[i].kept = calls[i].kept
    BY Zenon, <1>4, <1>5 DEF Top
  <2>3. Acknowledged' = Acknowledged
    BY <1>2, <2>1, <2>2 DEF Acknowledged
  <2> QED BY Zenon, <1>1, <1>2, <2>1, <2>3 DEF BusyInv
<1> QED BY Zenon, <1>1, <1>2, <1>8, <1>9 DEF PoisonInv

\* The frames of a connection once the innermost one is marked.
LEMMA MarkedFacts ==
  ASSUME NEW fs \in Seq(FrameType), fs # <<>>
  PROVE  LET m == [fs EXCEPT ![Len(fs)].rollback_only = TRUE]
         IN  /\ m \in Seq(FrameType) /\ Len(m) = Len(fs) /\ Len(fs) > 0
             /\ m[Len(fs)].rollback_only
             /\ \A l \in 1..Len(fs) : fs[l].rollback_only => m[l].rollback_only
<1> DEFINE g == [fs[Len(fs)] EXCEPT !.rollback_only = TRUE]
           m == [fs EXCEPT ![Len(fs)] = g]
<1>1. Len(fs) \in Nat /\ Len(fs) > 0 /\ fs[Len(fs)] \in FrameType
  OBVIOUS
<1>2. g \in FrameType /\ g.rollback_only
  BY Zenon, <1>1 DEF FrameType
<1>3. m = [fs EXCEPT ![Len(fs)].rollback_only = TRUE]
  BY Zenon
<1> HIDE DEF g
<1>4. /\ m \in Seq(FrameType) /\ Len(m) = Len(fs)
      /\ \A l \in 1..Len(fs) : m[l] = IF l = Len(fs) THEN g ELSE fs[l]
  BY <1>1, <1>2
<1> HIDE DEF m
<1> QED BY SMTT(30), <1>1, <1>2, <1>3, <1>4

\* set_rollback_only marks the innermost boundary.
LEMMA SetRollbackOnlyKept ==
  ASSUME PoisonInv, SetRollbackOnly
  PROVE  PoisonInv'
<1>1. /\ Sound(calls, frames, poisoned, promised, writes) /\ BusyInv /\ seq \in [Conn -> Nat]
      /\ driver \in Drivers /\ op \in [Conn -> OperationType]
  BY DEF PoisonInv
<1> DEFINE c == Top.c
           m == [frames[c] EXCEPT ![Len(frames[c])].rollback_only = TRUE]
<1>2. /\ calls' = calls /\ poisoned' = poisoned /\ promised' = promised /\ writes' = writes
      /\ seq' = seq /\ driver' = driver /\ op' = op /\ Depth > 0 /\ frames[c] # <<>>
  BY Zenon DEF SetRollbackOnly, InBody, InTransaction, Stage, connVars, history
<1>3. frames' = [frames EXCEPT ![c] = m]
  BY ZenonT(60) DEF SetRollbackOnly
<1>4. c \in Conn /\ frames \in Heights /\ Depth \in Nat
  BY <1>1, <1>2, SoundFacts, MainAssumption DEF Depth, Top
<1>5. frames[c] \in Seq(FrameType)
  BY Zenon, <1>4 DEF Heights
<1>6. /\ m \in Seq(FrameType) /\ Len(m) = Len(frames[c])
      /\ \A l \in 1..Len(frames[c]) : frames[c][l].rollback_only => m[l].rollback_only
  BY Zenon, <1>2, <1>5, MarkedFacts
<1> HIDE DEF m, c
<1>7. frames' \in Heights /\ \A b \in Conn : frames'[b] = IF b = c THEN m ELSE frames[b]
  BY Zenon, <1>3, <1>4, <1>6 DEF Heights
<1>8. \A b \in {Main, Isolated} :
        /\ Len(frames'[b]) = Len(frames[b])
        /\ \A l \in 1..Len(frames[b]) : frames[b][l].rollback_only => frames'[b][l].rollback_only
  BY Zenon, <1>4, <1>6, <1>7, MainAssumption
<1>9. Sound(calls, frames', poisoned, promised, writes)
  BY Zenon, <1>1, <1>7, <1>8, SoundMark
<1>10. Sound(calls', frames', poisoned', promised', writes')
  BY ZenonT(60), <1>2, <1>9
<1>11. BusyInv'
  BY <1>1, <1>2 DEF BusyInv, Acknowledged, Depth, Here, Top, Stage
<1> QED BY Zenon, <1>1, <1>2, <1>10, <1>11 DEF PoisonInv

\* The frames of a connection once a body on it has ended.
LEMMA EndedFacts ==
  ASSUME frames \in Heights, NEW c \in Conn, NEW failed \in BOOLEAN, Len(frames[c]) > 0
  PROVE  /\ Marked(c, failed) \in Seq(FrameType) /\ Len(Marked(c, failed)) = Len(frames[c])
         /\ failed => Marked(c, failed)[Len(frames[c])].rollback_only
         /\ \A l \in 1..Len(frames[c]) :
              frames[c][l].rollback_only => Marked(c, failed)[l].rollback_only
<1>1. frames[c] \in Seq(FrameType) /\ frames[c] # <<>>
  BY DEF Heights
<1>2. CASE failed
  BY Zenon, <1>1, <1>2, MarkedFacts DEF Marked, InTransaction
<1>3. CASE ~failed
  BY Zenon, <1>1, <1>3 DEF Marked
<1> QED BY Zenon, <1>2, <1>3

\* A body ends: a joined call returns to the boundary it ran in, a boundary
\* takes its frame along to the statements that close it.
LEMMA BodyEndsKept ==
  ASSUME PoisonInv, NEW exc \in {"none", "app", "sql"}, BodyEnds(exc)
  PROVE  PoisonInv'
<1>1. /\ Sound(calls, frames, poisoned, promised, writes) /\ BusyInv /\ seq \in [Conn -> Nat]
      /\ driver \in Drivers /\ op \in [Conn -> OperationType]
  BY Zenon DEF PoisonInv
<1> DEFINE c == Top.c
           failed == exc # "none"
           m == Marked(c, failed)
           f == m[Len(m)]
           stage == CASE f.savepoint = 0 -> "final"
                      [] f.rollback_only -> "rollto"
                      [] OTHER -> "release"
           k == [Top EXCEPT !.exc = exc, !.frame = f, !.stage = stage]
<1>2. /\ Depth > 0 /\ Top.stage = "body" /\ op[c] = NoOp /\ op' = op /\ driver' = driver
      /\ seq' = seq /\ writes' = writes
  BY Zenon DEF BodyEnds, Stage, Guard, connVars
<1>3. /\ IF Top.kind = "join"
         THEN frames' = [frames EXCEPT ![c] = m] /\ Returns(Top, exc)
         ELSE /\ frames' = [frames EXCEPT ![c] = SubSeq(m, 1, Len(m) - 1)]
              /\ calls' = [calls EXCEPT ![Depth] = k]
              /\ poisoned' = poisoned /\ promised' = promised
  BY ZenonT(60) DEF BodyEnds, SetTop, history
<1>4. /\ frames \in Heights /\ Depth \in Nat /\ Top \in CallType /\ Top.stage \in StagesOf(Top.kind)
      /\ Top.kind \in {"root", "sp", "join", "iso"} /\ c \in {Main, Isolated} /\ c \in Conn
      /\ Running(Top) => Len(frames[c]) > 0
  BY SMTT(30), <1>1, <1>2, SoundFacts, MainAssumption DEF Depth, Top
<1>5. Running(Top) /\ Top.kind \in {"root", "sp", "join"} /\ Len(frames[c]) > 0
  BY Zenon, <1>2, <1>4 DEF Running, StagesOf
<1>6. \A b \in Conn : op'[b] = NoOp
  <2>1. Here = c
    BY <1>2, <1>4 DEF Here
  <2> QED BY Zenon, <1>1, <1>2, <2>1 DEF BusyInv
<1>7. /\ m \in Seq(FrameType) /\ Len(m) = Len(frames[c])
      /\ failed => m[Len(frames[c])].rollback_only
      /\ \A l \in 1..Len(frames[c]) : frames[c][l].rollback_only => m[l].rollback_only
  <2>1. failed \in BOOLEAN
    BY Zenon
  <2> HIDE DEF failed, c
  <2> QED BY Zenon, <1>4, <1>5, <2>1, EndedFacts
<1>8. f \in FrameType
  <2> HIDE DEF m
  <2> QED BY <1>5, <1>7
<1>9. stage \in {"final", "rollto", "release"}
  BY Zenon
<1> HIDE DEF stage, f, m
<1>10. CASE Top.kind = "join"
  <2>1. frames' = [frames EXCEPT ![c] = m] /\ Returns(Top, exc)
    BY Zenon, <1>3, <1>10
  <2>2. frames' \in Heights /\ \A b \in Conn : frames'[b] = IF b = c THEN m ELSE frames[b]
    BY Zenon, <1>4, <1>7, <2>1 DEF Heights
  <2>3. \A b \in {Main, Isolated} :
          /\ Len(frames'[b]) = Len(frames[b])
          /\ \A l \in 1..Len(frames[b]) : frames[b][l].rollback_only => frames'[b][l].rollback_only
    BY ZenonT(60), <1>4, <1>7, <2>2, MainAssumption
  <2>4. Sound(calls, frames', poisoned, promised, writes)
    BY Zenon, <1>1, <2>2, <2>3, SoundMark
  <2>5. frames'[Top.c] = m
    BY Zenon, <1>4, <2>2
  <2>6. MayReturn(Top, frames', poisoned, exc)
    BY Zenon, <1>7, <1>10, <2>5 DEF MayReturn
  <2> HIDE DEF c
  <2> DEFINE gs == frames'
  <2>7. Sound(calls, gs, poisoned, promised, writes) /\ MayReturn(Top, gs, poisoned, exc)
    BY Zenon, <2>4, <2>6
  <2> HIDE DEF gs
  <2>8. Sound(calls', gs, poisoned', promised', writes)
    BY Zenon, <1>2, <2>1, <2>7, ReturnsSound
  <2>9. Sound(calls', frames', poisoned', promised', writes')
    BY Zenon, <1>2, <2>8 DEF gs
  <2> QED BY Zenon, <1>1, <1>2, <1>6, <2>9, IdleStep
<1>11. CASE Top.kind # "join"
  <2>1. /\ frames' = [frames EXCEPT ![c] = SubSeq(m, 1, Len(m) - 1)]
        /\ calls' = [calls EXCEPT ![Len(calls)] = k]
        /\ poisoned' = poisoned /\ promised' = promised
    BY Zenon, <1>3, <1>11 DEF Depth
  <2>2. /\ k \in CallType /\ k.kind = Top.kind /\ k.c = Top.c /\ k.kept = Top.kept
        /\ k.stage = stage /\ k.frame = f
    BY Zenon, <1>4, <1>8, <1>9 DEF CallType, Closing
  <2>3. stage \in Closing /\ stage \in StagesOf(Top.kind) /\ Top.kind \in {"root", "sp"}
    BY Zenon, <1>5, <1>9, <1>11 DEF Closing, StagesOf
  <2> HIDE DEF k
  <2>4. /\ k.kind = calls[Len(calls)].kind /\ k.c = calls[Len(calls)].c
        /\ k.kept = calls[Len(calls)].kept /\ Running(calls[Len(calls)]) /\ Len(calls) > 0
        /\ k.kind \in {"root", "sp"} /\ k.stage \in Closing /\ k.stage \in StagesOf(k.kind)
        /\ Len(m) = Len(frames[k.c]) /\ k.frame = m[Len(m)]
        /\ \A l \in 1..Len(m) : frames[k.c][l].rollback_only => m[l].rollback_only
    BY Zenon, <1>2, <1>5, <1>7, <2>2, <2>3 DEF Top, Depth, f
  <2>5. Sound([calls EXCEPT ![Len(calls)] = k],
              [frames EXCEPT ![k.c] = SubSeq(m, 1, Len(m) - 1)], poisoned, promised, writes)
    BY Zenon, <1>1, <1>7, <2>2, <2>4, SoundBody
  <2>6. Sound(calls', frames', poisoned', promised', writes')
    BY Zenon, <1>2, <2>1, <2>2, <2>5
  <2> QED BY Zenon, <1>1, <1>2, <1>6, <2>6, IdleStep
<1> QED BY Zenon, <1>10, <1>11

\* The connection goes to its next user.
LEMMA HandoverKept ==
  ASSUME PoisonInv, Handover
  PROVE  PoisonInv'
<1>1. /\ calls' = calls /\ frames' = frames /\ poisoned' = poisoned /\ promised' = promised
      /\ writes' = writes /\ driver' = driver /\ op' = op
  BY Zenon DEF Handover, connVars, history
<1>2. seq' \in [Conn -> Nat]
  BY Zenon, MainAssumption DEF PoisonInv, Handover
<1>3. BusyInv'
  BY <1>1 DEF PoisonInv, BusyInv, Acknowledged, Depth, Here, Top, Stage
<1> QED BY Zenon, <1>1, <1>2, <1>3 DEF PoisonInv

\* The loop and the driver move a connection: the operations stay what they are.
LEMMA ConnStepKept ==
  ASSUME PoisonInv, NEW c \in Conn, ConnStep(c), UNCHANGED txVars, driver' = driver
  PROVE  PoisonInv'
<1>1. /\ Sound(calls, frames, poisoned, promised, writes) /\ BusyInv /\ seq \in [Conn -> Nat]
      /\ driver \in Drivers /\ op \in [Conn -> OperationType]
  BY Zenon DEF PoisonInv
<1>2. /\ calls' = calls /\ frames' = frames /\ poisoned' = poisoned /\ promised' = promised
      /\ writes' = writes /\ seq' = seq
  BY Zenon DEF txVars
<1>3. /\ op' \in [Conn -> OperationType]
      /\ \A b \in Conn : op'[b].kind = op[b].kind /\ (op[b] = NoOp => op'[b] = NoOp)
  BY ZenonT(40), <1>1, OperationsKept
<1>4. Here \in Conn /\ Here' = Here /\ Depth' = Depth /\ (Stage("body")' <=> Stage("body"))
  BY <1>1, <1>2, SoundFacts, MainAssumption DEF Here, Depth, Top, Stage
<1>5. Acknowledged' = Acknowledged
  BY ZenonT(40), <1>2, <1>4 DEF Acknowledged
<1> HIDE DEF OperationType
<1>6. BusyInv'
  BY Zenon, <1>1, <1>2, <1>3, <1>4, <1>5 DEF BusyInv
<1>7. Sound(calls', frames', poisoned', promised', writes')
  BY Zenon, <1>1, <1>2
<1> QED BY Zenon, <1>1, <1>2, <1>3, <1>6, <1>7 DEF PoisonInv

\* At the start there is no call and no frame.
LEMMA PoisonInit ==
  ASSUME TxInit
  PROVE  PoisonInv
<1>1. /\ calls = <<>> /\ frames = [c \in Conn |-> <<>>] /\ seq = [c \in Conn |-> 0]
      /\ writes = 0 /\ promised = {} /\ poisoned = {} /\ driver \in Drivers
      /\ op = [c \in Conn |-> NoOp]
  BY Zenon DEF TxInit, ConnInit
<1>2. op \in [Conn -> OperationType] /\ seq \in [Conn -> Nat] /\ \A c \in Conn : op[c] = NoOp
  BY <1>1, OperationFacts
<1>3. calls \in Seq(CallType) /\ Len(calls) = 0 /\ 1..Len(calls) = {}
  BY <1>1
<1>4. /\ frames \in Heights /\ Len(frames[Main]) = 0 /\ Len(frames[Isolated]) = 0
  BY <1>1, MainAssumption DEF Heights
<1>5. StackOf(calls) /\ KeptOf(calls, promised, poisoned, writes)
  BY Zenon, <1>1, <1>3 DEF StackOf, KeptOf
<1>6. \E level \in [1..Len(calls) -> 0..Len(calls)] :
        LevelsOf(calls, frames, level) /\ MarksOf(calls, frames, poisoned, level)
  <2> DEFINE level == [i \in 1..Len(calls) |-> 0]
  <2>1. level \in [1..Len(calls) -> 0..Len(calls)]
    BY Zenon, <1>3
  <2> HIDE DEF level
  <2>2. LevelsOf(calls, frames, level)
    BY Zenon, <1>3, <1>4 DEF LevelsOf
  <2>3. MarksOf(calls, frames, poisoned, level)
    BY Zenon, <1>3 DEF MarksOf
  <2> QED BY Zenon, <2>1, <2>2, <2>3
<1>7. Sound(calls, frames, poisoned, promised, writes)
  BY ZenonT(60), <1>1, <1>3, <1>4, <1>5, <1>6 DEF Sound
<1>8. BusyInv
  <2>1. Here = Main /\ Main \in Conn
    BY Zenon, <1>3, MainAssumption DEF Here, Depth
  <2>2. op[Here].kind = "none"
    BY Zenon, <1>2, <2>1, OperationFacts
  <2> QED BY Zenon, <1>2, <2>2 DEF BusyInv
<1> QED BY Zenon, <1>1, <1>2, <1>7, <1>8 DEF PoisonInv

\* Every step of the ORM, of the connection under it and of the program.
LEMMA PoisonStep ==
  ASSUME PoisonInv, [TxNext]_allVars
  PROVE  PoisonInv'
<1>1. CASE \E o \in Options : Tx(o)
  BY Zenon, <1>1, TxKept
<1>2. CASE IsoOpen \/ IsoClose \/ OpenMain \/ MainOpened
  BY Zenon, <1>2, OpenCloseKept
<1>3. CASE IsoOpened
  BY Zenon, <1>3, IsoOpenedKept
<1>4. CASE IsoClosed
  BY Zenon, <1>4, IsoClosedKept
<1>5. CASE ExecuteControl
  BY Zenon, <1>5, ExecuteControlKept
<1>6. CASE Control
  BY <1>6, ControlKept
<1>7. CASE Write
  BY SMTT(30), <1>7, WriteKept
<1>8. CASE WriteDone
  BY <1>8, WriteDoneKept
<1>9. CASE Catch
  BY <1>9, CatchKept
<1>10. CASE SetRollbackOnly
  BY <1>10, SetRollbackOnlyKept
<1>11. CASE \E exc \in {"none", "app", "sql"} : BodyEnds(exc)
  BY Zenon, <1>11, BodyEndsKept
<1>12. CASE Handover
  BY <1>12, HandoverKept
<1>13. CASE \E c \in Conn : ConnStep(c) /\ UNCHANGED txVars
  <2>1. PICK c \in Conn : ConnStep(c) /\ UNCHANGED txVars
    BY Zenon, <1>13
  <2>2. driver' = driver
    BY Zenon, <2>1 DEF ConnStep, OpenDone, OpenFails, OpenTimeout, ServerRuns, ServerFails, Answer,
         QueryTimeout, StrayRuns, CancelTask, SignalLands
  <2> QED BY Zenon, <2>1, <2>2, ConnStepKept
<1>14. CASE UNCHANGED allVars
  <2>1. /\ calls' = calls /\ frames' = frames /\ poisoned' = poisoned /\ promised' = promised
        /\ writes' = writes /\ driver' = driver /\ op' = op /\ seq' = seq
    BY ZenonT(60), <1>14 DEF allVars, txVars, connVars
  <2>2. BusyInv'
    BY <2>1 DEF PoisonInv, BusyInv, Acknowledged, Depth, Here, Top, Stage
  <2> QED BY Zenon, <2>1, <2>2 DEF PoisonInv
<1> QED
  BY ZenonT(60), <1>1, <1>2, <1>3, <1>4, <1>5, <1>6, <1>7, <1>8, <1>9, <1>10, <1>11, <1>12, <1>13, <1>14
     DEF TxNext

\* The inductive invariant of Mapper::tx, for any connections, driver, number of
\* faults, options, calls and writes: the stack of tx() calls fits the stack of
\* frames, every boundary that holds a write of a joined call that failed is
\* marked rollback_only, and a write is acknowledged to one call only.
THEOREM TransactionInvariant == TxSpec => []PoisonInv
<1>1. TxInit => PoisonInv
  BY Zenon, PoisonInit
<1>2. PoisonInv /\ [TxNext]_allVars => PoisonInv'
  BY Zenon, PoisonStep
<1> QED BY <1>1, <1>2, PTL DEF TxSpec

\* Mapper::tx never commits as a success the boundary in which a joined call
\* failed, even when the body caught the failure (PoisonedNeverKept).
THEOREM FailedJoinNeverCommits == TxSpec => []PoisonedNeverKept
<1>1. PoisonInv => PoisonedNeverKept
  BY Zenon DEF PoisonInv, Sound, KeptOf, PoisonedNeverKept
<1> QED BY <1>1, TransactionInvariant, PTL
=============================================================================
