---------------------- MODULE BlockProcessorStepProofs ----------------------
(***************************************************************************)
(* What each step of the block processor does to its queues, its unchecked *)
(* table and its gap cache, given a sound ledger.  Queues come first: what *)
(* dropping elements, splitting and joining do to the blocks they hold.    *)
(***************************************************************************)
EXTENDS BlockProcessorInvariant, LedgerProofs, SequenceTheorems
-----------------------------------------------------------------------------
(* Dropping elements of a queue *)

KeptBy(g, s, S) ==
    g = [i \in 0 .. Len(s) |->
            IF i = 0 THEN <<>>
            ELSE IF s[i] \in S THEN Append(g[i - 1], s[i]) ELSE g[i - 1]]

LEMMA KeptDef == ASSUME NEW s, NEW S PROVE Kept(s, S) = (CHOOSE g : KeptBy(g, s, S))[Len(s)]
BY Zenon DEF Kept, KeptBy

\* The function that defines Kept exists
LEMMA KeptExists ==
    ASSUME NEW T, NEW s \in Seq(T), NEW S
    PROVE  \E g : KeptBy(g, s, S)
<1> DEFINE Step(g, i) == IF i = 0 THEN <<>>
                         ELSE IF s[i] \in S THEN Append(g[i - 1], s[i]) ELSE g[i - 1]
           P == {n \in Nat : \E g : \A i \in 0 .. n : g[i] = Step(g, i)}
<1>1. 0 \in P
  <2> DEFINE g == [i \in {0} |-> <<>>]
  <2>1. \A i \in 0 .. 0 : g[i] = Step(g, i)
    OBVIOUS
  <2> QED BY <2>1, Zenon
<1>2. ASSUME NEW n \in Nat, n \in P PROVE n + 1 \in P
  <2>1. PICK g : \A i \in 0 .. n : g[i] = Step(g, i)
    BY <1>2, Zenon
  <2> DEFINE h == [i \in 0 .. n + 1 |-> Step(g, i)]
  <2>2. \A i \in 0 .. n : h[i] = g[i]
    BY <2>1
  <2>3. ASSUME NEW i \in 0 .. n + 1 PROVE h[i] = Step(h, i)
    <3>1. CASE i = 0
      BY <3>1, Zenon
    <3>2. CASE i # 0
      <4>1. i - 1 \in 0 .. n
        BY <3>2
      <4>2. h[i - 1] = g[i - 1]
        BY <2>2, <4>1, Zenon
      <4> QED BY <4>2, Zenon
    <3> QED BY <3>1, <3>2, Zenon
  <2> HIDE DEF h
  <2> QED BY <2>3
<1> HIDE DEF P
<1>3. Len(s) \in P
  BY <1>1, <1>2, NatSetInduction
<1>4. PICK g : \A i \in 0 .. Len(s) : g[i] = Step(g, i)
  BY <1>3, Zenon DEF P
<1> DEFINE h == [i \in 0 .. Len(s) |-> g[i]]
<1>5. \A i \in 0 .. Len(s) : h[i] = Step(h, i)
  <2> TAKE i \in 0 .. Len(s)
  <2>1. CASE i = 0
    BY <1>4, <2>1, Zenon
  <2>2. CASE i # 0
    <3>1. i - 1 \in 0 .. Len(s)
      BY <2>2
    <3> QED BY <1>4, <3>1, Zenon
  <2> QED BY <2>1, <2>2, Zenon
<1>6. h = [i \in 0 .. Len(s) |-> Step(h, i)]
  BY <1>5, Zenon
<1> HIDE DEF h
<1> QED BY <1>6, Zenon DEF KeptBy

\* e says where the elements of t come from in s
Embeds(e, t, s) ==
    /\ e \in [1 .. Len(t) -> 1 .. Len(s)]
    /\ \A i \in 1 .. Len(t) : t[i] = s[e[i]]
    /\ \A i, j \in 1 .. Len(t) : e[i] = e[j] => i = j

\* What is kept is a part of the sequence, in S
LEMMA KeptFacts ==
    ASSUME NEW T, NEW s \in Seq(T), NEW S
    PROVE  /\ Kept(s, S) \in Seq(T \cap S)
           /\ Len(Kept(s, S)) <= Len(s)
           /\ \E e : Embeds(e, Kept(s, S), s)
<1> DEFINE g == CHOOSE g : KeptBy(g, s, S)
<1>1. KeptBy(g, s, S)
  BY KeptExists, Zenon
<1>2. Kept(s, S) = g[Len(s)]
  BY KeptDef, Zenon
<1> HIDE DEF g
<1>3. \A i \in 0 .. Len(s) : g[i] = IF i = 0 THEN <<>>
                                    ELSE IF s[i] \in S THEN Append(g[i - 1], s[i]) ELSE g[i - 1]
  BY <1>1, Zenon DEF KeptBy
<1> DEFINE Good(n) == /\ g[n] \in Seq(T \cap S) /\ Len(g[n]) <= n
                      /\ \E e : /\ e \in [1 .. Len(g[n]) -> 1 .. n]
                                /\ \A i \in 1 .. Len(g[n]) : g[n][i] = s[e[i]]
                                /\ \A i, j \in 1 .. Len(g[n]) : e[i] = e[j] => i = j
           P == {n \in Nat : n <= Len(s) => Good(n)}
<1> HIDE DEF Good
<1>4. 0 \in P
  <2>1. g[0] = <<>> /\ Len(g[0]) = 0
    BY <1>3
  <2> DEFINE e == [i \in 1 .. 0 |-> 0]
  <2>2. /\ e \in [1 .. Len(g[0]) -> 1 .. 0]
        /\ \A i \in 1 .. Len(g[0]) : g[0][i] = s[e[i]]
        /\ \A i, j \in 1 .. Len(g[0]) : e[i] = e[j] => i = j
    BY <2>1
  <2> HIDE DEF e
  <2>3. \E d : /\ d \in [1 .. Len(g[0]) -> 1 .. 0]
               /\ \A i \in 1 .. Len(g[0]) : g[0][i] = s[d[i]]
               /\ \A i, j \in 1 .. Len(g[0]) : d[i] = d[j] => i = j
    BY <2>2, Zenon
  <2>4. g[0] \in Seq(T \cap S) /\ Len(g[0]) <= 0
    BY <2>1
  <2>5. Good(0)
    BY <2>3, <2>4, Zenon DEF Good
  <2> QED BY <2>5, Zenon
<1>5. ASSUME NEW n \in Nat, n \in P PROVE n + 1 \in P
  <2> SUFFICES ASSUME n + 1 <= Len(s) PROVE Good(n + 1)
    OBVIOUS
  <2>0. Good(n)
    BY <1>5
  <2>1. g[n] \in Seq(T \cap S) /\ Len(g[n]) <= n /\ Len(g[n]) \in Nat
    BY <2>0 DEF Good
  <2>2. g[n + 1] = IF s[n + 1] \in S THEN Append(g[n], s[n + 1]) ELSE g[n]
    BY <1>3
  <2>3. PICK e : /\ e \in [1 .. Len(g[n]) -> 1 .. n]
                 /\ \A i \in 1 .. Len(g[n]) : g[n][i] = s[e[i]]
                 /\ \A i, j \in 1 .. Len(g[n]) : e[i] = e[j] => i = j
    BY <2>0, Zenon DEF Good
  <2>4. CASE s[n + 1] \notin S
    <3>1. g[n + 1] = g[n]
      BY <2>2, <2>4, Zenon
    <3>2. e \in [1 .. Len(g[n + 1]) -> 1 .. n + 1]
      BY <2>1, <2>3, <3>1
    <3>3. g[n + 1] \in Seq(T \cap S) /\ Len(g[n + 1]) <= n + 1
      BY <2>1, <3>1
    <3>4. \E d : /\ d \in [1 .. Len(g[n + 1]) -> 1 .. n + 1]
                 /\ \A i \in 1 .. Len(g[n + 1]) : g[n + 1][i] = s[d[i]]
                 /\ \A i, j \in 1 .. Len(g[n + 1]) : d[i] = d[j] => i = j
      <4>1. /\ \A i \in 1 .. Len(g[n + 1]) : g[n + 1][i] = s[e[i]]
            /\ \A i, j \in 1 .. Len(g[n + 1]) : e[i] = e[j] => i = j
        BY <2>3, <3>1
      <4> QED BY <3>2, <4>1, Zenon
    <3> QED BY <3>3, <3>4, Zenon DEF Good
  <2>5. CASE s[n + 1] \in S
    <3>1. g[n + 1] = Append(g[n], s[n + 1]) /\ s[n + 1] \in T \cap S
      BY <2>2, <2>5
    <3>2. /\ g[n + 1] \in Seq(T \cap S) /\ Len(g[n + 1]) = Len(g[n]) + 1
          /\ \A i \in 1 .. Len(g[n]) : g[n + 1][i] = g[n][i]
          /\ g[n + 1][Len(g[n]) + 1] = s[n + 1]
      BY <2>1, <3>1
    <3> DEFINE f == [i \in 1 .. Len(g[n + 1]) |-> IF i = Len(g[n + 1]) THEN n + 1 ELSE e[i]]
    <3>3. Len(g[n]) \in Nat
      BY <2>1, Zenon
    <3>4. f \in [1 .. Len(g[n + 1]) -> 1 .. n + 1]
      BY <2>3, <3>2, <3>3
    <3>5. \A i \in 1 .. Len(g[n + 1]) : g[n + 1][i] = s[f[i]]
      BY <2>3, <3>2, <3>3
    <3>f. \A i \in 1 .. Len(g[n + 1]) : f[i] = IF i = Len(g[n + 1]) THEN n + 1 ELSE e[i]
      BY Zenon
    <3> HIDE DEF f
    <3>d. \A i \in 1 .. Len(g[n + 1]) : i # Len(g[n + 1]) => i \in 1 .. Len(g[n])
      BY <3>2, <3>3
    <3>c. \A i \in 1 .. Len(g[n]) : e[i] \in 1 .. n /\ e[i] # n + 1
      BY <2>3
    <3>6. ASSUME NEW i \in 1 .. Len(g[n + 1]), NEW j \in 1 .. Len(g[n + 1]), f[i] = f[j]
          PROVE  i = j
      <4>1. CASE i = Len(g[n + 1]) /\ j = Len(g[n + 1])
        BY <4>1, Zenon
      <4>2. CASE i # Len(g[n + 1]) /\ j # Len(g[n + 1])
        BY <2>3, <3>f, <3>d, <3>6, <4>2, Zenon
      <4>3. CASE i = Len(g[n + 1]) /\ j # Len(g[n + 1])
        BY <3>c, <3>f, <3>d, <3>6, <4>3, Zenon
      <4>4. CASE i # Len(g[n + 1]) /\ j = Len(g[n + 1])
        BY <3>c, <3>f, <3>d, <3>6, <4>4, Zenon
      <4> QED BY <4>1, <4>2, <4>3, <4>4, Zenon
    <3>7. \E d : /\ d \in [1 .. Len(g[n + 1]) -> 1 .. n + 1]
                 /\ \A i \in 1 .. Len(g[n + 1]) : g[n + 1][i] = s[d[i]]
                 /\ \A i, j \in 1 .. Len(g[n + 1]) : d[i] = d[j] => i = j
      BY <3>4, <3>5, <3>6, Zenon
    <3>8. Len(g[n + 1]) <= n + 1
      BY <2>1, <3>2
    <3> QED BY <3>2, <3>7, <3>8, Zenon DEF Good
  <2> QED BY <2>4, <2>5, Zenon
<1> HIDE DEF P
<1>6. Len(s) \in P
  BY <1>4, <1>5, NatSetInduction
<1>7. Good(Len(s))
  BY <1>6 DEF P
<1> QED BY <1>2, <1>7 DEF Embeds, Good

\* A sequence cut in two
LEMMA CutSeq ==
    ASSUME NEW T, NEW s \in Seq(T), NEW n \in 0 .. Len(s)
    PROVE  /\ SubSeq(s, 1, n) \in Seq(T) /\ SubSeq(s, n + 1, Len(s)) \in Seq(T)
           /\ s = SubSeq(s, 1, n) \o SubSeq(s, n + 1, Len(s))
<1>1. SubSeq(s, 1, n) \o SubSeq(s, n + 1, Len(s)) = SubSeq(s, 1, Len(s))
  <2>1. 1 \in 1 .. Len(s) + 1 /\ n \in 1 - 1 .. Len(s) /\ Len(s) \in n .. Len(s)
    OBVIOUS
  <2> QED BY ONLY s \in Seq(T), <2>1, ConcatAdjacentSubSeq, Zenon
<1>2. SubSeq(s, 1, Len(s)) = s
  BY SubSeqFull, Zenon
<1>3. SubSeq(s, 1, n) \in Seq(T)
  BY SubSeqProperties
<1>4. SubSeq(s, n + 1, Len(s)) \in Seq(T)
  BY SubSeqProperties
<1> QED BY <1>1, <1>2, <1>3, <1>4, Zenon

\* A finite set as a sequence
LEMMA InSomeOrderFacts ==
    ASSUME NEW S, IsFiniteSet(S)
    PROVE  /\ InSomeOrder(S) \in Seq(S)
           /\ \A i, j \in DOMAIN InSomeOrder(S) : InSomeOrder(S)[i] = InSomeOrder(S)[j] => i = j
<1>1. Cardinality(S) \in Nat
  BY FS_CardinalityType, Zenon
<1>2. PICK f : f \in Bijection(1 .. Cardinality(S), S)
  BY FS_CardinalityType, Zenon DEF ExistsBijection
<1>3. f \in [1 .. Cardinality(S) -> S] /\ IsInjective(f)
  BY <1>2, Zenon DEF Bijection, Injection, IsInjective
<1>4. InSomeOrder(S) \in [1 .. Cardinality(S) -> S] /\ IsInjective(InSomeOrder(S))
  BY <1>3, Zenon DEF InSomeOrder
<1>5. DOMAIN InSomeOrder(S) = 1 .. Cardinality(S) /\ InSomeOrder(S) \in Seq(S)
  BY <1>1, <1>4
<1> QED BY <1>4, <1>5, Zenon DEF IsInjective
-----------------------------------------------------------------------------
(* The blocks that queues hold *)

LEMMA KeptHashes ==
    ASSUME NEW T, NEW s \in Seq(T), NEW S
    PROVE  /\ Hashes(Kept(s, S)) \subseteq Hashes(s)
           /\ Distinct(s) => Distinct(Kept(s, S))
<1>1. Kept(s, S) \in Seq(T \cap S)
  BY KeptFacts, Zenon
<1>2. PICK e : Embeds(e, Kept(s, S), s)
  BY KeptFacts, Zenon
<1>3. DOMAIN s = 1 .. Len(s) /\ DOMAIN Kept(s, S) = 1 .. Len(Kept(s, S))
  BY <1>1
<1> QED BY <1>2, <1>3 DEF Hashes, Distinct, Embeds

\* Elements kept for two different reasons are different blocks
LEMMA KeptApart ==
    ASSUME NEW T, NEW s \in Seq(T), NEW S, NEW R, S \cap R = {}, Distinct(s)
    PROVE  Hashes(Kept(s, S)) \cap Hashes(Kept(s, R)) = {}
<1>1. Kept(s, S) \in Seq(T \cap S) /\ Kept(s, R) \in Seq(T \cap R)
  BY KeptFacts, Zenon
<1>2. PICK e : Embeds(e, Kept(s, S), s)
  BY KeptFacts, Zenon
<1>3. PICK d : Embeds(d, Kept(s, R), s)
  BY KeptFacts, Zenon
<1> SUFFICES ASSUME NEW i \in 1 .. Len(Kept(s, S)), NEW j \in 1 .. Len(Kept(s, R)),
                    Kept(s, S)[i].hash = Kept(s, R)[j].hash
             PROVE  FALSE
  BY <1>1 DEF Hashes
<1>4. s[e[i]].hash = s[d[j]].hash /\ e[i] \in 1 .. Len(s) /\ d[j] \in 1 .. Len(s)
  BY <1>2, <1>3, Zenon DEF Embeds
<1>5. e[i] = d[j]
  BY <1>4 DEF Distinct
<1>6. Kept(s, S)[i] = Kept(s, R)[j]
  BY <1>2, <1>3, <1>5 DEF Embeds
<1> QED BY <1>1, <1>6

LEMMA JoinedHashes ==
    ASSUME NEW T, NEW s \in Seq(T), NEW t \in Seq(T)
    PROVE  Hashes(s \o t) = Hashes(s) \cup Hashes(t)
<1>1. /\ DOMAIN s = 1 .. Len(s) /\ DOMAIN t = 1 .. Len(t) /\ Len(s) \in Nat /\ Len(t) \in Nat
      /\ s \o t \in Seq(T) /\ Len(s \o t) = Len(s) + Len(t)
      /\ DOMAIN (s \o t) = 1 .. Len(s) + Len(t)
      /\ \A i \in 1 .. Len(s) + Len(t) : (s \o t)[i] = IF i <= Len(s) THEN s[i] ELSE t[i - Len(s)]
  OBVIOUS
<1>2. \A i \in DOMAIN t : Len(s) + i \in DOMAIN (s \o t) /\ (s \o t)[Len(s) + i] = t[i]
  BY <1>1
<1>3. \A i \in DOMAIN s : i \in DOMAIN (s \o t) /\ (s \o t)[i] = s[i]
  BY <1>1
<1>4. \A i \in DOMAIN (s \o t) : \/ i \in DOMAIN s /\ (s \o t)[i] = s[i]
                                 \/ i - Len(s) \in DOMAIN t /\ (s \o t)[i] = t[i - Len(s)]
  BY <1>1
<1>5. ASSUME NEW h \in Hashes(s \o t) PROVE h \in Hashes(s) \cup Hashes(t)
  <2>1. PICK i \in DOMAIN (s \o t) : h = (s \o t)[i].hash
    BY Zenon DEF Hashes
  <2> QED BY <1>4, <2>1, Zenon DEF Hashes
<1>6. ASSUME NEW h \in Hashes(s) PROVE h \in Hashes(s \o t)
  <2>1. PICK i \in DOMAIN s : h = s[i].hash
    BY Zenon DEF Hashes
  <2> QED BY <1>3, <2>1, Zenon DEF Hashes
<1>7. ASSUME NEW h \in Hashes(t) PROVE h \in Hashes(s \o t)
  <2>1. PICK i \in DOMAIN t : h = t[i].hash
    BY Zenon DEF Hashes
  <2> QED BY <1>2, <2>1, Zenon DEF Hashes
<1> QED BY <1>5, <1>6, <1>7, Zenon

LEMMA JoinedDistinct ==
    ASSUME NEW T, NEW s \in Seq(T), NEW t \in Seq(T)
    PROVE  Distinct(s \o t) <=> /\ Distinct(s) /\ Distinct(t)
                                /\ Hashes(s) \cap Hashes(t) = {}
<1>1. /\ DOMAIN s = 1 .. Len(s) /\ DOMAIN t = 1 .. Len(t) /\ Len(s) \in Nat /\ Len(t) \in Nat
      /\ DOMAIN (s \o t) = 1 .. Len(s) + Len(t)
      /\ \A i \in 1 .. Len(s) + Len(t) : (s \o t)[i] = IF i <= Len(s) THEN s[i] ELSE t[i - Len(s)]
  OBVIOUS
<1>2. \A i \in DOMAIN t : /\ i \in Nat /\ i >= 1 /\ Len(s) + i \in DOMAIN (s \o t)
                          /\ (s \o t)[Len(s) + i] = t[i]
  BY <1>1
<1>3. \A i \in DOMAIN s : i \in DOMAIN (s \o t) /\ (s \o t)[i] = s[i] /\ i <= Len(s)
  BY <1>1
<1>4. \A i \in DOMAIN (s \o t) :
         \/ i \in DOMAIN s /\ (s \o t)[i] = s[i]
         \/ i - Len(s) \in DOMAIN t /\ (s \o t)[i] = t[i - Len(s)] /\ i \in Nat
  BY <1>1
<1>5. ASSUME Distinct(s \o t)
      PROVE  Distinct(s) /\ Distinct(t) /\ Hashes(s) \cap Hashes(t) = {}
  <2>1. Distinct(s)
    BY <1>3, <1>5, Zenon DEF Distinct
  <2>2. Distinct(t)
    <3> SUFFICES ASSUME NEW i \in DOMAIN t, NEW j \in DOMAIN t, t[i].hash = t[j].hash
                 PROVE  i = j
      BY Zenon DEF Distinct
    <3>1. Len(s) + i = Len(s) + j
      BY <1>2, <1>5, Zenon DEF Distinct
    <3> QED BY <1>1, <1>2, <3>1
  <2>3. ASSUME NEW i \in DOMAIN s, NEW j \in DOMAIN t, s[i].hash = t[j].hash PROVE FALSE
    <3>1. i = Len(s) + j
      BY <1>2, <1>3, <1>5, <2>3, Zenon DEF Distinct
    <3> QED BY <1>1, <3>1
  <2> QED BY <2>1, <2>2, <2>3, Zenon DEF Hashes
<1>6. ASSUME Distinct(s), Distinct(t), Hashes(s) \cap Hashes(t) = {}
      PROVE  Distinct(s \o t)
  <2> SUFFICES ASSUME NEW i \in DOMAIN (s \o t), NEW j \in DOMAIN (s \o t),
                      (s \o t)[i].hash = (s \o t)[j].hash
               PROVE  i = j
    BY Zenon DEF Distinct
  <2>0. \A k \in DOMAIN s, l \in DOMAIN t : s[k].hash # t[l].hash
    BY <1>6, Zenon DEF Hashes
  <2>1. CASE i \in DOMAIN s /\ j \in DOMAIN s
    BY <1>3, <1>6, <2>1, Zenon DEF Distinct
  <2>2. CASE i \notin DOMAIN s /\ j \notin DOMAIN s
    <3>1. i - Len(s) = j - Len(s)
      BY <1>4, <1>6, <2>2, Zenon DEF Distinct
    <3> QED BY <1>1, <1>4, <2>2, <3>1
  <2>3. CASE i \in DOMAIN s /\ j \notin DOMAIN s
    BY <1>3, <1>4, <2>0, <2>3, Zenon
  <2>4. CASE i \notin DOMAIN s /\ j \in DOMAIN s
    BY <1>3, <1>4, <2>0, <2>4, Zenon
  <2> QED BY <2>1, <2>2, <2>3, <2>4, Zenon
<1> QED BY <1>5, <1>6, Zenon

LEMMA FirstAndRest ==
    ASSUME NEW T, NEW s \in Seq(T), s # <<>>
    PROVE  /\ Head(s) \in T /\ Tail(s) \in Seq(T)
           /\ Head(s).hash \in Hashes(s) /\ Hashes(Tail(s)) \subseteq Hashes(s)
           /\ Distinct(s) => Distinct(Tail(s)) /\ Head(s).hash \notin Hashes(Tail(s))
<1>1. /\ Head(s) \in T /\ Tail(s) \in Seq(T) /\ <<Head(s)>> \in Seq(T)
      /\ s = <<Head(s)>> \o Tail(s)
  OBVIOUS
<1>2. Hashes(<<Head(s)>>) = {Head(s).hash}
  BY DEF Hashes
<1>3. Hashes(s) = {Head(s).hash} \cup Hashes(Tail(s))
  <2>1. Hashes(<<Head(s)>> \o Tail(s)) = Hashes(<<Head(s)>>) \cup Hashes(Tail(s))
    BY <1>1, JoinedHashes, Zenon
  <2> QED BY <1>1, <1>2, <2>1, Zenon
<1>4. Distinct(s) => Distinct(Tail(s)) /\ {Head(s).hash} \cap Hashes(Tail(s)) = {}
  BY <1>1, <1>2, JoinedDistinct, Zenon
<1> QED BY <1>1, <1>3, <1>4, Zenon

-----------------------------------------------------------------------------
(* The queues of the processor *)

QueueTypes ==
    /\ queue \in Seq(UncheckedInfo) /\ state_blocks \in Seq(UncheckedInfo)
    /\ items \in Seq(UncheckedInfo)

LEMMA QueuedApart == QueueTypes => (QueuedOnce <=> QueuesApart)
<1> SUFFICES ASSUME QueueTypes PROVE QueuedOnce <=> QueuesApart
  BY Zenon
<1> USE DEF QueueTypes
<1>1. queue \o state_blocks \in Seq(UncheckedInfo)
  OBVIOUS
<1>2. /\ Hashes(queue \o state_blocks) = Hashes(queue) \cup Hashes(state_blocks)
      /\ Distinct(queue \o state_blocks) <=> /\ Distinct(queue) /\ Distinct(state_blocks)
                                             /\ Hashes(queue) \cap Hashes(state_blocks) = {}
  BY JoinedHashes, JoinedDistinct
<1>3. /\ Hashes((queue \o state_blocks) \o items) = Hashes(queue \o state_blocks) \cup Hashes(items)
      /\ Distinct((queue \o state_blocks) \o items) <=>
            /\ Distinct(queue \o state_blocks) /\ Distinct(items)
            /\ Hashes(queue \o state_blocks) \cap Hashes(items) = {}
  <2>1. PICK both : both = queue \o state_blocks
    BY Zenon
  <2>2. both \in Seq(UncheckedInfo)
    BY <1>1, <2>1, Zenon
  <2>3. /\ Hashes(both \o items) = Hashes(both) \cup Hashes(items)
        /\ Distinct(both \o items) <=> /\ Distinct(both) /\ Distinct(items)
                                       /\ Hashes(both) \cap Hashes(items) = {}
    BY <2>2, JoinedHashes, JoinedDistinct
  <2> QED BY <2>1, <2>3, Zenon
<1>4. QueuedOnce <=> Hashes(Queued) \subseteq blocks_hashes /\ Distinct(Queued)
  BY Zenon DEF QueuedOnce, Distinct
<1>5. Queued = (queue \o state_blocks) \o items
  BY Zenon DEF Queued
<1> QED BY <1>2, <1>3, <1>4, <1>5, Zenon DEF Apart, QueuesApart

LEMMA QueuedApartNext == QueueTypes' => (QueuedOnce' <=> QueuesApart')
BY QueuedApart, PTL

LEMMA TruthfulType == Truthful \subseteq UncheckedInfo /\ Unverified \subseteq UncheckedInfo
BY Zenon DEF Truthful, Unverified

LEMMA InfoHashes ==
    ASSUME NEW s \in Seq(UncheckedInfo) PROVE Hashes(s) \subseteq Hash
<1>1. \A i \in DOMAIN s : s[i] \in UncheckedInfo
  OBVIOUS
<1>2. \A info \in UncheckedInfo : info.hash \in Hash
  BY Zenon DEF UncheckedInfo
<1> QED BY <1>1, <1>2, Zenon DEF Hashes

LEMMA AddKeeps ==
    ASSUME QueuesInv, asleep \subseteq {"processor", "flusher"}, UNCHANGED items,
           NEW infos \in Seq(Truthful), Distinct(infos), AddAll(infos)
    PROVE  QueuesInv' /\ asleep' \subseteq {"processor", "flusher"}
<1> DEFINE Fresh == {info \in UncheckedInfo : ~Refused(info.hash)}
           accepted == Kept(infos, Fresh)
           late == Kept(accepted, Unverified)
           ready == Kept(accepted, UncheckedInfo \ Unverified)
<1>0. /\ state_blocks' = state_blocks \o late /\ queue' = queue \o ready
      /\ blocks_hashes' = blocks_hashes \cup Hashes(accepted)
      /\ asleep' = IF infos = <<>> THEN asleep ELSE {}
  BY Zenon DEF AddAll
<1>1. /\ accepted \in Seq(Truthful \cap Fresh)
      /\ Hashes(accepted) \subseteq Hashes(infos) /\ Distinct(accepted)
  BY KeptFacts, KeptHashes, Zenon
<1> HIDE DEF accepted
<1>2. /\ late \in Seq((Truthful \cap Fresh) \cap Unverified)
      /\ Hashes(late) \subseteq Hashes(accepted) /\ Distinct(late)
  BY <1>1, KeptFacts, KeptHashes, Zenon
<1>3. /\ ready \in Seq((Truthful \cap Fresh) \cap (UncheckedInfo \ Unverified))
      /\ Hashes(ready) \subseteq Hashes(accepted) /\ Distinct(ready)
  BY <1>1, KeptFacts, KeptHashes, Zenon
<1>4. Hashes(late) \cap Hashes(ready) = {}
  BY <1>1, KeptApart, Zenon
<1> HIDE DEF late, ready
<1>5. Hashes(accepted) \cap blocks_hashes = {}
  BY <1>1 DEF Hashes, Refused
<1> HIDE DEF Fresh
<1>6. late \in Seq(Truthful \cap Unverified) /\ ready \in Seq(Truthful)
  BY <1>2, <1>3
<1>7. Hashes(accepted) \subseteq Hash
  BY <1>1, InfoHashes, TruthfulType
<1>8. /\ Hashes(queue \o ready) = Hashes(queue) \cup Hashes(ready)
      /\ Distinct(queue \o ready) <=> /\ Distinct(queue) /\ Distinct(ready)
                                      /\ Hashes(queue) \cap Hashes(ready) = {}
  BY <1>6, JoinedHashes, JoinedDistinct DEF QueuesInv
<1>9. /\ Hashes(state_blocks \o late) = Hashes(state_blocks) \cup Hashes(late)
      /\ Distinct(state_blocks \o late) <=> /\ Distinct(state_blocks) /\ Distinct(late)
                                            /\ Hashes(state_blocks) \cap Hashes(late) = {}
  BY <1>6, JoinedHashes, JoinedDistinct DEF QueuesInv
<1>10. Apart(queue \o ready, state_blocks \o late, items, blocks_hashes \cup Hashes(accepted))
  BY <1>2, <1>3, <1>4, <1>5, <1>8, <1>9, Zenon DEF QueuesInv, QueuesApart, Apart
<1>11. queue' \in Seq(Truthful) /\ state_blocks' \in Seq(Truthful \cap Unverified)
  BY <1>0, <1>6 DEF QueuesInv
<1>12. Apart(queue', state_blocks', items', blocks_hashes')
  BY <1>0, <1>10, Zenon
<1>13. Truthful' = Truthful /\ Unverified' = Unverified
  BY Zenon DEF Truthful, Unverified, SignedBy
<1>14. QueuesApart'
  BY <1>12, Zenon DEF QueuesApart, Apart, Hashes, Distinct
<1>15. items' \in Seq(Truthful \cap Unverified) /\ blocks_hashes' \subseteq Hash
  BY <1>0, <1>7, Zenon DEF QueuesInv
<1> QED BY <1>0, <1>11, <1>13, <1>14, <1>15, Zenon DEF QueuesInv

\* verify_state_blocks takes a batch
LEMMA VerifyTakeKeeps ==
    ASSUME QueuesInv, NEW back, VerifyTake(back), UNCHANGED <<queue, blocks_hashes>>,
           VerifyMax \in Nat
    PROVE  QueuesInv'
<1>1. PICK n : n = IF Len(state_blocks) < VerifyMax THEN Len(state_blocks) ELSE VerifyMax
  BY Zenon
<1>2. PICK taken : taken = SubSeq(state_blocks, 1, n)
  BY Zenon
<1>3. PICK rest : rest = SubSeq(state_blocks, n + 1, Len(state_blocks))
  BY Zenon
<1>4. PICK Absent : Absent = {info \in UncheckedInfo : ~Exists(info.hash)}
  BY Zenon
<1>5. items' = Kept(taken, Absent) /\ state_blocks' = rest
  BY <1>1, <1>2, <1>3, <1>4, Zenon DEF VerifyTake
<1>6. n \in 0 .. Len(state_blocks)
  BY <1>1 DEF QueuesInv
<1>7. /\ taken \in Seq(Truthful \cap Unverified) /\ rest \in Seq(Truthful \cap Unverified)
      /\ state_blocks = taken \o rest
  BY <1>2, <1>3, <1>6, CutSeq, Zenon DEF QueuesInv
<1>8. /\ Hashes(state_blocks) = Hashes(taken) \cup Hashes(rest)
      /\ Distinct(taken) /\ Distinct(rest) /\ Hashes(taken) \cap Hashes(rest) = {}
  <2>1. /\ Hashes(taken \o rest) = Hashes(taken) \cup Hashes(rest)
        /\ Distinct(taken \o rest) => /\ Distinct(taken) /\ Distinct(rest)
                                      /\ Hashes(taken) \cap Hashes(rest) = {}
    BY <1>7, JoinedHashes, JoinedDistinct
  <2> QED BY <1>7, <2>1, Zenon DEF QueuesInv, QueuesApart, Apart
<1>9. PICK kept : kept = Kept(taken, Absent)
  BY Zenon
<1>10. kept \in Seq((Truthful \cap Unverified) \cap Absent)
  BY <1>7, <1>9, KeptFacts, Zenon
<1>11. Hashes(kept) \subseteq Hashes(taken) /\ Distinct(kept)
  BY <1>7, <1>8, <1>9, KeptHashes, Zenon
<1>12. kept \in Seq(Truthful \cap Unverified)
  BY <1>10
<1>13. Apart(queue, rest, kept, blocks_hashes)
  BY <1>8, <1>11, Zenon DEF QueuesInv, QueuesApart, Apart
<1>14. Apart(queue', state_blocks', items', blocks_hashes')
  BY <1>5, <1>9, <1>13, Zenon
<1>15. QueuesApart'
  BY <1>14, Zenon DEF QueuesApart, Apart, Hashes, Distinct
<1>16. Truthful' = Truthful /\ Unverified' = Unverified
  BY Zenon DEF Truthful, Unverified, SignedBy
<1> QED BY <1>5, <1>7, <1>9, <1>12, <1>15, <1>16, Zenon DEF QueuesInv

\* What the signature check says of a block is true
LEMMA VerdictTrue ==
    ASSUME NEW info \in Truthful \cap Unverified,
           NEW good, good => SignedBy(info.hash, SigningKey(info)),
           HasEpochLink(info.hash) \/ good,
           NEW v, v = CASE HasEpochLink(info.hash) /\ good -> "valid_epoch"
                        [] HasEpochLink(info.hash) /\ ~good -> "unknown"
                        [] OTHER -> "valid"
    PROVE  /\ [info EXCEPT !.verified = v] \in Truthful
           /\ [info EXCEPT !.verified = v].hash = info.hash
<1>1. PICK h \in Hash, a \in Key, w \in Verification :
         info = [hash |-> h, account |-> a, verified |-> w]
  BY Zenon DEF Truthful, UncheckedInfo
<1>2. a \in {Zero, Owner[h]}
  BY <1>1, Zenon DEF Truthful
<1>3. Content[h].type \in {"state", "open"} \/ a # Zero
  BY <1>1, Zenon DEF Unverified
<1>4. v \in Verification /\ [info EXCEPT !.verified = v] = [hash |-> h, account |-> a, verified |-> v]
  BY <1>1 DEF Verification
<1>5. v = "valid_epoch" => SignedBy(h, EpochSigner)
  BY <1>1, Zenon DEF SigningKey
<1>6. ASSUME v = "valid" PROVE SignedBy(h, Owner[h])
  <2>1. ~HasEpochLink(h) /\ SignedBy(h, SigningKey(info))
    BY <1>1, <1>6, Zenon
  <2>2. CASE a # Zero
    BY <1>1, <1>2, <2>1, <2>2, Zenon DEF SigningKey
  <2>3. CASE a = Zero
    <3>1. SigningKey(info) = Content[h].account
      BY <1>1, <2>1, <2>3, Zenon DEF SigningKey
    <3>2. Owner[h] = Content[h].account
      BY <1>3, <2>3, OwnerAssumption, Zenon
    <3> QED BY <2>1, <3>1, <3>2, Zenon
  <2> QED BY <2>2, <2>3, Zenon
<1> QED BY <1>1, <1>2, <1>4, <1>5, <1>6, Zenon DEF Truthful, UncheckedInfo

LEMMA VerifiedItemsFacts ==
    ASSUME NEW s \in Seq(Truthful \cap Unverified), Distinct(s), NEW bad
    PROVE  /\ VerifiedItems(s, bad) \in Seq(Truthful)
           /\ Hashes(VerifiedItems(s, bad)) \subseteq Hashes(s) /\ Distinct(VerifiedItems(s, bad))
<1> DEFINE signed(info) == info.hash \notin bad /\ SignedBy(info.hash, SigningKey(info))
           Good == {info \in UncheckedInfo : HasEpochLink(info.hash) \/ signed(info)}
           kept == Kept(s, Good)
           Verdict(info) ==
             CASE HasEpochLink(info.hash) /\ signed(info) -> "valid_epoch"
               [] HasEpochLink(info.hash) /\ ~signed(info) -> "unknown"
               [] OTHER -> "valid"
           result == [i \in DOMAIN kept |-> [kept[i] EXCEPT !.verified = Verdict(kept[i])]]
<1>1. VerifiedItems(s, bad) = result
  BY Zenon DEF VerifiedItems
<1>2. /\ kept \in Seq((Truthful \cap Unverified) \cap Good)
      /\ Hashes(kept) \subseteq Hashes(s) /\ Distinct(kept)
  BY KeptFacts, KeptHashes, Zenon
<1> HIDE DEF kept
<1>3. ASSUME NEW i \in DOMAIN kept
      PROVE  result[i] \in Truthful /\ result[i].hash = kept[i].hash
  <2>1. kept[i] \in (Truthful \cap Unverified) \cap Good
    BY <1>2
  <2>2. PICK info : info = kept[i]
    BY Zenon
  <2>3. /\ info \in Truthful \cap Unverified
        /\ signed(info) => SignedBy(info.hash, SigningKey(info))
        /\ HasEpochLink(info.hash) \/ signed(info)
    BY <2>1, <2>2, Zenon
  <2>4. PICK v : v = Verdict(info)
    BY Zenon
  <2>5. [info EXCEPT !.verified = v] \in Truthful /\ [info EXCEPT !.verified = v].hash = info.hash
    BY <2>3, <2>4, VerdictTrue, Zenon
  <2> QED BY <2>2, <2>4, <2>5, Zenon
<1>4. DOMAIN kept = 1 .. Len(kept) /\ Len(kept) \in Nat
  BY <1>2
<1> HIDE DEF Verdict
<1>5. DOMAIN result = DOMAIN kept
  BY Zenon
<1>6. result \in [1 .. Len(kept) -> Truthful]
  BY <1>3, <1>4, Zenon
<1>7. result \in Seq(Truthful)
  BY <1>4, <1>6
<1> HIDE DEF result
<1>8. Hashes(result) = Hashes(kept) /\ Distinct(result)
  BY <1>2, <1>3, <1>5 DEF Hashes, Distinct
<1> QED BY <1>1, <1>2, <1>7, <1>8, Zenon
-----------------------------------------------------------------------------
(* The verdicts of the ledger, given a true result of the signature check *)

\* A legacy block is signed by the account that the frontiers table names
LEMMA FrontierOwner ==
    ASSUME IInv, NEW h \in Hash, Content[h].type \in {"send", "receive", "change"},
           Content[h].previous \in DOMAIN frontiers
    PROVE  /\ frontiers[Content[h].previous] = Owner[h]
           /\ Info(Owner[h]).head = Content[h].previous
<1>1. PICK p : p = Content[h].previous
  BY Zenon
<1>2. p \in DOMAIN blocks /\ frontiers[p] = blocks[p].account /\ Info(blocks[p].account).head = p
  BY <1>1, Zenon DEF IInv, LegacyInv
<1>3. blocks[p].account = Owner[p]
  BY <1>2, Zenon DEF IInv, ChainInv
<1>4. Owner[h] = Owner[p]
  BY <1>1, OwnerAssumption, Zenon
<1> QED BY <1>1, <1>2, <1>3, <1>4, Zenon

\* A block that ledger::process takes with the verdict of the batch, it would take
\* as well if it checked the signature itself
LEMMA VerdictWithoutCheck ==
    ASSUME IInv, NEW info \in Truthful, NEW h, h = info.hash,
           ProcessResult(h, info.verified) = "progress"
    PROVE  ProcessResult(h, "unknown") = "progress"
<1>1. PICK v : v = info.verified
  BY Zenon
<1>2. /\ h \in Hash
      /\ v = "valid" => SignedBy(h, Owner[h])
      /\ v = "valid_epoch" => SignedBy(h, EpochSigner)
  BY <1>1, Zenon DEF Truthful, UncheckedInfo
<1>3. Content[h].type \in BlockType
  BY <1>2, ContentAssumption, Zenon DEF Block
<1>4. ProcessResult(h, v) = "progress"
  BY <1>1, Zenon
<1>5. CASE Content[h].type = "state"
  <2>1. Owner[h] = Content[h].account
    BY <1>2, <1>5, OwnerAssumption, Zenon
  <2>2. state_block(h, v) = "progress"
    BY <1>4, <1>5, Zenon DEF ProcessResult
  <2>3. state_block(h, "unknown") = "progress"
    BY <1>2, <2>1, <2>2, Zenon DEF state_block, state_block_impl, epoch_block_impl
  <2> QED BY <1>5, <2>3, Zenon DEF ProcessResult
<1>6. CASE Content[h].type \in {"send", "receive", "change"}
  <2>1. LegacyVerdict(h, v) = "progress"
    BY <1>4, <1>6, Zenon DEF ProcessResult, change_block, send_block, receive_block
  <2>2. Content[h].previous \in DOMAIN frontiers
    BY <2>1, Zenon DEF LegacyVerdict
  <2>3. frontiers[Content[h].previous] = Owner[h]
    BY <1>2, <1>6, <2>2, FrontierOwner, Zenon
  <2>4. LegacyVerdict(h, "unknown") = "progress"
    BY <1>2, <2>1, <2>3, Zenon DEF LegacyVerdict
  <2> QED BY <1>4, <1>6, <2>1, <2>4, Zenon DEF ProcessResult, change_block, send_block, receive_block
<1>7. CASE Content[h].type = "open"
  <2>1. Owner[h] = Content[h].account
    BY <1>2, <1>7, OwnerAssumption, Zenon
  <2>2. open_block(h, v) = "progress"
    BY <1>4, <1>7, Zenon DEF ProcessResult
  <2>3. open_block(h, "unknown") = "progress"
    BY <1>2, <2>1, <2>2, Zenon DEF open_block
  <2> QED BY <1>7, <2>3, Zenon DEF ProcessResult
<1> QED BY <1>3, <1>5, <1>6, <1>7, Zenon DEF BlockType

\* What a gap verdict says: the block is not in the ledger, and neither is what it
\* is filed under, unless the block will never fit
LEMMA GapFacts ==
    ASSUME IInv, NEW h \in Hash, NEW v, NEW missing,
           \/ ProcessResult(h, v) = "gap_previous" /\ missing = Content[h].previous
           \/ ProcessResult(h, v) = "gap_source" /\ missing = block_source(h)
    PROVE  /\ missing \in Link /\ ~Exists(h)
           /\ Exists(missing) => NeverFits(missing, h)
<1>1. /\ Content[h].previous \in HashOrZero /\ Content[h].link \in Link
      /\ Content[h].type \in BlockType
  BY ContentAssumption, Zenon DEF Block
<1>2. missing \in Link
  BY <1>1, Zenon DEF block_source, Link, HashOrZero
<1>3. ~Exists(Zero)
  BY NamesAssumption, Zenon DEF IInv, TypeOK, Exists
<1>4. CASE Content[h].type = "state"
  <2>1. ProcessResult(h, v) = state_block(h, v)
    BY <1>4, Zenon DEF ProcessResult
  <2>2. CASE MissingEpochPrevious(h)
    <3>1. missing = Content[h].previous /\ ~Exists(missing) /\ missing # Zero
      BY <2>1, <2>2, Zenon DEF state_block, MissingEpochPrevious
    <3>2. ~Exists(h)
      BY <3>1, Zenon DEF IInv, ChainInv, Exists
    <3> QED BY <1>2, <3>1, <3>2, Zenon
  <2>3. CASE ~MissingEpochPrevious(h)
    <3>1. ProcessResult(h, v) = state_block_impl(h, v)
      BY <2>1, <2>3, Zenon DEF state_block, epoch_block_impl
    <3>2. ~Exists(h)
      BY <3>1, Zenon DEF state_block_impl
    <3>3. ASSUME state_block_impl(h, v) = "gap_previous", Exists(Content[h].previous)
          PROVE  NeverFits(Content[h].previous, h)
      <4>1. ~account_exists(Content[h].account)
        BY <3>3, Zenon DEF state_block_impl, ReceiveVerdict
      <4>2. account_exists(Owner[Content[h].previous])
        BY <3>3, Zenon DEF IInv, HeadInv, ChainInv, Exists
      <4> QED BY <1>4, <4>1, <4>2, Zenon DEF NeverFits
    <3>4. ASSUME state_block_impl(h, v) = "gap_source", Exists(block_source(h))
          PROVE  NeverFits(block_source(h), h)
      <4>1. block_source(h) = Content[h].link /\ Content[h].link # Zero
        BY <1>3, <1>4, <3>4, Zenon DEF block_source
      <4>2. ~source_exists(Content[h].link)
        BY <3>4, <4>1, Zenon DEF state_block_impl, ReceiveVerdict
      <4> QED BY <3>4, <4>1, <4>2, Zenon DEF NeverFits, source_exists
    <3> QED BY <1>2, <3>1, <3>2, <3>3, <3>4, Zenon
  <2> QED BY <2>2, <2>3, Zenon
<1>5. CASE Content[h].type \in {"send", "receive", "change"}
  <2>1. ~Exists(h)
    BY <1>5, Zenon DEF ProcessResult, change_block, send_block, receive_block, LegacyVerdict
  <2>2. CASE LegacyVerdict(h, v) # "progress"
    <3>1. missing = Content[h].previous /\ ~Exists(Content[h].previous)
      BY <1>5, <2>2, Zenon DEF ProcessResult, change_block, send_block, receive_block, LegacyVerdict
    <3> QED BY <1>2, <2>1, <3>1, Zenon
  <2>3. CASE LegacyVerdict(h, v) = "progress"
    <3>1. Content[h].type = "receive" /\ ProcessResult(h, v) = receive_block(h, v)
      BY <1>5, <2>3, Zenon DEF ProcessResult, change_block, send_block
    <3>2. Content[h].previous \in DOMAIN frontiers
      BY <2>3, Zenon DEF LegacyVerdict
    <3>3. Info(frontiers[Content[h].previous]).head = Content[h].previous
      BY <1>5, <3>2, FrontierOwner, Zenon
    <3>4. missing = Content[h].link /\ ~source_exists(Content[h].link)
      BY <2>3, <3>1, <3>3, Zenon DEF receive_block, block_source
    <3> QED BY <1>2, <2>1, <3>4, Zenon DEF NeverFits, source_exists
  <2> QED BY <2>2, <2>3, Zenon
<1>6. CASE Content[h].type = "open"
  <2>1. ProcessResult(h, v) = open_block(h, v) /\ block_source(h) = Content[h].link
    BY <1>6, Zenon DEF ProcessResult, block_source
  <2>2. ~Exists(h) /\ missing = Content[h].link /\ ~source_exists(Content[h].link)
    BY <2>1, Zenon DEF open_block
  <2> QED BY <1>2, <2>2, Zenon DEF NeverFits, source_exists
<1> QED BY <1>1, <1>4, <1>5, <1>6, Zenon DEF BlockType

\* What the ledger says of the signature of a block that it finds a gap for is true
LEMMA GapVerdictTrue ==
    ASSUME IInv, NEW info \in Truthful, NEW h, h = info.hash,
           ProcessResult(h, info.verified) \in {"gap_previous", "gap_source"},
           NEW w, w = VerifiedByLedger(h, info.verified)
    PROVE  [hash |-> h, account |-> info.account, verified |-> w] \in Truthful
<1>1. PICK v : v = info.verified
  BY Zenon
<1>2. /\ h \in Hash /\ v \in Verification
      /\ info.account \in Key /\ info.account \in {Zero, Owner[h]}
      /\ v = "valid" => SignedBy(h, Owner[h])
      /\ v = "valid_epoch" => SignedBy(h, EpochSigner)
  BY <1>1, Zenon DEF Truthful, UncheckedInfo
<1>3. Content[h].type \in BlockType
  BY <1>2, ContentAssumption, Zenon DEF Block
<1>4. ProcessResult(h, v) \in {"gap_previous", "gap_source"} /\ w = VerifiedByLedger(h, v)
  BY <1>1, Zenon
<1> DEFINE Goal == /\ w \in Verification
                   /\ w = "valid" => SignedBy(h, Owner[h])
                   /\ w = "valid_epoch" => SignedBy(h, EpochSigner)
<1> SUFFICES Goal
  BY <1>2, Zenon DEF Truthful, UncheckedInfo
<1>5. CASE Content[h].type = "state"
  <2>1. Owner[h] = Content[h].account
    BY <1>2, <1>5, OwnerAssumption, Zenon
  <2>2. state_block(h, v) \in {"gap_previous", "gap_source"}
    BY <1>4, <1>5, Zenon DEF ProcessResult
  <2>3. CASE MissingEpochPrevious(h)
    <3>1. v = "unknown" => SignedBy(h, Content[h].account) \/ SignedBy(h, EpochSigner)
      BY <2>2, <2>3, Zenon DEF state_block
    <3>2. w = IF v = "unknown"
              THEN IF SignedBy(h, Content[h].account) THEN "valid" ELSE "valid_epoch"
              ELSE v
      BY <1>4, <1>5, <2>3, Zenon DEF VerifiedByLedger
    <3> QED BY <1>2, <2>1, <3>1, <3>2, Zenon DEF Verification
  <2>4. CASE ~MissingEpochPrevious(h)
    <3>1. state_block_impl(h, v) \in {"gap_previous", "gap_source"}
      BY <2>2, <2>4, Zenon DEF state_block, epoch_block_impl
    <3>2. v = "valid" \/ SignedBy(h, Content[h].account)
      BY <3>1, Zenon DEF state_block_impl
    <3>3. w = "valid"
      BY <1>4, <1>5, <2>4, Zenon DEF VerifiedByLedger
    <3> QED BY <1>2, <2>1, <3>2, <3>3, Zenon DEF Verification
  <2> QED BY <2>3, <2>4, Zenon
<1>6. CASE Content[h].type \in {"send", "change"}
  BY <1>2, <1>4, <1>6, Zenon DEF VerifiedByLedger
<1>7. CASE Content[h].type = "receive"
  <2>1. CASE ~Exists(Content[h].previous)
    <3>1. w = v
      BY <1>4, <1>7, <2>1, Zenon DEF VerifiedByLedger
    <3> QED BY <1>2, <3>1, Zenon
  <2>2. CASE Exists(Content[h].previous)
    <3>1. w = "valid"
      BY <1>4, <1>7, <2>2, Zenon DEF VerifiedByLedger
    <3>2. LegacyVerdict(h, v) = "progress"
      BY <1>4, <1>7, <2>2, Zenon DEF ProcessResult, receive_block, LegacyVerdict
    <3>3. /\ Content[h].previous \in DOMAIN frontiers
          /\ v = "valid" \/ SignedBy(h, frontiers[Content[h].previous])
      BY <3>2, Zenon DEF LegacyVerdict
    <3>4. frontiers[Content[h].previous] = Owner[h]
      BY <1>2, <1>7, <3>3, FrontierOwner, Zenon
    <3> QED BY <1>2, <3>1, <3>3, <3>4, Zenon DEF Verification
  <2> QED BY <2>1, <2>2, Zenon
<1>8. CASE Content[h].type = "open"
  <2>1. Owner[h] = Content[h].account
    BY <1>2, <1>8, OwnerAssumption, Zenon
  <2>2. w = "valid"
    BY <1>4, <1>8, Zenon DEF VerifiedByLedger
  <2>3. v = "valid" \/ SignedBy(h, Content[h].account)
    BY <1>4, <1>8, Zenon DEF ProcessResult, open_block
  <2> QED BY <1>2, <2>1, <2>2, <2>3, Zenon DEF Verification
<1> QED BY <1>3, <1>5, <1>6, <1>7, <1>8, Zenon DEF BlockType
-----------------------------------------------------------------------------
(* The unchecked table *)

LEMMA TruthfulKept == Truthful' = Truthful /\ Unverified' = Unverified
BY Zenon DEF Truthful, Unverified, SignedBy

LEMMA QueuesKept ==
    ASSUME QueuesInv, UNCHANGED <<queue, state_blocks, blocks_hashes, items>>
    PROVE  QueuesInv'
<1>1. /\ queue' = queue /\ state_blocks' = state_blocks /\ items' = items
      /\ blocks_hashes' = blocks_hashes
  BY Zenon
<1>2. Apart(queue', state_blocks', items', blocks_hashes')
  BY <1>1, Zenon DEF QueuesInv, QueuesApart
<1>3. QueuesApart'
  BY <1>2, Zenon DEF QueuesApart, Apart, Hashes, Distinct
<1> QED BY <1>1, <1>3, TruthfulKept, Zenon DEF QueuesInv

LEMMA DiskKept ==
    ASSUME DiskInv, UNCHANGED disk
    PROVE  DiskInv'
BY TruthfulKept, Zenon DEF DiskInv, UncheckedInv, Entry, NeverFits

\* Entries may go and blocks of the ledger may be rolled back
LEMMA TableShrinks ==
    ASSUME TableInv, DOMAIN unchecked' \subseteq DOMAIN unchecked,
           \A k \in DOMAIN unchecked' : unchecked'[k] = unchecked[k],
           gap_cache' \subseteq gap_cache,
           gap_cache' \cap DOMAIN blocks' = {},
           \A k \in DOMAIN unchecked' : k[1] \in DOMAIN blocks' => k[1] \in DOMAIN blocks
    PROVE  TableInv'
<1>1. gap_cache' \subseteq Hash /\ GapsAreMissing'
  BY Zenon DEF TableInv, GapsAreMissing
<1>2. UncheckedInv(unchecked, blocks)'
  BY TruthfulKept, Zenon DEF TableInv, UncheckedInv, Entry, NeverFits
<1> QED BY <1>1, <1>2, Zenon DEF TableInv

LEMMA TableKept ==
    ASSUME TableInv, UNCHANGED <<unchecked, gap_cache, blocks>>
    PROVE  TableInv'
BY TableShrinks, Zenon DEF TableInv, GapsAreMissing

\* The entries that wait for block h, as queue_unchecked reads them
WaitingFor(table, h) == {Entry(table, k) : k \in {j \in DOMAIN table : j[1] = h}}

LEMMA EntriesWaiting ==
    ASSUME NEW table, NEW ledger, UncheckedInv(table, ledger), NEW h, NEW S,
           S = WaitingFor(table, h)
    PROVE  /\ S \subseteq Truthful /\ IsFiniteSet(S)
           /\ \A x, y \in S : x.hash = y.hash => x = y
<1>1. \A k \in DOMAIN table : /\ k = <<k[1], k[2]>> /\ k[2] \in Hash
                              /\ Entry(table, k) \in Truthful /\ Entry(table, k).hash = k[2]
  <2> SUFFICES ASSUME NEW k \in DOMAIN table
               PROVE  /\ k = <<k[1], k[2]>> /\ k[2] \in Hash
                      /\ Entry(table, k) \in Truthful /\ Entry(table, k).hash = k[2]
    BY Zenon
  <2>1. k \in Link \X Hash /\ Entry(table, k) \in Truthful
    BY Zenon DEF UncheckedInv
  <2> QED BY <2>1 DEF Entry
<1>2. S \subseteq Truthful
  BY <1>1, Zenon DEF WaitingFor
<1>3. \A x, y \in S : x.hash = y.hash => x = y
  <2> SUFFICES ASSUME NEW x \in S, NEW y \in S, x.hash = y.hash PROVE x = y
    BY Zenon
  <2>1. PICK k \in DOMAIN table : k[1] = h /\ x = Entry(table, k)
    BY Zenon DEF WaitingFor
  <2>2. PICK l \in DOMAIN table : l[1] = h /\ y = Entry(table, l)
    BY Zenon DEF WaitingFor
  <2>3. k = l
    BY <1>1, <2>1, <2>2, Zenon
  <2> QED BY <2>1, <2>2, <2>3, Zenon
<1>4. IsFiniteSet(S)
  <2> DEFINE H == {x.hash : x \in S}
             f == [g \in H |-> CHOOSE x \in S : x.hash = g]
  <2>1. \A x \in S : x.hash \in H /\ f[x.hash] = x
    BY <1>3, Zenon
  <2>2. f \in [H -> S]
    BY Zenon
  <2>3. f \in Surjection(H, S)
    BY <2>1, <2>2, Zenon DEF Surjection
  <2>4. H \subseteq Hash
    BY <1>2, Zenon DEF Truthful, UncheckedInfo
  <2>5. IsFiniteSet(H)
    BY <2>4, FiniteAssumption, FS_Subset, Zenon
  <2> HIDE DEF f, H
  <2> QED BY <2>3, <2>5, FS_Surjection, Zenon
<1> QED BY <1>2, <1>3, <1>4, Zenon

\* The blocks that wait for h move to the queues: nothing waits for h any more
LEMMA QueueUncheckedKeeps ==
    ASSUME QueuesInv, TableInv, asleep \subseteq {"processor", "flusher"}, UNCHANGED items,
           NEW h \in Hash, queue_unchecked(h), DOMAIN blocks' \subseteq DOMAIN blocks \cup {h}
    PROVE  QueuesInv' /\ TableInv' /\ asleep' \subseteq {"processor", "flusher"}
<1>1. PICK S : S = WaitingFor(unchecked, h)
  BY Zenon
<1>2. PICK infos : infos = InSomeOrder(S)
  BY Zenon
<1>3. AddAll(infos)
  BY <1>1, <1>2, Zenon DEF queue_unchecked, WaitingFor, Entry
<1>4. /\ S \subseteq Truthful /\ IsFiniteSet(S)
      /\ \A x, y \in S : x.hash = y.hash => x = y
  <2>1. PICK table : table = unchecked
    BY Zenon
  <2>2. PICK ledger : ledger = blocks
    BY Zenon
  <2>3. UncheckedInv(table, ledger)
    BY <2>1, <2>2, Zenon DEF TableInv
  <2>4. S = WaitingFor(table, h)
    BY <1>1, <2>1, Zenon
  <2> QED BY ONLY <2>3, <2>4, EntriesWaiting, Zenon
<1>5. /\ infos \in Seq(S)
      /\ \A i, j \in DOMAIN infos : infos[i] = infos[j] => i = j
  BY <1>2, <1>4, InSomeOrderFacts, Zenon
<1>6. infos \in Seq(Truthful)
  BY <1>4, <1>5
<1>7. Distinct(infos)
  <2>1. \A i \in DOMAIN infos : infos[i] \in S
    BY <1>5
  <2> QED BY <1>4, <1>5, <2>1, Zenon DEF Distinct
<1>8. QueuesInv' /\ asleep' \subseteq {"processor", "flusher"}
  BY <1>3, <1>6, <1>7, AddKeeps, Zenon
<1>9. TableInv'
  <2>1. /\ unchecked' = [k \in DOMAIN unchecked \ {j \in DOMAIN unchecked : j[1] = h} |-> unchecked[k]]
        /\ gap_cache' = gap_cache \ {h}
    BY Zenon DEF queue_unchecked
  <2>2. gap_cache' \cap DOMAIN blocks' = {} /\ gap_cache' \subseteq gap_cache
    BY <2>1, Zenon DEF TableInv, GapsAreMissing
  <2>3. /\ DOMAIN unchecked' \subseteq DOMAIN unchecked
        /\ \A k \in DOMAIN unchecked' : unchecked'[k] = unchecked[k] /\ k[1] # h
    BY <2>1, Zenon
  <2> QED BY <2>2, <2>3, TableShrinks, Zenon
<1> QED BY <1>8, <1>9, Zenon

\* A gap: the block is filed under what it misses
LEMMA PutUncheckedKeeps ==
    ASSUME IInv, TableInv, item \in Truthful, NEW h, h = item.hash, NEW missing,
           \/ ProcessResult(h, item.verified) = "gap_previous" /\ missing = Content[h].previous
           \/ ProcessResult(h, item.verified) = "gap_source" /\ missing = block_source(h),
           PutUnchecked(h, missing)
    PROVE  TableInv'
<1>1. PICK info : info = item
  BY Zenon
<1>2. info \in Truthful /\ h = info.hash /\ h \in Hash
  BY <1>1, Zenon DEF Truthful, UncheckedInfo
<1>3. PICK w : w = VerifiedByLedger(h, info.verified)
  BY Zenon
<1>4. [hash |-> h, account |-> info.account, verified |-> w] \in Truthful
  BY <1>1, <1>2, <1>3, GapVerdictTrue, Zenon
<1>5. missing \in Link /\ ~Exists(h) /\ (Exists(missing) => NeverFits(missing, h))
  <2>1. PICK v : v = item.verified
    BY Zenon
  <2> QED BY <1>2, <2>1, GapFacts, Zenon
<1>6. /\ DOMAIN unchecked' = DOMAIN unchecked \cup {<<missing, h>>}
      /\ unchecked'[<<missing, h>>] = [account |-> info.account, verified |-> w]
      /\ \A k \in DOMAIN unchecked : k # <<missing, h>> => unchecked'[k] = unchecked[k]
      /\ gap_cache' = gap_cache \cup {h} /\ blocks' = blocks
  BY <1>1, <1>3, Zenon DEF PutUnchecked, Put, vars
<1>7. gap_cache' \subseteq Hash /\ GapsAreMissing'
  BY <1>2, <1>5, <1>6, Zenon DEF TableInv, GapsAreMissing, Exists
<1>8. DOMAIN unchecked' \subseteq Link \X Hash
  BY <1>2, <1>5, <1>6 DEF TableInv, UncheckedInv
<1>9. ASSUME NEW k \in DOMAIN unchecked'
      PROVE  /\ Entry(unchecked', k) \in Truthful
             /\ k[1] \in DOMAIN blocks' => NeverFits(k[1], k[2])
  <2>1. CASE k = <<missing, h>>
    BY <1>4, <1>5, <1>6, <2>1 DEF Entry, Exists
  <2>2. CASE k # <<missing, h>>
    <3>1. k \in DOMAIN unchecked /\ unchecked'[k] = unchecked[k]
      BY <1>6, <2>2, Zenon
    <3>2. /\ Entry(unchecked, k) \in Truthful
          /\ k[1] \in DOMAIN blocks => NeverFits(k[1], k[2])
      BY <3>1, Zenon DEF TableInv, UncheckedInv
    <3> QED BY <1>6, <3>1, <3>2, Zenon DEF Entry
  <2> QED BY <2>1, <2>2, Zenon
<1>10. UncheckedInv(unchecked, blocks)'
  BY <1>8, <1>9, TruthfulKept, Zenon DEF UncheckedInv, Entry, NeverFits
<1> QED BY <1>7, <1>10, Zenon DEF TableInv
-----------------------------------------------------------------------------
(* What a step of the ledger does to the blocks table *)

LEMMA ProcessDomain ==
    ASSUME NEW h, NEW v, Process(h, v)
    PROVE  DOMAIN blocks' = DOMAIN blocks \cup {h} /\ rolling = <<>> /\ rolling' = <<>>
<1>1. \E a, b, c, d : blocks' = block_put(h, a, b, c, d)
  BY Zenon DEF Process, InsertState, InsertEpoch, InsertChange, InsertSend, InsertReceive, InsertOpen
<1>2. \A a, b, c, d : DOMAIN block_put(h, a, b, c, d) = DOMAIN blocks \cup {h}
  BY Zenon DEF block_put, Put
<1>3. rolling = <<>> /\ rolling' = <<>>
  BY Zenon DEF Process
<1> QED BY <1>1, <1>2, <1>3, Zenon

LEMMA RollbackDomain ==
    ASSUME rolling \in Seq(Hash), RollbackStep
    PROVE  /\ DOMAIN blocks' \subseteq DOMAIN blocks
           /\ rolling # <<>> /\ Head(rolling) \in Hash
<1>1. rolling # <<>> /\ Head(rolling) \in Hash
  BY DEF RollbackStep, RollbackDestination, RollbackVisit, RollbackReturn
<1>2. \A h : DOMAIN block_del(h) \subseteq DOMAIN blocks
  BY Zenon DEF block_del, Del
<1>3. CASE RollbackVisit
  <2>1. \E h : blocks' = block_del(h)
    BY <1>3, Zenon DEF RollbackVisit, RollbackSend, RollbackReceive, RollbackOpen, RollbackChange,
       RollbackState
  <2> QED BY <1>1, <1>2, <2>1, Zenon
<1>4. CASE RollbackDestination \/ RollbackReturn
  BY <1>1, <1>4, Zenon DEF RollbackDestination, RollbackReturn, tables
<1> QED BY <1>3, <1>4, Zenon DEF RollbackStep

\* rolled_back never outgrows its limit
LEMMA BanKeeps ==
    ASSUME rolled_back \in Seq(Hash), Len(rolled_back) <= RolledBackMax, NEW h \in Hash, NEW winner
    PROVE  /\ BanRolledBack(h, winner) \in Seq(Hash)
           /\ Len(BanRolledBack(h, winner)) <= RolledBackMax
<1>1. PICK all : all = Append(rolled_back, h)
  BY Zenon
<1>2. PICK s : s = Kept(all, Hash \ {winner})
  BY Zenon
<1>3. all \in Seq(Hash) /\ Len(all) <= RolledBackMax + 1
  BY <1>1, BoundsAssumption
<1>4. s \in Seq(Hash \cap (Hash \ {winner})) /\ Len(s) <= Len(all)
  BY <1>2, <1>3, KeptFacts, Zenon
<1>5. s \in Seq(Hash) /\ Len(s) <= RolledBackMax + 1
  BY <1>3, <1>4, BoundsAssumption
<1>6. BanRolledBack(h, winner) = IF h \in Hashed(rolled_back) THEN rolled_back
                                 ELSE IF Len(s) > RolledBackMax THEN Tail(s) ELSE s
  BY <1>1, <1>2, Zenon DEF BanRolledBack
<1>7. CASE Len(s) > RolledBackMax
  <2>1. s # <<>> /\ Tail(s) \in Seq(Hash) /\ Len(Tail(s)) = Len(s) - 1
    BY <1>5, <1>7, BoundsAssumption
  <2> QED BY <1>5, <1>6, <1>7, <2>1, BoundsAssumption
<1> QED BY <1>5, <1>6, <1>7, BoundsAssumption
-----------------------------------------------------------------------------
(* One lemma for each action *)

LEMMA RestKept ==
    ASSUME ProcessorInv,
           UNCHANGED <<queue, state_blocks, blocks_hashes, items, unchecked, gap_cache, blocks, disk>>
    PROVE  QueuesInv' /\ TableInv' /\ DiskInv'
BY QueuesKept, TableKept, DiskKept, Zenon DEF ProcessorInv

LEMMA AddInv ==
    ASSUME ProcessorInv, NEW d \in Deliveries, Add(d[1], d[2])
    PROVE  ProcessorInv'
<1>1. PICK info : info = [hash |-> d[1], account |-> d[2], verified |-> "unknown"]
  BY Zenon
<1>2. info \in Truthful
  BY <1>1, DeliveriesAssumption, KnownAccountAssumption, Zenon DEF Truthful, UncheckedInfo, Verification
<1>3. <<info>> \in Seq(Truthful) /\ Distinct(<<info>>)
  BY <1>2 DEF Distinct
<1>4. /\ AddAll(<<info>>)
      /\ UNCHANGED <<vars, forced, rolled_back, unchecked, gap_cache, locals, pc, flusher,
                     stopped, disk, crashes>>
  BY <1>1, Zenon DEF Add
<1>5. QueuesInv' /\ asleep' \subseteq {"processor", "flusher"}
  BY <1>3, <1>4, AddKeeps, Zenon DEF ProcessorInv, LocalInv, locals
<1>6. TableInv' /\ DiskInv'
  BY <1>4, TableKept, DiskKept, Zenon DEF ProcessorInv, vars
<1>7. LocalInv'
  BY <1>4, <1>5, TruthfulKept, Zenon DEF ProcessorInv, LocalInv, vars, locals
<1> QED BY <1>5, <1>6, <1>7, Zenon DEF ProcessorInv

LEMMA ForceInv ==
    ASSUME ProcessorInv, NEW h \in Winners, ForceBlock(h)
    PROVE  ProcessorInv'
<1>1. QueuesInv' /\ TableInv' /\ DiskInv'
  BY RestKept, Zenon DEF ForceBlock, vars, queues, locals
<1>2. LocalInv'
  BY TruthfulKept DEF ProcessorInv, LocalInv, ForceBlock, vars, locals
<1> QED BY <1>1, <1>2, Zenon DEF ProcessorInv

LEMMA StopInv ==
    ASSUME ProcessorInv, Stop
    PROVE  ProcessorInv'
<1>1. QueuesInv' /\ TableInv' /\ DiskInv'
  BY RestKept, Zenon DEF Stop, vars, queues, locals
<1>2. LocalInv'
  BY TruthfulKept, Zenon DEF ProcessorInv, LocalInv, Stop, vars, locals
<1> QED BY <1>1, <1>2, Zenon DEF ProcessorInv

LEMMA FlushInv ==
    ASSUME ProcessorInv, Flush
    PROVE  ProcessorInv'
<1>1. QueuesInv' /\ TableInv' /\ DiskInv'
  BY RestKept, Zenon DEF Flush, vars, queues, locals
<1>2. LocalInv'
  BY TruthfulKept, Zenon DEF ProcessorInv, LocalInv, Flush, vars, locals
<1> QED BY <1>1, <1>2, Zenon DEF ProcessorInv

LEMMA TopInv ==
    ASSUME ProcessorInv, Top
    PROVE  ProcessorInv'
<1>1. QueuesInv' /\ TableInv' /\ DiskInv'
  BY RestKept, Zenon DEF Top, vars, queues
<1>2. LocalInv'
  BY TruthfulKept, Zenon DEF ProcessorInv, LocalInv, Top, vars
<1> QED BY <1>1, <1>2, Zenon DEF ProcessorInv

LEMMA WakeInv ==
    ASSUME ProcessorInv, Wake
    PROVE  ProcessorInv'
<1>1. QueuesInv' /\ TableInv' /\ DiskInv'
  BY RestKept, Zenon DEF Wake, vars, queues, locals
<1>2. LocalInv'
  BY TruthfulKept, Zenon DEF ProcessorInv, LocalInv, Wake, vars, locals, threads
<1> QED BY <1>1, <1>2, Zenon DEF ProcessorInv

LEMMA VerifyDoneInv ==
    ASSUME ProcessorInv, VerifyDone
    PROVE  ProcessorInv'
<1>1. PICK bad : queue' = queue \o VerifiedItems(items, bad)
  BY Zenon DEF VerifyDone
<1> DEFINE done == VerifiedItems(items, bad)
<1>2. queue' = queue \o done /\ items' = <<>> /\ UNCHANGED <<state_blocks, blocks_hashes>>
  BY <1>1, Zenon DEF VerifyDone
<1>3. items \in Seq(Truthful \cap Unverified) /\ queue \in Seq(Truthful) /\ QueuesApart
  BY Zenon DEF ProcessorInv, QueuesInv
<1>4. /\ done \in Seq(Truthful) /\ Hashes(done) \subseteq Hashes(items) /\ Distinct(done)
  BY <1>3, VerifiedItemsFacts, Zenon DEF QueuesApart, Apart
<1> HIDE DEF done
<1>5. /\ Hashes(queue \o done) = Hashes(queue) \cup Hashes(done)
      /\ Distinct(queue \o done) <=> /\ Distinct(queue) /\ Distinct(done)
                                     /\ Hashes(queue) \cap Hashes(done) = {}
  BY <1>3, <1>4, JoinedHashes, JoinedDistinct
<1>6. Hashes(<<>>) = {} /\ Distinct(<<>>)
  BY DEF Hashes, Distinct
<1>7. Apart(queue \o done, state_blocks, <<>>, blocks_hashes)
  BY <1>3, <1>4, <1>5, <1>6, Zenon DEF QueuesApart, Apart
<1>8. Apart(queue', state_blocks', items', blocks_hashes')
  BY <1>2, <1>7, Zenon
<1>9. QueuesApart'
  BY <1>8, Zenon DEF QueuesApart, Apart, Hashes, Distinct
<1>10. QueuesInv'
  BY <1>2, <1>3, <1>4, <1>9, TruthfulKept DEF ProcessorInv, QueuesInv
<1>11. TableInv' /\ DiskInv'
  BY TableKept, DiskKept, Zenon DEF ProcessorInv, VerifyDone, vars
<1>12. LocalInv'
  BY TruthfulKept, Zenon DEF ProcessorInv, LocalInv, VerifyDone, vars, threads
<1> QED BY <1>10, <1>11, <1>12, Zenon DEF ProcessorInv

LEMMA BatchVerifyInv ==
    ASSUME ProcessorInv, BatchVerify
    PROVE  ProcessorInv'
<1>1. VerifyTake("batch") /\ UNCHANGED <<queue, blocks_hashes>>
  BY Zenon DEF BatchVerify
<1>2. QueuesInv'
  BY <1>1, VerifyTakeKeeps, BoundsAssumption, Zenon DEF ProcessorInv
<1>3. TableInv' /\ DiskInv'
  BY TableKept, DiskKept, Zenon DEF ProcessorInv, BatchVerify, vars
<1>4. LocalInv'
  BY TruthfulKept, Zenon DEF ProcessorInv, LocalInv, BatchVerify, VerifyTake, vars, threads
<1> QED BY <1>2, <1>3, <1>4, Zenon DEF ProcessorInv

LEMMA BeginWriteInv ==
    ASSUME ProcessorInv, BeginWrite
    PROVE  ProcessorInv'
<1>1. QueuesInv' /\ TableInv' /\ DiskInv'
  BY RestKept, Zenon DEF BeginWrite, vars, queues
<1>2. LocalInv'
  BY TruthfulKept, Zenon DEF ProcessorInv, LocalInv, BeginWrite, vars, threads
<1> QED BY <1>1, <1>2, Zenon DEF ProcessorInv

LEMMA TakeBlockInv ==
    ASSUME ProcessorInv, TakeBlock
    PROVE  ProcessorInv'
<1>1. PICK first : first = Head(queue)
  BY Zenon
<1>2. PICK rest : rest = Tail(queue)
  BY Zenon
<1>3. /\ item' = first /\ queue' = rest /\ blocks_hashes' = blocks_hashes \ {first.hash}
      /\ UNCHANGED <<state_blocks, items>> /\ queue # <<>>
  BY <1>1, <1>2, Zenon DEF TakeBlock
<1>4. queue \in Seq(Truthful) /\ blocks_hashes \subseteq Hash /\ QueuesApart
  BY Zenon DEF ProcessorInv, QueuesInv
<1>5. /\ first \in Truthful /\ rest \in Seq(Truthful)
      /\ first.hash \in Hashes(queue) /\ Hashes(rest) \subseteq Hashes(queue)
      /\ Distinct(queue) => Distinct(rest) /\ first.hash \notin Hashes(rest)
  BY <1>1, <1>2, <1>3, <1>4, FirstAndRest, Zenon
<1>6. Apart(rest, state_blocks, items, blocks_hashes \ {first.hash})
  BY <1>4, <1>5, Zenon DEF QueuesApart, Apart
<1>7. Apart(queue', state_blocks', items', blocks_hashes')
  BY <1>3, <1>6, Zenon
<1>8. QueuesApart'
  BY <1>7, Zenon DEF QueuesApart, Apart, Hashes, Distinct
<1>9. QueuesInv'
  BY <1>3, <1>4, <1>5, <1>8, TruthfulKept, Zenon DEF ProcessorInv, QueuesInv
<1>10. TableInv' /\ DiskInv'
  BY TableKept, DiskKept, Zenon DEF ProcessorInv, TakeBlock, vars
<1>11. LocalInv'
  BY <1>3, <1>5, TruthfulKept, Zenon DEF ProcessorInv, LocalInv, TakeBlock, vars, threads
<1> QED BY <1>9, <1>10, <1>11, Zenon DEF ProcessorInv

LEMMA TakeForcedInv ==
    ASSUME ProcessorInv, TakeForced
    PROVE  ProcessorInv'
<1>1. QueuesInv' /\ TableInv' /\ DiskInv'
  BY RestKept, Zenon DEF TakeForced, vars, queues
<1>2. Head(forced) \in Winners /\ Tail(forced) \in Seq(Winners)
  BY DEF ProcessorInv, LocalInv, TakeForced
<1>3. [hash |-> Head(forced), account |-> Zero, verified |-> "unknown"] \in Truthful
  BY <1>2, DeliveriesAssumption, Zenon DEF Truthful, UncheckedInfo, Verification, Key
<1>4. LocalInv'
  BY <1>2, <1>3, TruthfulKept, Zenon DEF ProcessorInv, LocalInv, TakeForced, vars, threads
<1> QED BY <1>1, <1>4, Zenon DEF ProcessorInv

LEMMA BeginRollbackInv ==
    ASSUME ProcessorInv, BeginRollback
    PROVE  ProcessorInv'
<1>1. QueuesInv' /\ TableInv' /\ DiskInv'
  BY RestKept, Zenon DEF BeginRollback, Rollback, tables, queues, locals
<1>2. rolling' # <<>>
  BY Zenon DEF BeginRollback, Rollback
<1>3. LocalInv'
  BY <1>2, TruthfulKept, Zenon DEF ProcessorInv, LocalInv, BeginRollback, locals, threads
<1> QED BY <1>1, <1>3, Zenon DEF ProcessorInv

LEMMA NoRollbackInv ==
    ASSUME ProcessorInv, NoRollback
    PROVE  ProcessorInv'
<1>1. QueuesInv' /\ TableInv' /\ DiskInv'
  BY RestKept, Zenon DEF NoRollback, vars, queues, locals
<1>2. LocalInv'
  BY TruthfulKept, Zenon DEF ProcessorInv, LocalInv, NoRollback, vars, locals, threads
<1> QED BY <1>1, <1>2, Zenon DEF ProcessorInv

LEMMA RollBackInv ==
    ASSUME ProcessorInv, RollBack, rolling \in Seq(Hash)
    PROVE  ProcessorInv'
<1>1. /\ DOMAIN blocks' \subseteq DOMAIN blocks /\ rolling # <<>> /\ Head(rolling) \in Hash
  BY RollbackDomain, Zenon DEF RollBack
<1>2. QueuesInv' /\ DiskInv'
  BY QueuesKept, DiskKept, Zenon DEF ProcessorInv, RollBack, queues, locals
<1>3. TableInv'
  BY <1>1, TableShrinks, Zenon DEF ProcessorInv, RollBack, TableInv, GapsAreMissing
<1>4. rolled_back' \in Seq(Hash) /\ Len(rolled_back') <= RolledBackMax
  <2>1. PICK h : h = Head(rolling)
    BY Zenon
  <2>2. PICK winner : winner = item.hash
    BY Zenon
  <2>3. rolled_back' = BanRolledBack(h, winner) \/ rolled_back' = rolled_back
    BY <2>1, <2>2, Zenon DEF RollBack
  <2>4. rolled_back \in Seq(Hash) /\ Len(rolled_back) <= RolledBackMax
    BY Zenon DEF ProcessorInv, LocalInv
  <2> QED BY <1>1, <2>1, <2>3, <2>4, BanKeeps, Zenon
<1>5. LocalInv'
  BY <1>4, TruthfulKept, Zenon DEF ProcessorInv, LocalInv, RollBack, locals, threads
<1> QED BY <1>2, <1>3, <1>5, Zenon DEF ProcessorInv

LEMMA ProcessOneInv ==
    ASSUME IInv, ProcessorInv, ProcessOne
    PROVE  ProcessorInv'
<1>1. PICK h : h = item.hash
  BY Zenon
<1>2. QueuesInv /\ TableInv /\ asleep \subseteq {"processor", "flusher"} /\ item \in Truthful
  BY Zenon DEF ProcessorInv, LocalInv
<1>3. h \in Hash
  BY <1>1, <1>2, Zenon DEF Truthful, UncheckedInfo
<1>4. pc' = "more" /\ UNCHANGED <<forced, rolled_back, locals, flusher, stopped, disk, crashes>>
  BY Zenon DEF ProcessOne
<1>5. UNCHANGED items /\ rolling = <<>>
  BY <1>4, Zenon DEF ProcessorInv, LocalInv, ProcessOne, locals
<1>6. ASSUME queue_unchecked(h), rolling' = <<>>, DOMAIN blocks' \subseteq DOMAIN blocks \cup {h}
      PROVE  QueuesInv' /\ TableInv' /\ asleep' \subseteq {"processor", "flusher"} /\ rolling' = <<>>
  BY <1>2, <1>3, <1>5, <1>6, QueueUncheckedKeeps, Zenon
<1>7. ASSUME NEW missing, PutUnchecked(h, missing),
             \/ ProcessResult(h, item.verified) = "gap_previous" /\ missing = Content[h].previous
             \/ ProcessResult(h, item.verified) = "gap_source" /\ missing = block_source(h)
      PROVE  QueuesInv' /\ TableInv' /\ asleep' \subseteq {"processor", "flusher"} /\ rolling' = <<>>
  <2>1. TableInv'
    BY <1>1, <1>2, <1>7, PutUncheckedKeeps, Zenon
  <2>2. UNCHANGED <<vars, queues, asleep>>
    BY <1>7, Zenon DEF PutUnchecked
  <2>3. QueuesInv'
    BY <1>2, <1>5, <2>2, QueuesKept, Zenon DEF queues
  <2> QED BY <1>2, <1>5, <2>1, <2>2, <2>3, Zenon DEF vars
<1>8. QueuesInv' /\ TableInv' /\ asleep' \subseteq {"processor", "flusher"} /\ rolling' = <<>>
  <2>1. CASE Process(h, item.verified) /\ queue_unchecked(h)
    <3>1. DOMAIN blocks' = DOMAIN blocks \cup {h} /\ rolling' = <<>>
      <4>1. PICK v : v = item.verified
        BY Zenon
      <4> QED BY <2>1, <4>1, ProcessDomain, Zenon
    <3> QED BY <1>6, <2>1, <3>1, Zenon
  <2>2. CASE UNCHANGED vars /\ queue_unchecked(h)
    BY <1>5, <1>6, <2>2, Zenon DEF vars
  <2>3. CASE ProcessResult(h, item.verified) = "gap_previous" /\ PutUnchecked(h, Content[h].previous)
    BY <1>7, <2>3, Zenon
  <2>4. CASE ProcessResult(h, item.verified) = "gap_source" /\ PutUnchecked(h, block_source(h))
    <3>1. PICK missing : missing = block_source(h)
      BY Zenon
    <3> QED BY <1>7, <2>4, <3>1, Zenon
  <2>5. CASE UNCHANGED <<vars, queues, unchecked, gap_cache, asleep>>
    BY <1>2, <1>5, <2>5, QueuesKept, TableKept, Zenon DEF vars, queues
  <2> QED BY <1>1, <2>1, <2>2, <2>3, <2>4, <2>5, Zenon DEF ProcessOne
<1>9. DiskInv'
  BY <1>4, DiskKept, Zenon DEF ProcessorInv
<1>10. LocalInv'
  BY <1>4, <1>8, TruthfulKept, Zenon DEF ProcessorInv, LocalInv, locals
<1> QED BY <1>8, <1>9, <1>10, Zenon DEF ProcessorInv

LEMMA VerifyMoreInv ==
    ASSUME ProcessorInv, VerifyMore
    PROVE  ProcessorInv'
<1>1. QueuesInv'
  <2>1. CASE VerifyTake("process")
    <3>1. UNCHANGED <<queue, blocks_hashes>>
      BY Zenon DEF VerifyMore
    <3> QED BY <2>1, <3>1, VerifyTakeKeeps, BoundsAssumption, Zenon DEF ProcessorInv
  <2>2. CASE UNCHANGED <<items, state_blocks, after>>
    BY <2>2, QueuesKept, Zenon DEF ProcessorInv, VerifyMore
  <2> QED BY <2>1, <2>2, Zenon DEF VerifyMore
<1>2. TableInv' /\ DiskInv'
  BY TableKept, DiskKept, Zenon DEF ProcessorInv, VerifyMore, vars
<1>3. LocalInv'
  BY TruthfulKept, Zenon DEF ProcessorInv, LocalInv, VerifyMore, VerifyTake, vars, threads
<1> QED BY <1>1, <1>2, <1>3, Zenon DEF ProcessorInv

LEMMA NoItemTruthful == NoItem \in Truthful
BY GenesisAssumption, Zenon DEF NoItem, Truthful, UncheckedInfo, Verification, Key

LEMMA EndBatchInv ==
    ASSUME ProcessorInv, EndBatch
    PROVE  ProcessorInv'
<1>1. QueuesInv' /\ TableInv'
  BY QueuesKept, TableKept, Zenon DEF ProcessorInv, EndBatch, vars, queues
<1>2. DiskInv'
  <2>1. disk'[1] = blocks' /\ disk'[6] = unchecked'
    BY Zenon DEF EndBatch, Persistent, vars
  <2> QED BY <1>1, <2>1, Zenon DEF DiskInv, TableInv
<1>3. LocalInv'
  BY NoItemTruthful, TruthfulKept, Zenon DEF ProcessorInv, LocalInv, EndBatch, vars, threads, NoItem
<1> QED BY <1>1, <1>2, <1>3, Zenon DEF ProcessorInv

Idle == queue = <<>> /\ state_blocks = <<>> /\ items = <<>> /\ blocks_hashes = {}

LEMMA EmptyQueues == Idle => QueuesInv
BY DEF Idle, QueuesInv, QueuesApart, Apart, Hashes, Distinct

LEMMA EmptyQueuesNext == Idle' => QueuesInv'
BY EmptyQueues, PTL

LEMMA CrashInv ==
    ASSUME ProcessorInv, Crash
    PROVE  ProcessorInv'
<1>1. QueuesInv'
  BY EmptyQueuesNext, Zenon DEF Crash, Idle
<1>2. DiskInv'
  BY DiskKept, Zenon DEF ProcessorInv, Crash
<1>3. TableInv'
  BY <1>2, Zenon DEF Crash, TableInv, DiskInv, GapsAreMissing
<1>4. LocalInv'
  <2>1. item' \in Truthful' /\ rolling' = <<>> /\ pc' = "top"
    BY NoItemTruthful, TruthfulKept, Zenon DEF Crash, NoItem
  <2>2. forced' \in Seq(Winners) /\ rolled_back' \in Seq(Hash) /\ Len(rolled_back') <= RolledBackMax
    BY BoundsAssumption DEF Crash
  <2> QED BY <2>1, <2>2, Zenon DEF LocalInv, Crash
<1> QED BY <1>1, <1>2, <1>3, <1>4, Zenon DEF ProcessorInv

LEMMA InitProcessor == BPInit => ProcessorInv
<1> SUFFICES ASSUME BPInit PROVE ProcessorInv
  BY Zenon
<1>1. QueuesInv
  BY EmptyQueues, Zenon DEF BPInit, Idle
<1>2. TableInv
  <2>1. DOMAIN unchecked = {} /\ gap_cache = {}
    BY Zenon DEF BPInit
  <2> QED BY <2>1, Zenon DEF TableInv, UncheckedInv, GapsAreMissing
<1>3. DiskInv
  BY <1>2, Zenon DEF BPInit, Persistent, TableInv, DiskInv
<1>4. LocalInv
  <2>1. item \in Truthful /\ rolling = <<>> /\ pc = "top"
    BY NoItemTruthful, Zenon DEF BPInit, Init
  <2>2. forced \in Seq(Winners) /\ rolled_back \in Seq(Hash) /\ Len(rolled_back) <= RolledBackMax
    BY BoundsAssumption DEF BPInit
  <2> QED BY <2>1, <2>2, Zenon DEF LocalInv, BPInit
<1> QED BY <1>1, <1>2, <1>3, <1>4, Zenon DEF ProcessorInv
-----------------------------------------------------------------------------
(* All the actions, and what follows from the invariant *)

\* Every step keeps what the processor knows next to the ledger true
LEMMA NextProcessor ==
    ASSUME IInv, ProcessorInv, BPNext
    PROVE  ProcessorInv'
<1>1. rolling \in Seq(Hash)
  BY Zenon DEF IInv, TypeOK
<1>2. CASE ProcessorStep
  BY <1>1, <1>2, TopInv, WakeInv, VerifyDoneInv, BatchVerifyInv, BeginWriteInv, TakeBlockInv,
     TakeForcedInv, BeginRollbackInv, NoRollbackInv, RollBackInv, ProcessOneInv, VerifyMoreInv,
     EndBatchInv, Zenon DEF ProcessorStep
<1> QED BY <1>2, AddInv, ForceInv, StopInv, FlushInv, CrashInv, Zenon DEF BPNext

LEMMA StutterProcessor ==
    ASSUME ProcessorInv, UNCHANGED bpvars
    PROVE  ProcessorInv'
<1>1. QueuesInv' /\ TableInv' /\ DiskInv'
  BY RestKept, Zenon DEF bpvars, vars, queues, locals
<1>2. LocalInv'
  BY TruthfulKept, Zenon DEF ProcessorInv, LocalInv, bpvars, vars, locals, threads
<1> QED BY <1>1, <1>2, Zenon DEF ProcessorInv

\* The invariant implies the property the model checker checks
LEMMA ArrivalsFollow == IInv /\ ProcessorInv => ArrivalsHeld
<1> SUFFICES ASSUME IInv, ProcessorInv PROVE ArrivalsHeld
  BY Zenon
<1>1. QueueTypes
  BY TruthfulType DEF ProcessorInv, QueuesInv, QueueTypes
<1>2. QueuedOnce
  BY <1>1, QueuedApart, Zenon DEF ProcessorInv, QueuesInv
<1>3. BPTypeOK
  <2>1. DOMAIN unchecked \subseteq Link \X Hash /\ gap_cache \subseteq Hash /\ blocks_hashes \subseteq Hash
    BY Zenon DEF ProcessorInv, TableInv, UncheckedInv, QueuesInv
  <2> QED BY <1>1, <2>1, TruthfulType, Zenon DEF ProcessorInv, LocalInv, QueueTypes, BPTypeOK
<1>4. UncheckedWaits
  <2> SUFFICES ASSUME NEW k \in DOMAIN unchecked, Exists(k[1]) PROVE Misplaced(k[1], k[2])
    BY Zenon DEF UncheckedWaits
  <2>1. NeverFits(k[1], k[2])
    BY Zenon DEF ProcessorInv, TableInv, UncheckedInv, Exists
  <2>2. AccountOf(k[1]) = Owner[k[1]]
    BY Zenon DEF IInv, ChainInv, Exists, AccountOf
  <2> QED BY <2>1, <2>2, Zenon DEF NeverFits, Misplaced
<1> QED BY <1>2, <1>3, <1>4, Zenon DEF ArrivalsHeld, ProcessorInv, TableInv

\* A step of the processor is, for the ledger, a step of the ledger's own
\* specification, no step or a crash
LEMMA LedgerSteps ==
    ASSUME IInv, ProcessorInv, BPNext
    PROVE  \/ Crash
           \/ ~Crash /\ Next /\ disk' = disk
           \/ UNCHANGED vars /\ (disk' = disk \/ EndBatch)
<1>1. CASE ProcessOne
  <2>1. PICK h : h = item.hash
    BY Zenon
  <2>2. disk' = disk /\ pc' = "more"
    BY <1>1, Zenon DEF ProcessOne
  <2>3. ~Crash
    BY <2>2, Zenon DEF Crash
  <2>4. CASE Process(h, item.verified)
    <3>1. item \in Truthful /\ h \in Hash
      BY <2>1, Zenon DEF ProcessorInv, LocalInv, Truthful, UncheckedInfo
    <3>2. ProcessResult(h, "unknown") = "progress"
      <4>1. PICK info : info = item
        BY Zenon
      <4> QED BY <2>1, <2>4, <3>1, <4>1, VerdictWithoutCheck, Zenon DEF Process
    <3>3. Process(h, "unknown")
      BY <2>4, <3>2, Zenon DEF Process
    <3>4. "unknown" \in Verifications(h)
      BY Zenon DEF Verifications
    <3>5. Next
      BY <3>1, <3>3, <3>4, Zenon DEF Next
    <3> QED BY <2>2, <2>3, <3>5, Zenon
  <2>5. CASE UNCHANGED vars
    BY <2>2, <2>5, Zenon
  <2>6. Process(h, item.verified) \/ UNCHANGED vars
    BY <1>1, <2>1, Zenon DEF ProcessOne, PutUnchecked
  <2> QED BY <2>4, <2>5, <2>6, Zenon
<1>2. CASE RollBack
  <2>1. RollbackStep /\ disk' = disk /\ (pc' = "one" \/ pc' = "rollback")
    BY <1>2, Zenon DEF RollBack
  <2> QED BY <2>1, Zenon DEF Next, Crash
<1>3. CASE BeginRollback
  <2>1. Rollback(Successor(item.hash)) /\ disk' = disk /\ pc' = "rollback"
    BY <1>3, Zenon DEF BeginRollback
  <2>2. Successor(item.hash) \in Hash
    BY <2>1, Zenon DEF Rollback, Exists, IInv, TypeOK
  <2> QED BY <2>1, <2>2, Zenon DEF Next, Crash
<1>4. CASE EndBatch
  BY <1>4, Zenon DEF EndBatch
<1>5. CASE \/ \E d \in Deliveries : Add(d[1], d[2])
           \/ \E h \in Winners : ForceBlock(h)
           \/ Stop \/ Flush \/ Top \/ Wake \/ VerifyDone \/ BatchVerify \/ BeginWrite
           \/ TakeBlock \/ TakeForced \/ NoRollback \/ VerifyMore
  BY <1>5, Zenon DEF Add, ForceBlock, Stop, Flush, Top, Wake, VerifyDone, BatchVerify, BeginWrite,
     TakeBlock, TakeForced, NoRollback, VerifyMore
<1> QED BY <1>1, <1>2, <1>3, <1>4, <1>5, Zenon DEF BPNext, ProcessorStep
=============================================================================
