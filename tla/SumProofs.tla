----------------------------- MODULE SumProofs ------------------------------
(***************************************************************************)
(* Induction on the natural numbers, and what the proofs about balances    *)
(* and weights need of sums over finite sets.                              *)
(***************************************************************************)
EXTENDS Integers, Functions, FiniteSetTheorems, TLAPS

\* Induction on Nat, for a set
LEMMA NatSetInduction ==
    ASSUME NEW P, 0 \in P, \A n \in Nat : n \in P => n + 1 \in P
    PROVE  Nat \subseteq P
<1> SUFFICES ASSUME Nat \ P # {} PROVE FALSE
  BY Zenon
<1>1. PICK n \in Nat \ P : \A m \in Nat \ P : ~(<<m, n>> \in OpToRel(<, Nat))
  BY NatLessThanWellFounded, WFMin, Zenon
<1>2. n # 0 /\ n - 1 \in Nat
  OBVIOUS
<1>3. n - 1 \in Nat \ P
  BY <1>2
<1>4. <<n - 1, n>> \in OpToRel(<, Nat)
  BY <1>2 DEF OpToRel
<1> QED BY <1>1, <1>3, <1>4, Zenon

Pick(s) == CHOOSE x \in s : TRUE

Folds(g, f, S) ==
    g = [s \in SUBSET S |-> IF s = {} THEN 0 ELSE f[Pick(s)] + g[s \ {Pick(s)}]]

LEMMA SumDef == ASSUME NEW f, NEW S PROVE SumFunctionOnSet(f, S) = (CHOOSE g : Folds(g, f, S))[S]
BY Zenon DEF SumFunctionOnSet, FoldFunctionOnSet, MapThenFoldSet, Folds, Pick

LEMMA PickIn == ASSUME NEW s, s # {} PROVE Pick(s) \in s
BY Zenon DEF Pick

\* Removing an element of a finite set
LEMMA Smaller ==
    ASSUME NEW S, IsFiniteSet(S), NEW x \in S
    PROVE  /\ IsFiniteSet(S \ {x}) /\ Cardinality(S \ {x}) \in Nat
           /\ Cardinality(S) = Cardinality(S \ {x}) + 1
<1>1. IsFiniteSet(S \ {x}) /\ Cardinality(S \ {x}) = Cardinality(S) - 1
  BY FS_RemoveElement, Zenon
<1>2. Cardinality(S) \in Nat /\ Cardinality(S \ {x}) \in Nat
  BY <1>1, FS_CardinalityType, Zenon
<1> QED BY <1>1, <1>2

\* The function that defines a sum exists
LEMMA FoldsExist ==
    ASSUME NEW f, NEW S, IsFiniteSet(S)
    PROVE  \E g : Folds(g, f, S)
<1> DEFINE Sub(n) == {s \in SUBSET S : Cardinality(s) <= n}
           Step(g, s) == IF s = {} THEN 0 ELSE f[Pick(s)] + g[s \ {Pick(s)}]
           P == {n \in Nat : \E g : \A s \in Sub(n) : g[s] = Step(g, s)}
<1>1. \A s \in SUBSET S : IsFiniteSet(s) /\ Cardinality(s) \in Nat
  BY FS_Subset, FS_CardinalityType, Zenon
<1>2. 0 \in P
  <2> DEFINE g == [s \in SUBSET S |-> 0]
  <2>1. \A s \in Sub(0) : s = {}
    BY <1>1, FS_EmptySet
  <2>2. \A s \in Sub(0) : g[s] = Step(g, s)
    BY <2>1, Zenon
  <2> QED BY <2>2, Zenon
<1>3. ASSUME NEW n \in Nat, n \in P PROVE n + 1 \in P
  <2>1. PICK g : \A s \in Sub(n) : g[s] = Step(g, s)
    BY <1>3, Zenon
  <2> DEFINE h == [s \in SUBSET S |-> Step(g, s)]
  <2>2. \A s \in Sub(n) : h[s] = g[s]
    BY <2>1, Zenon
  <2>3. ASSUME NEW s \in Sub(n + 1) PROVE h[s] = Step(h, s)
    <3>1. CASE s = {}
      BY <3>1, Zenon
    <3>2. CASE s # {}
      <4>1. Pick(s) \in s
        BY <3>2, PickIn, Zenon
      <4>2. s \ {Pick(s)} \in Sub(n)
        BY <1>1, <4>1, Smaller
      <4> QED BY <2>2, <3>2, <4>2, Zenon
    <3> QED BY <3>1, <3>2, Zenon
  <2> HIDE DEF h
  <2> QED BY <2>3
<1> HIDE DEF P
<1>4. Cardinality(S) \in P
  BY <1>1, <1>2, <1>3, NatSetInduction, Zenon
<1>5. PICK g : \A s \in Sub(Cardinality(S)) : g[s] = Step(g, s)
  BY <1>4, Zenon DEF P
<1>6. \A s \in SUBSET S : s \in Sub(Cardinality(S))
  BY <1>1, FS_Subset, Zenon
<1> DEFINE h == [s \in SUBSET S |-> g[s]]
<1>7. \A s \in SUBSET S : h[s] = Step(h, s)
  <2> TAKE s \in SUBSET S
  <2>1. s \ {Pick(s)} \in SUBSET S
    BY Zenon
  <2> QED BY <1>5, <1>6, <2>1, Zenon
<1>8. h = [s \in SUBSET S |-> Step(h, s)]
  BY <1>7, Zenon
<1> HIDE DEF h
<1> QED BY <1>8, Zenon DEF Folds

\* and agrees with that of a smaller set
LEMMA FoldsAgree ==
    ASSUME NEW f, NEW e, NEW S, IsFiniteSet(S), NEW T, T \subseteq S, 
           \A x \in T : f[x] = e[x],
           NEW g, Folds(g, f, S), NEW h, Folds(h, e, T)
    PROVE  g[T] = h[T]
<1> DEFINE P == {n \in Nat : \A s \in SUBSET T : Cardinality(s) = n => g[s] = h[s]}
<1>0. \A s \in SUBSET T : IsFiniteSet(s) /\ Cardinality(s) \in Nat /\ s \in SUBSET S
  BY FS_Subset, FS_CardinalityType, Zenon
<1>1. /\ \A s \in SUBSET S : g[s] = IF s = {} THEN 0 ELSE f[Pick(s)] + g[s \ {Pick(s)}]
      /\ \A s \in SUBSET T : h[s] = IF s = {} THEN 0 ELSE e[Pick(s)] + h[s \ {Pick(s)}]
  BY Zenon DEF Folds
<1>2. 0 \in P
  BY <1>0, <1>1, FS_EmptySet, Zenon
<1>3. ASSUME NEW n \in Nat, n \in P PROVE n + 1 \in P
  <2> SUFFICES ASSUME NEW s \in SUBSET T, Cardinality(s) = n + 1 PROVE g[s] = h[s]
    OBVIOUS
  <2>1. s # {}
    BY <1>0, FS_EmptySet
  <2>2. Pick(s) \in s
    BY <2>1, PickIn, Zenon
  <2>3. s \ {Pick(s)} \in SUBSET T /\ Cardinality(s \ {Pick(s)}) = n
    <3>1. IsFiniteSet(s)
      BY <1>0, Zenon
    <3>2. /\ Cardinality(s \ {Pick(s)}) \in Nat
          /\ Cardinality(s) = Cardinality(s \ {Pick(s)}) + 1
      BY <2>2, <3>1, Smaller, Zenon
    <3> QED BY <3>2
  <2>4. g[s \ {Pick(s)}] = h[s \ {Pick(s)}]
    BY <1>3, <2>3, Zenon
  <2>5. s \in SUBSET S /\ f[Pick(s)] = e[Pick(s)]
    BY <2>2, Zenon
  <2> QED BY <1>1, <2>1, <2>4, <2>5, Zenon
<1> HIDE DEF P
<1>4. Cardinality(T) \in P
  BY <1>0, <1>2, <1>3, NatSetInduction, Zenon
<1> QED BY <1>4, Zenon DEF P

\* An empty sum, and how a sum depends on the function
LEMMA SumEmpty == ASSUME NEW f PROVE SumFunctionOnSet(f, {}) = 0
<1>1. PICK g : Folds(g, f, {})
  BY FoldsExist, FS_EmptySet, Zenon
<1> DEFINE h == CHOOSE h : Folds(h, f, {})
<1>2. Folds(h, f, {})
  BY <1>1, Zenon
<1> HIDE DEF h
<1>3. h[{}] = 0
  BY <1>2, Zenon DEF Folds
<1> QED BY <1>3, SumDef, Zenon DEF h

LEMMA SumSame ==
    ASSUME NEW f, NEW e, NEW S, IsFiniteSet(S), \A x \in S : f[x] = e[x]
    PROVE  SumFunctionOnSet(f, S) = SumFunctionOnSet(e, S)
<1> DEFINE g == CHOOSE g : Folds(g, f, S)
           h == CHOOSE h : Folds(h, e, S)
<1>1. Folds(g, f, S) /\ Folds(h, e, S)
  BY FoldsExist, Zenon
<1> HIDE DEF g, h
<1>2. g[S] = h[S]
  BY <1>1, FoldsAgree
<1> QED BY <1>2, SumDef, Zenon DEF g, h

LEMMA SumPick ==
    ASSUME NEW f, NEW S, IsFiniteSet(S), S # {}
    PROVE  SumFunctionOnSet(f, S) = f[Pick(S)] + SumFunctionOnSet(f, S \ {Pick(S)})
<1> DEFINE T == S \ {Pick(S)}
           g == CHOOSE g : Folds(g, f, S)
           h == CHOOSE h : Folds(h, f, T)
<1>1. IsFiniteSet(T)
  BY PickIn, Smaller, Zenon
<1>2. Folds(g, f, S) /\ Folds(h, f, T)
  BY <1>1, FoldsExist, Zenon
<1>3. SumFunctionOnSet(f, S) = g[S] /\ SumFunctionOnSet(f, T) = h[T]
  BY SumDef, Zenon
<1> HIDE DEF g, h, T
<1>4. T \subseteq S
  BY Zenon DEF T
<1>5. g[T] = h[T]
  BY <1>2, <1>4, FoldsAgree
<1>6. g[S] = f[Pick(S)] + g[T]
  BY <1>2, Zenon DEF Folds, T
<1> QED BY <1>3, <1>5, <1>6, Zenon DEF T

\* A sum of naturals is one
LEMMA SumNat ==
    ASSUME NEW S, IsFiniteSet(S), NEW f, \A x \in S : f[x] \in Nat
    PROVE  SumFunctionOnSet(f, S) \in Nat
<1> DEFINE P == {n \in Nat : \A s \in SUBSET S : Cardinality(s) = n => SumFunctionOnSet(f, s) \in Nat}
<1>0. \A s \in SUBSET S : IsFiniteSet(s) /\ Cardinality(s) \in Nat
  BY FS_Subset, FS_CardinalityType, Zenon
<1>1. 0 \in P
  BY <1>0, FS_EmptySet, SumEmpty, Zenon
<1>2. ASSUME NEW n \in Nat, n \in P PROVE n + 1 \in P
  <2> SUFFICES ASSUME NEW s \in SUBSET S, Cardinality(s) = n + 1 PROVE SumFunctionOnSet(f, s) \in Nat
    OBVIOUS
  <2>1. s # {}
    BY <1>0, FS_EmptySet
  <2>2. Pick(s) \in s
    BY <2>1, PickIn, Zenon
  <2>3. s \ {Pick(s)} \in SUBSET S /\ Cardinality(s \ {Pick(s)}) = n
    BY <1>0, <2>2, Smaller
  <2>4. SumFunctionOnSet(f, s \ {Pick(s)}) \in Nat /\ f[Pick(s)] \in Nat
    BY <1>2, <2>2, <2>3, Zenon
  <2> QED BY <1>0, <2>1, <2>4, SumPick
<1> HIDE DEF P
<1>3. Cardinality(S) \in P
  BY <1>0, <1>1, <1>2, NatSetInduction, Zenon
<1> QED BY <1>3, Zenon DEF P

\* Any element may be taken out of a sum
LEMMA SumOut ==
    ASSUME NEW S, IsFiniteSet(S), NEW f, \A x \in S : f[x] \in Nat, NEW a \in S
    PROVE  SumFunctionOnSet(f, S) = f[a] + SumFunctionOnSet(f, S \ {a})
<1> DEFINE Sum(s) == SumFunctionOnSet(f, s)
           P == {n \in Nat : \A s \in SUBSET S : Cardinality(s) = n =>
                                \A x \in s : Sum(s) = f[x] + Sum(s \ {x})}
<1>0. \A s \in SUBSET S : IsFiniteSet(s) /\ Cardinality(s) \in Nat /\ Sum(s) \in Nat
  BY FS_Subset, FS_CardinalityType, SumNat, Zenon
<1>1. 0 \in P
  BY <1>0, FS_EmptySet, Zenon
<1>2. ASSUME NEW n \in Nat, n \in P PROVE n + 1 \in P
  <2> SUFFICES ASSUME NEW s \in SUBSET S, Cardinality(s) = n + 1, NEW x \in s
               PROVE  Sum(s) = f[x] + Sum(s \ {x})
    OBVIOUS
  <2> DEFINE p == Pick(s)
  <2>1. p \in s /\ Sum(s) = f[p] + Sum(s \ {p})
    BY <1>0, PickIn, SumPick, Zenon
  <2> HIDE DEF p
  <2>2. CASE p = x
    BY <2>1, <2>2, Zenon
  <2>3. CASE p # x
    <3>1. /\ s \ {p} \in SUBSET S /\ Cardinality(s \ {p}) = n /\ x \in s \ {p}
          /\ s \ {x} \in SUBSET S /\ Cardinality(s \ {x}) = n /\ p \in s \ {x}
      BY <1>0, <2>1, <2>3, Smaller
    <3>2. Sum(s \ {p}) = f[x] + Sum((s \ {p}) \ {x}) /\ Sum(s \ {x}) = f[p] + Sum((s \ {x}) \ {p})
      BY <1>2, <3>1, Zenon
    <3>3. (s \ {p}) \ {x} = (s \ {x}) \ {p} /\ (s \ {p}) \ {x} \in SUBSET S
      BY Zenon
    <3>4. f[x] \in Nat /\ f[p] \in Nat /\ Sum((s \ {p}) \ {x}) \in Nat
      BY <1>0, <2>1, <3>3, Zenon
    <3>5. PICK r \in Nat : r = Sum((s \ {p}) \ {x})
      BY <3>4, Zenon
    <3>6. Sum(s) = f[p] + (f[x] + r) /\ Sum(s \ {x}) = f[p] + r
      BY <2>1, <3>2, <3>3, <3>5, Zenon
    <3> HIDE DEF Sum
    <3> QED BY <3>4, <3>6
  <2> QED BY <2>2, <2>3, Zenon
<1> HIDE DEF P
<1>3. Cardinality(S) \in P
  BY <1>0, <1>1, <1>2, NatSetInduction, Zenon
<1> QED BY <1>3, Zenon DEF P

\* A part of a sum is not larger than the sum
LEMMA SumSubset ==
    ASSUME NEW S, IsFiniteSet(S), NEW f, \A x \in S : f[x] \in Nat, NEW T, T \subseteq S
    PROVE  SumFunctionOnSet(f, T) <= SumFunctionOnSet(f, S)
<1> DEFINE Sum(s) == SumFunctionOnSet(f, s)
           P == {n \in Nat : \A s \in SUBSET S : T \subseteq s /\ Cardinality(s) = n => Sum(T) <= Sum(s)}
<1>0. \A s \in SUBSET S : IsFiniteSet(s) /\ Cardinality(s) \in Nat /\ Sum(s) \in Nat
  BY FS_Subset, FS_CardinalityType, SumNat, Zenon
<1>1. 0 \in P
  BY <1>0, FS_EmptySet
<1>2. ASSUME NEW n \in Nat, n \in P PROVE n + 1 \in P
  <2> SUFFICES ASSUME NEW s \in SUBSET S, T \subseteq s, Cardinality(s) = n + 1
               PROVE  Sum(T) <= Sum(s)
    OBVIOUS
  <2>1. CASE s = T
    BY <1>0, <2>1
  <2>2. CASE s # T
    <3>1. PICK x \in s : x \notin T
      BY <2>2, Zenon
    <3>2. /\ s \ {x} \in SUBSET S /\ T \subseteq s \ {x} /\ Cardinality(s \ {x}) = n
          /\ f[x] \in Nat
      BY <1>0, <3>1, Smaller
    <3>3. Sum(T) <= Sum(s \ {x})
      BY <1>2, <3>2, Zenon
    <3>4. Sum(s) = f[x] + Sum(s \ {x})
      BY <1>0, SumOut, Zenon
    <3>5. Sum(T) \in Nat /\ Sum(s \ {x}) \in Nat
      BY <1>0, <3>2, Zenon
    <3> HIDE DEF Sum
    <3> QED BY <3>2, <3>3, <3>4, <3>5
  <2> QED BY <2>1, <2>2, Zenon
<1> HIDE DEF P
<1>3. Cardinality(S) \in P
  BY <1>0, <1>1, <1>2, NatSetInduction, Zenon
<1> QED BY <1>3, Zenon DEF P

\* Two sums that differ in one place
LEMMA SumChange ==
    ASSUME NEW S, IsFiniteSet(S), NEW f, \A x \in S : f[x] \in Nat,
           NEW T, IsFiniteSet(T), NEW g, \A x \in T : g[x] \in Nat,
           NEW a, S \ {a} = T \ {a}, \A x \in S \ {a} : f[x] = g[x]
    PROVE  LET out == IF a \in S THEN f[a] ELSE 0
               in == IF a \in T THEN g[a] ELSE 0
           IN /\ SumFunctionOnSet(f, S) \in Nat /\ SumFunctionOnSet(g, T) \in Nat
              /\ out \in Nat /\ in \in Nat
              /\ out <= SumFunctionOnSet(f, S)
              /\ SumFunctionOnSet(g, T) = SumFunctionOnSet(f, S) - out + in
<1> DEFINE rest == SumFunctionOnSet(f, S \ {a})
<1>1. IsFiniteSet(S \ {a})
  BY FS_Subset, Zenon
<1>2. rest \in Nat
  BY <1>1, SumNat, Zenon
<1>3. SumFunctionOnSet(g, T \ {a}) = rest
  BY <1>1, SumSame
<1>4. SumFunctionOnSet(f, S) = (IF a \in S THEN f[a] ELSE 0) + rest
  <2>1. CASE a \in S
    BY <2>1, SumOut, Zenon
  <2>2. CASE a \notin S
    <3>1. S \ {a} = S
      BY <2>2, Zenon
    <3>2. SumFunctionOnSet(f, S) = rest
      BY <3>1, Zenon
    <3> HIDE DEF rest
    <3> QED BY <1>2, <2>2, <3>2
  <2> QED BY <2>1, <2>2, Zenon
<1>5. SumFunctionOnSet(g, T) = (IF a \in T THEN g[a] ELSE 0) + rest
  <2>1. CASE a \in T
    BY <1>3, <2>1, SumOut
  <2>2. CASE a \notin T
    <3>1. T \ {a} = T
      BY <2>2, Zenon
    <3>2. SumFunctionOnSet(g, T) = rest
      BY <1>3, <3>1, Zenon
    <3> HIDE DEF rest
    <3> QED BY <1>2, <2>2, <3>2
  <2> QED BY <2>1, <2>2, Zenon
<1> DEFINE out == IF a \in S THEN f[a] ELSE 0
           in == IF a \in T THEN g[a] ELSE 0
<1>6. out \in Nat /\ in \in Nat
  BY Zenon
<1>7. SumFunctionOnSet(f, S) = out + rest /\ SumFunctionOnSet(g, T) = in + rest
  BY <1>4, <1>5, Zenon
<1> HIDE DEF rest, out, in
<1>8. /\ SumFunctionOnSet(f, S) \in Nat /\ SumFunctionOnSet(g, T) \in Nat
      /\ out <= SumFunctionOnSet(f, S)
      /\ SumFunctionOnSet(g, T) = SumFunctionOnSet(f, S) - out + in
  BY <1>2, <1>6, <1>7
<1> QED BY <1>6, <1>8, Zenon DEF out, in
=============================================================================
