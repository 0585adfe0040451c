------------------------------ MODULE Induction ------------------------------
(***************************************************************************)
(* Induction over the natural numbers in forms that take a set where the   *)
(* library's theorems take a predicate: what the proofs about recursive    *)
(* functions and sums need, and the facts about the community modules'     *)
(* SumFunctionOnSet that follow from them.                                 *)
(***************************************************************************)
EXTENDS Integers, Functions, WellFoundedInduction, FiniteSetTheorems, TLAPS

\* A set of natural numbers that has an element has a least one.
LEMMA LeastNat ==
  ASSUME NEW T \in SUBSET Nat, T # {}
  PROVE  \E x \in T : \A y \in T : x =< y
<1> DEFINE R == {p \in Nat \X Nat : p[1] < p[2]}
<1>1. IsWellFoundedOn(R, Nat)
  BY NatLessThanWellFounded DEF OpToRel
<1>2. \A x, y \in Nat : x < y => <<x, y>> \in R
  OBVIOUS
<1> HIDE DEF R
<1>3. PICK x \in T : \A y \in T : ~ (<<y, x>> \in R)
  BY <1>1, WFMin, Zenon
<1>4. \A y \in T : ~ (y < x)
  BY <1>2, <1>3
<1> QED
  BY <1>4

\* Induction.
LEMMA NatSet ==
  ASSUME NEW S, 0 \in S, \A n \in Nat : n \in S => n + 1 \in S
  PROVE  \A n \in Nat : n \in S
<1> DEFINE T == Nat \ S
<1>1. SUFFICES ASSUME T # {} PROVE FALSE
  OBVIOUS
<1>2. T \in SUBSET Nat
  OBVIOUS
<1> HIDE DEF T
<1>3. PICK x \in T : \A y \in T : x =< y
  BY <1>1, <1>2, LeastNat, Zenon
<1>4. x \in Nat /\ x \notin S /\ x # 0
  BY <1>3 DEF T
<1>5. x - 1 \in Nat /\ x - 1 \notin T
  BY <1>3, <1>4
<1>6. x - 1 \in S
  BY <1>5 DEF T
<1> QED
  BY <1>4, <1>5, <1>6

-----------------------------------------------------------------------------
(* Sums *)

\* g sums f over the subsets of S in the order in which SumFunctionOnSet does.
Recurs(g, f, S) ==
  g = [s \in SUBSET S |->
         IF s = {} THEN 0 ELSE LET x == CHOOSE x \in s : TRUE IN f[x] + g[s \ {x}]]

LEMMA SumIs == ASSUME NEW f, NEW S PROVE SumFunctionOnSet(f, S) = (CHOOSE g : Recurs(g, f, S))[S]
BY Zenon DEF SumFunctionOnSet, FoldFunctionOnSet, MapThenFoldSet, Recurs

\* The element taken first.
First(s) == CHOOSE x \in s : TRUE

LEMMA FirstIn == ASSUME NEW s, s # {} PROVE First(s) \in s
BY DEF First

LEMMA RecursIs ==
  ASSUME NEW g, NEW f, NEW S, Recurs(g, f, S)
  PROVE  \A s \in SUBSET S : g[s] = IF s = {} THEN 0 ELSE f[First(s)] + g[s \ {First(s)}]
<1> DEFINE rec(s) == IF s = {} THEN 0 ELSE LET x == CHOOSE x \in s : TRUE IN f[x] + g[s \ {x}]
<1>1. g = [s \in SUBSET S |-> rec(s)]
  BY Zenon DEF Recurs
<1>2. \A s : rec(s) = IF s = {} THEN 0 ELSE f[First(s)] + g[s \ {First(s)}]
  BY Zenon DEF First
<1> HIDE DEF rec
<1>3. \A s \in SUBSET S : g[s] = rec(s)
  BY <1>1
<1> QED
  BY <1>2, <1>3, Zenon

\* One element less.
LEMMA OneLess ==
  ASSUME NEW s, IsFiniteSet(s), NEW n \in Nat, Cardinality(s) = n + 1, NEW x \in s
  PROVE  IsFiniteSet(s \ {x}) /\ Cardinality(s \ {x}) = n
BY FS_RemoveElement

LEMMA NoneLeft ==
  ASSUME NEW s, IsFiniteSet(s)
  PROVE  Cardinality(s) \in Nat /\ (Cardinality(s) = 0 <=> s = {})
BY FS_EmptySet, FS_CardinalityType

\* Two such functions agree on a finite set that both sum.
LEMMA RecursUnique ==
  ASSUME NEW f, NEW g, NEW h, NEW S, NEW T, Recurs(g, f, S), Recurs(h, f, T),
         NEW s, IsFiniteSet(s), s \subseteq S, s \subseteq T
  PROVE  g[s] = h[s]
<1> DEFINE N == {n \in Nat : \A t \in SUBSET (S \cap T) :
                   IsFiniteSet(t) /\ Cardinality(t) = n => g[t] = h[t]}
<1>a. \A t \in SUBSET S : g[t] = IF t = {} THEN 0 ELSE f[First(t)] + g[t \ {First(t)}]
  BY RecursIs
<1>b. \A t \in SUBSET T : h[t] = IF t = {} THEN 0 ELSE f[First(t)] + h[t \ {First(t)}]
  BY RecursIs
<1>1. 0 \in N
  <2> SUFFICES ASSUME NEW t \in SUBSET (S \cap T), IsFiniteSet(t), Cardinality(t) = 0
               PROVE  g[t] = h[t]
    OBVIOUS
  <2>1. t = {} /\ t \in SUBSET S /\ t \in SUBSET T
    BY NoneLeft
  <2> QED
    BY <1>a, <1>b, <2>1
<1>2. ASSUME NEW n \in Nat, n \in N PROVE n + 1 \in N
  <2> SUFFICES ASSUME NEW t \in SUBSET (S \cap T), IsFiniteSet(t), Cardinality(t) = n + 1
               PROVE  g[t] = h[t]
    OBVIOUS
  <2>1. t # {}
    BY NoneLeft
  <2> DEFINE u == t \ {First(t)}
  <2>2. IsFiniteSet(u) /\ Cardinality(u) = n /\ u \in SUBSET (S \cap T)
    BY <2>1, FirstIn, OneLess
  <2>3. g[u] = h[u]
    BY <1>2, <2>2
  <2>4. g[t] = f[First(t)] + g[u] /\ h[t] = f[First(t)] + h[u]
    <3>1. t \in SUBSET S /\ t \in SUBSET T
      OBVIOUS
    <3> QED
      BY <1>a, <1>b, <2>1, <3>1
  <2> QED
    BY <2>3, <2>4, Zenon
<1> HIDE DEF N
<1>3. \A n \in Nat : n \in N
  BY <1>1, <1>2, NatSet, Zenon
<1>4. Cardinality(s) \in N /\ s \in SUBSET (S \cap T)
  BY <1>3, NoneLeft
<1> QED
  BY <1>4 DEF N

\* There is one.
LEMMA RecursExists ==
  ASSUME NEW S, IsFiniteSet(S), NEW f, \A x \in S : f[x] \in Int
  PROVE  \E g \in [SUBSET S -> Int] : Recurs(g, f, S)
<1> DEFINE val(g, s) == IF s = {} THEN 0 ELSE f[First(s)] + g[s \ {First(s)}]
           Upto(g, n) == \A s \in SUBSET S : Cardinality(s) =< n => g[s] = val(g, s)
           N == {n \in Nat : \E g \in [SUBSET S -> Int] : Upto(g, n)}
<1>0. \A s \in SUBSET S : /\ IsFiniteSet(s) /\ Cardinality(s) \in Nat
                          /\ Cardinality(s) =< Cardinality(S) /\ (Cardinality(s) = 0 <=> s = {})
  BY FS_Subset, NoneLeft
<1>1. 0 \in N
  <2> DEFINE g == [s \in SUBSET S |-> 0]
  <2>1. g \in [SUBSET S -> Int]
    OBVIOUS
  <2>2. ASSUME NEW s \in SUBSET S, Cardinality(s) =< 0 PROVE g[s] = val(g, s)
    <3>1. s = {}
      BY <1>0, <2>2
    <3> QED
      BY <3>1
  <2> QED
    BY <2>1, <2>2
<1>2. ASSUME NEW n \in Nat, n \in N PROVE n + 1 \in N
  <2>1. PICK g \in [SUBSET S -> Int] : Upto(g, n)
    BY <1>2
  <2> DEFINE h == [s \in SUBSET S |-> IF Cardinality(s) =< n THEN g[s] ELSE val(g, s)]
  <2>2. \A s \in SUBSET S : val(g, s) \in Int
    <3> SUFFICES ASSUME NEW s \in SUBSET S, s # {} PROVE f[First(s)] + g[s \ {First(s)}] \in Int
      OBVIOUS
    <3>1. First(s) \in S /\ s \ {First(s)} \in SUBSET S
      BY FirstIn
    <3> QED
      BY <2>1, <3>1
  <2> HIDE DEF val
  <2>3. h \in [SUBSET S -> Int]
    BY <2>1, <2>2
  <2>4. ASSUME NEW s \in SUBSET S, Cardinality(s) =< n + 1 PROVE h[s] = val(h, s)
    <3>1. s \ {First(s)} \in SUBSET S
      OBVIOUS
    <3>2. s # {} => Cardinality(s \ {First(s)}) =< n
      <4> SUFFICES ASSUME s # {} PROVE Cardinality(s \ {First(s)}) = Cardinality(s) - 1
        BY <1>0, <2>4
      <4> QED
        BY <1>0, FirstIn, FS_RemoveElement
    <3>3. s # {} => h[s \ {First(s)}] = g[s \ {First(s)}]
      BY <3>1, <3>2
    <3>4. val(h, s) = val(g, s)
      BY <3>3, Zenon DEF val
    <3>5. h[s] = val(g, s)
      <4>1. CASE Cardinality(s) =< n
        BY <2>1, <4>1
      <4>2. CASE ~(Cardinality(s) =< n)
        BY <4>2
      <4> QED
        BY <4>1, <4>2
    <3> QED
      BY <3>4, <3>5
  <2> HIDE DEF h
  <2> QED
    BY <2>3, <2>4
<1> HIDE DEF N
<1>3. Cardinality(S) \in N
  <2>1. \A n \in Nat : n \in N
    BY <1>1, <1>2, NatSet, Zenon
  <2> QED
    BY <2>1, NoneLeft
<1>4. PICK g \in [SUBSET S -> Int] : Upto(g, Cardinality(S))
  BY <1>3 DEF N
<1>5. \A s \in SUBSET S : g[s] = val(g, s)
  BY <1>0, <1>4
<1>6. g = [s \in SUBSET S |-> val(g, s)]
  <2> HIDE DEF val
  <2> QED
    BY <1>5
<1>7. Recurs(g, f, S)
  BY <1>6, Zenon DEF Recurs, First
<1> QED
  BY <1>7

\* The sum as it is computed: one element, then the others.
LEMMA SumFirst ==
  ASSUME NEW S, IsFiniteSet(S), NEW f, \A x \in S : f[x] \in Int
  PROVE  /\ SumFunctionOnSet(f, S) \in Int
         /\ SumFunctionOnSet(f, S) = IF S = {} THEN 0
                                     ELSE f[First(S)] + SumFunctionOnSet(f, S \ {First(S)})
<1> DEFINE T == S \ {First(S)}
<1>1. PICK g \in [SUBSET S -> Int] : Recurs(g, f, S)
  BY RecursExists
<1>2. IsFiniteSet(T) /\ T \subseteq S /\ \A x \in T : f[x] \in Int
  BY FS_Subset
<1> HIDE DEF T
<1>3. PICK h \in [SUBSET T -> Int] : Recurs(h, f, T)
  BY <1>2, RecursExists
<1>4. PICK c : c = CHOOSE x : Recurs(x, f, S)
  OBVIOUS
<1>5. PICK d : d = CHOOSE x : Recurs(x, f, T)
  OBVIOUS
<1>6. Recurs(c, f, S) /\ Recurs(d, f, T)
  BY <1>1, <1>3, <1>4, <1>5, Zenon
<1>7. SumFunctionOnSet(f, S) = c[S] /\ SumFunctionOnSet(f, T) = d[T]
  BY <1>4, <1>5, SumIs, Zenon
<1>8. c[S] = g[S] /\ d[T] = g[T]
  <2>1. c[S] = g[S]
    BY <1>1, <1>6, RecursUnique
  <2>2. d[T] = g[T]
    BY <1>1, <1>2, <1>6, RecursUnique
  <2> QED
    BY <2>1, <2>2
<1>9. g[S] = IF S = {} THEN 0 ELSE f[First(S)] + g[T]
  <2>1. S \in SUBSET S
    OBVIOUS
  <2> QED
    BY <1>1, <2>1, RecursIs, Zenon DEF T
<1>10. g[S] \in Int
  BY <1>1
<1> QED
  BY <1>7, <1>8, <1>9, <1>10 DEF T

LEMMA SumEmpty == ASSUME NEW f PROVE SumFunctionOnSet(f, {}) = 0
<1>1. IsFiniteSet({}) /\ \A x \in {} : f[x] \in Int
  BY FS_EmptySet
<1> QED
  BY <1>1, SumFirst

LEMMA SumInt ==
  ASSUME NEW S, IsFiniteSet(S), NEW f, \A x \in S : f[x] \in Int
  PROVE  SumFunctionOnSet(f, S) \in Int
BY SumFirst

\* Any element may be taken out of the sum.
LEMMA SumWithout ==
  ASSUME NEW S, IsFiniteSet(S), NEW f, \A x \in S : f[x] \in Int, NEW y \in S
  PROVE  SumFunctionOnSet(f, S) = f[y] + SumFunctionOnSet(f, S \ {y})
<1> DEFINE sum(s) == SumFunctionOnSet(f, s)
           N == {n \in Nat : \A s \in SUBSET S : Cardinality(s) = n =>
                   \A x \in s : sum(s) = f[x] + sum(s \ {x})}
<1>0. \A s \in SUBSET S : /\ IsFiniteSet(s) /\ Cardinality(s) \in Nat
                          /\ (Cardinality(s) = 0 <=> s = {}) /\ \A x \in s : f[x] \in Int
  BY FS_Subset, NoneLeft
<1>a. \A s \in SUBSET S : sum(s) \in Int /\ (s # {} => sum(s) = f[First(s)] + sum(s \ {First(s)}))
  BY <1>0, SumFirst
<1> HIDE DEF sum
<1>1. 0 \in N
  BY <1>0
<1>2. ASSUME NEW n \in Nat, n \in N PROVE n + 1 \in N
  <2> SUFFICES ASSUME NEW s \in SUBSET S, Cardinality(s) = n + 1, NEW x \in s
               PROVE  sum(s) = f[x] + sum(s \ {x})
    OBVIOUS
  <2>1. PICK c \in s : c = First(s)
    BY FirstIn
  <2>2. sum(s) = f[c] + sum(s \ {c})
    BY <1>a, <2>1
  <2>3. CASE x = c
    BY <2>2, <2>3
  <2>4. CASE x # c
    <3> DEFINE t == s \ {c}  u == s \ {x}  v == (s \ {c}) \ {x}
    <3>1. /\ t \in SUBSET S /\ u \in SUBSET S /\ v \in SUBSET S
          /\ Cardinality(t) = n /\ Cardinality(u) = n /\ x \in t /\ c \in u
      BY <1>0, <2>1, <2>4, OneLess
    <3>2. v = u \ {c}
      OBVIOUS
    <3>3. sum(t) = f[x] + sum(v)
      BY <1>2, <3>1
    <3>4. sum(u) = f[c] + sum(v)
      BY <1>2, <3>1, <3>2
    <3>5. f[x] \in Int /\ f[c] \in Int /\ sum(v) \in Int
      BY <1>0, <1>a, <3>1
    <3> HIDE DEF t, u, v
    <3>6. sum(s) = f[c] + sum(t)
      BY <2>2 DEF t
    <3>7. sum(s) = f[x] + sum(u)
      BY <3>3, <3>4, <3>5, <3>6
    <3> QED
      BY <3>7 DEF u
  <2> QED
    BY <2>3, <2>4
<1> HIDE DEF N
<1>3. \A n \in Nat : n \in N
  BY <1>1, <1>2, NatSet, Zenon
<1>4. Cardinality(S) \in N /\ S \in SUBSET S
  BY <1>3, NoneLeft
<1>5. sum(S) = f[y] + sum(S \ {y})
  BY <1>4 DEF N
<1> QED
  BY <1>5 DEF sum

\* The sum depends on the values in the set only.
LEMMA SumSame ==
  ASSUME NEW S, IsFiniteSet(S), NEW f, NEW g, \A x \in S : f[x] \in Int /\ g[x] = f[x]
  PROVE  SumFunctionOnSet(g, S) = SumFunctionOnSet(f, S)
<1> DEFINE N == {n \in Nat : \A s \in SUBSET S : Cardinality(s) = n =>
                   SumFunctionOnSet(g, s) = SumFunctionOnSet(f, s)}
<1>0. \A s \in SUBSET S : /\ IsFiniteSet(s) /\ Cardinality(s) \in Nat
                          /\ (Cardinality(s) = 0 <=> s = {})
                          /\ \A x \in s : f[x] \in Int /\ g[x] \in Int
  BY FS_Subset, NoneLeft
<1>1. 0 \in N
  BY <1>0, SumEmpty
<1>2. ASSUME NEW n \in Nat, n \in N PROVE n + 1 \in N
  <2> SUFFICES ASSUME NEW s \in SUBSET S, Cardinality(s) = n + 1
               PROVE  SumFunctionOnSet(g, s) = SumFunctionOnSet(f, s)
    OBVIOUS
  <2>1. PICK c \in s : TRUE
    BY <1>0
  <2>2. PICK t \in SUBSET S : t = s \ {c}
    OBVIOUS
  <2>3. SumFunctionOnSet(g, t) = SumFunctionOnSet(f, t)
    BY <1>0, <1>2, <2>2, OneLess
  <2>4. SumFunctionOnSet(f, s) = f[c] + SumFunctionOnSet(f, t)
    BY <1>0, <2>2, SumWithout
  <2>5. SumFunctionOnSet(g, s) = g[c] + SumFunctionOnSet(g, t)
    BY <1>0, <2>2, SumWithout
  <2> QED
    BY <2>3, <2>4, <2>5
<1> HIDE DEF N
<1>3. \A n \in Nat : n \in N
  BY <1>1, <1>2, NatSet, Zenon
<1>4. Cardinality(S) \in N /\ S \in SUBSET S
  BY <1>3, NoneLeft
<1> QED
  BY <1>4 DEF N

\* Elements that count nothing may be left out.
LEMMA SumZero ==
  ASSUME NEW S, IsFiniteSet(S), NEW f, \A x \in S : f[x] = 0
  PROVE  SumFunctionOnSet(f, S) = 0
<1> DEFINE N == {n \in Nat : \A s \in SUBSET S : Cardinality(s) = n => SumFunctionOnSet(f, s) = 0}
<1>0. \A s \in SUBSET S : /\ IsFiniteSet(s) /\ Cardinality(s) \in Nat
                          /\ (Cardinality(s) = 0 <=> s = {}) /\ \A x \in s : f[x] \in Int
  BY FS_Subset, NoneLeft
<1>1. 0 \in N
  BY <1>0, SumEmpty
<1>2. ASSUME NEW n \in Nat, n \in N PROVE n + 1 \in N
  <2> SUFFICES ASSUME NEW s \in SUBSET S, Cardinality(s) = n + 1
               PROVE  SumFunctionOnSet(f, s) = 0
    OBVIOUS
  <2>1. PICK c \in s : f[c] = 0
    BY <1>0
  <2>2. PICK t \in SUBSET S : t = s \ {c}
    OBVIOUS
  <2>3. SumFunctionOnSet(f, t) = 0
    BY <1>0, <1>2, <2>2, OneLess
  <2>4. SumFunctionOnSet(f, s) = f[c] + SumFunctionOnSet(f, t)
    BY <1>0, <2>2, SumWithout
  <2> QED
    BY <2>1, <2>3, <2>4
<1> HIDE DEF N
<1>3. \A n \in Nat : n \in N
  BY <1>1, <1>2, NatSet, Zenon
<1>4. Cardinality(S) \in N /\ S \in SUBSET S
  BY <1>3, NoneLeft
<1> QED
  BY <1>4 DEF N

\* One element is added, or counts something else than before.
LEMMA SumPut ==
  ASSUME NEW S, IsFiniteSet(S), NEW f, \A x \in S : f[x] \in Int, NEW y,
         NEW T, T = S \cup {y}, NEW g, g[y] \in Int, \A x \in S \ {y} : g[x] = f[x]
  PROVE  SumFunctionOnSet(g, T) = SumFunctionOnSet(f, S) - (IF y \in S THEN f[y] ELSE 0) + g[y]
<1> DEFINE R == S \ {y}
<1>1. IsFiniteSet(R) /\ IsFiniteSet(T)
  BY FS_Subset, FS_AddElement
<1>2. y \in T /\ T \ {y} = R /\ \A x \in T : g[x] \in Int
  OBVIOUS
<1>3. SumFunctionOnSet(g, T) = g[y] + SumFunctionOnSet(g, R)
  BY <1>1, <1>2, SumWithout
<1>4. SumFunctionOnSet(g, R) = SumFunctionOnSet(f, R)
  BY <1>1, SumSame
<1>5. SumFunctionOnSet(f, R) \in Int
  BY <1>1, SumInt
<1>6. CASE y \in S
  <2>1. SumFunctionOnSet(f, S) = f[y] + SumFunctionOnSet(f, R)
    BY <1>6, SumWithout
  <2> HIDE DEF R
  <2>2. f[y] \in Int
    BY <1>6
  <2> QED
    BY <1>3, <1>4, <1>5, <1>6, <2>1, <2>2
<1>7. CASE y \notin S
  <2>1. R = S
    BY <1>7
  <2> HIDE DEF R
  <2> QED
    BY <1>3, <1>4, <1>5, <1>7, <2>1
<1> QED
  BY <1>6, <1>7

\* Elements that count nothing are taken out of the sum.
LEMMA SumRest ==
  ASSUME NEW S, IsFiniteSet(S), NEW f, \A x \in S : f[x] \in Int,
         NEW T \in SUBSET S, \A x \in S \ T : f[x] = 0
  PROVE  SumFunctionOnSet(f, S) = SumFunctionOnSet(f, T)
<1> DEFINE N == {n \in Nat : \A s \in SUBSET S : Cardinality(s) = n =>
                   SumFunctionOnSet(f, s) = SumFunctionOnSet(f, s \cap T)}
<1>0. \A s \in SUBSET S : /\ IsFiniteSet(s) /\ Cardinality(s) \in Nat
                          /\ (Cardinality(s) = 0 <=> s = {})
                          /\ \A x \in s : f[x] \in Int
  BY FS_Subset, NoneLeft
<1>1. 0 \in N
  BY <1>0, SumEmpty
<1>2. ASSUME NEW n \in Nat, n \in N PROVE n + 1 \in N
  <2> SUFFICES ASSUME NEW s \in SUBSET S, Cardinality(s) = n + 1
               PROVE  SumFunctionOnSet(f, s) = SumFunctionOnSet(f, s \cap T)
    OBVIOUS
  <2>1. PICK c \in s : TRUE
    BY <1>0
  <2>2. PICK t \in SUBSET S : t = s \ {c}
    OBVIOUS
  <2>3. SumFunctionOnSet(f, t) = SumFunctionOnSet(f, t \cap T)
    <3>1. Cardinality(t) = n
      BY <1>0, <2>2, OneLess
    <3> QED
      BY <1>2, <3>1
  <2>4. SumFunctionOnSet(f, s) = f[c] + SumFunctionOnSet(f, t)
    BY <1>0, <2>2, SumWithout
  <2>5. CASE c \in T
    <3>1. PICK u \in SUBSET S : u = s \cap T
      OBVIOUS
    <3>2. c \in u /\ u \ {c} = t \cap T
      BY <2>2, <2>5, <3>1
    <3>3. SumFunctionOnSet(f, u) = f[c] + SumFunctionOnSet(f, t \cap T)
      BY <1>0, <3>2, SumWithout
    <3> QED
      BY <2>3, <2>4, <3>1, <3>3
  <2>6. CASE c \notin T
    <3>1. s \cap T = t \cap T
      BY <2>2, <2>6
    <3>2. f[c] = 0 /\ SumFunctionOnSet(f, t) \in Int
      BY <1>0, <2>6, SumInt
    <3>3. SumFunctionOnSet(f, s) = SumFunctionOnSet(f, t)
      BY <2>4, <3>2
    <3> QED
      BY <2>3, <3>1, <3>3, Zenon
  <2> QED
    BY <2>5, <2>6
<1> HIDE DEF N
<1>3. \A n \in Nat : n \in N
  BY <1>1, <1>2, NatSet, Zenon
<1>4. Cardinality(S) \in N /\ S \in SUBSET S /\ S \cap T = T
  BY <1>3, NoneLeft
<1> QED
  BY <1>4 DEF N
=============================================================================
